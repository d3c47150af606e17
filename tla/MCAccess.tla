------------------------------ MODULE MCAccess ------------------------------
(* Who may do what, how often and with which answer, on a small instance:    *)
(* the rate limiter, the accounts and their sessions, removal requests, fit  *)
(* reports and lookups.  They share no state, so each behaviour plays one    *)
(* part.                                                                     *)
EXTENDS RateLimiter, Accounts, Reports, Lookup, TLC

CONSTANTS c1, c2, p1, p2, n1, n2, one, other, who, whom, h1, h2,
          Parts       \* the parts a run explores

VARIABLE part

accessVars == <<limiterVars, accountVars, reportsVars, lookupVars, part>>

\* Two callers behind the same two proxies, of one network or of two.
Placed(x, y) == (c1 :> x) @@ (c2 :> y) @@ (p1 :> n2) @@ (p2 :> n2)
MCAddressings == {Placed(n1, n1), Placed(n1, n2)}

\* Nothing, another caller's address, and one that is no address.
MCHeaders == {<< >>, <<c2, p1>>, <<c1, Junk>>}
MCRoutes == {<< >>, <<p2, p1>>}

\* Six bits, two of them in the first block.  What a release may look like: the
\* scene's own bytes, a hash at distance 4 that shares the first block only, of
\* the same runtime or not, one at distance 2, one at 5, or nothing but a
\* stash-box id or a name.
MCBits == 1..6
MCBlockOf == <<0, 0, 1, 2, 3, 4>>
Look(bits, away, id, name) ==
  [file |-> 1, prefix |-> IF name THEN 0 ELSE 1, hashed |-> ~ id /\ ~ name, phash |-> bits,
   apart |-> away, identity |-> id, named |-> name]
MCScene == [file |-> 0, prefix |-> 0, hashed |-> TRUE, phash |-> {2, 6}, apart |-> 0,
            identity |-> TRUE, named |-> TRUE]
MCPrints ==
  {Look({2, 3, 4, 5}, away, FALSE, FALSE) : away \in 0..1}
  \cup {Look({3, 6}, 0, FALSE, FALSE), Look({1, 3, 4}, 0, FALSE, FALSE),
        MCScene, Look({}, 2, TRUE, FALSE), Look({}, 2, FALSE, TRUE)}

Interchangeable == Permutations({one, other})

AccessInit ==
  /\ part \in Parts
  /\ LimiterInit /\ AccountsInit /\ ReportsInit /\ LookupInit
  /\ part # "limiter" => network = Placed(n1, n1)
  /\ part \notin {"removal", "fit"} => up /\ sameWork
  /\ IF part = "lookup"
     THEN print[2] \in {Look({2, 3, 4, 5}, 0, FALSE, FALSE), Look({}, 2, TRUE, FALSE)}
     ELSE print = [f \in Films |-> MCScene] /\ dark = {} /\ grouped
  /\ synced = IF grouped THEN {<<1, 2>>} ELSE {}

\* The second caller sends single requests, the first batches of any size too.
OneBatches == ~ request'[c2].batch

AccessNext ==
  /\ UNCHANGED part
  /\ \/ part = "limiter" /\ LimiterNext /\ OneBatches /\ UNCHANGED <<accountVars, reportsVars, lookupVars>>
     \/ part = "accounts" /\ AccountsNext /\ UNCHANGED <<limiterVars, reportsVars, lookupVars>>
     \/ part = "removal" /\ RemovalNext /\ UNCHANGED <<limiterVars, accountVars, lookupVars>>
     \/ part = "fit" /\ FitNext /\ UNCHANGED <<limiterVars, accountVars, lookupVars>>
     \/ /\ part \in {"removal", "fit"}
        /\ Moderate \/ \E p \in People : EraseReporter(p)
        /\ UNCHANGED <<limiterVars, accountVars, lookupVars>>
     \/ part = "lookup" /\ LookupNext /\ UNCHANGED <<limiterVars, accountVars, reportsVars>>

AccessSpec == AccessInit /\ [][AccessNext]_accessVars

\* The variables of every part have their types.
AccessTypeOK == LimiterTypeOK /\ AccountsTypeOK /\ ReportsTypeOK /\ LookupTypeOK

\* What the limiter promises a client: its requests are charged to its own
\* network whatever headers are sent, it is told a wait after which what it
\* waited for is there, and with its network to itself it gets through.
LimiterIsHonest == ChargedToCaller /\ RetryIsHonest /\ AloneGetsThrough

\* What a report may rely on: one decision for a removal request, and counts
\* that stand.
ReportsAreFair == OneDecision /\ FitAnswersStand

\* What a lookup owes: every near match that was there, and nothing taken down.
LookupsAreExact == NearMatchesAreFound /\ TakedownsAreObeyed
=============================================================================
