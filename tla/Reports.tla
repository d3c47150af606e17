------------------------------ MODULE Reports ------------------------------
(***************************************************************************)
(* What visitors and accounts report about a track: removal requests       *)
(* (store/removal.go, api/removal.go, the queue handlers of api/mod.go)    *)
(* and fit reports (store/fit.go, api/fit.go).                             *)
(*                                                                         *)
(* A moderator's "withdraw" reads the request, marks it handled and        *)
(* withdraws the track in three statements of their own; a fit report is   *)
(* validated first and then written and counted in a transaction that      *)
(* holds the track's row.  One track, two releases it can be reported      *)
(* against: its own and a sibling of the same work.                        *)
(***************************************************************************)
EXTENDS Integers, FiniteSets

CONSTANTS
  People,        \* the accounts
  Handlers,      \* the moderation requests being served at once
  MaxRequests,   \* bound: removal requests filed
  MaxTurns       \* bound: moderators' own withdrawals and restorations

ASSUME ReportsAssumption == IsFiniteSet(People) /\ MaxRequests \in Nat /\ MaxTurns \in Nat

VARIABLES
  present,       \* the accounts that exist
  up,            \* the track is not withdrawn
  sameWork,      \* the sibling is in the track's work
  turns,
  requests,      \* removal_requests
  taken,         \* ghost: how often each request's track was taken down for it
  handling,      \* the moderation requests
  reports,       \* track_release_fit_reports; an erased account's row is a ghost
  fitting        \* each account's fit request

reportsVars == <<present, up, sameWork, turns, requests, taken, handling, reports, fitting>>
removalVars == <<requests, taken, handling>>
fitVars == <<reports, fitting>>

-----------------------------------------------------------------------------
Pairings == {"own", "sibling"}
FitClaims == {"fits", "misfits"}
Numbers == 1..MaxRequests

\* A request's decision, and by whom: "nobody" also once that account is gone.
Decision == [action : {"open", "withdraw", "dismiss"}, by : People \cup {"nobody"}]

Open == [action |-> "open", by |-> "nobody"]
FreeHandler == [at |-> "free", request |-> 0, by |-> "nobody"]
NoFit == [at |-> "idle", pairing |-> "own", claim |-> "none", fits |-> 0, misfits |-> 0,
          saw |-> {}]

ReportsTypeOK ==
  /\ present \subseteq People /\ up \in BOOLEAN /\ sameWork \in BOOLEAN
  /\ turns \in 0..MaxTurns
  /\ DOMAIN requests \subseteq Numbers
  /\ \A n \in DOMAIN requests : requests[n] \in Decision
  /\ DOMAIN taken = DOMAIN requests /\ \A n \in DOMAIN taken : taken[n] \in Nat
  /\ handling \in [Handlers -> [at : {"free", "mark", "takedown"}, request : {0} \cup Numbers,
                                by : People \cup {"nobody"}]]
  /\ reports \in [Pairings -> [People -> FitClaims \cup {"none"}]]
  /\ fitting \in [People -> [at : {"idle", "write", "count", "commit"}, pairing : Pairings,
                             claim : FitClaims \cup {"none"}, fits : Nat, misfits : Nat,
                             saw : SUBSET People]]

-----------------------------------------------------------------------------
(* Removal requests.                                                       *)

\* An insert that only needs the track to be there, up or not.
CreateRemovalRequest ==
  LET n == Cardinality(DOMAIN requests) + 1 IN
  /\ n \in Numbers
  /\ requests' = [i \in 1..n |-> IF i = n THEN Open ELSE requests[i]]
  /\ taken' = [i \in 1..n |-> IF i = n THEN 0 ELSE taken[i]]
  /\ UNCHANGED <<present, up, sameWork, turns, handling, fitVars>>

\* "other" is explained in a note.
ValidRemovalRequest(reason, noted) == reason = "other" => noted

\* POST /release/{id}/removal: anyone may file one.
HandleReleaseRemoval(reason, noted) == ValidRemovalRequest(reason, noted) /\ CreateRemovalRequest

\* GetRemovalRequest, and the refusal of one that is handled.
WithdrawForRequest(h, n, p) ==
  /\ handling[h].at = "free" /\ n \in DOMAIN requests /\ p \in present
  /\ requests[n].action = "open"
  /\ handling' = [handling EXCEPT ![h] = [at |-> "mark", request |-> n, by |-> p]]
  /\ UNCHANGED <<present, up, sameWork, turns, requests, taken, fitVars>>

\* A mutant of the next: the statement does not ask that the request is unhandled.
MarkedHandled_again(n, p, action) ==
  /\ p \in present
  /\ requests' = [requests EXCEPT ![n] = [action |-> action, by |-> p]]

\* One conditional UPDATE: only an unhandled row, by an account that exists.
MarkedHandled(n, p, action) ==
  /\ requests[n].action = "open" /\ p \in present
  /\ requests' = [requests EXCEPT ![n] = [action |-> action, by |-> p]]

MarkRemovalRequestHandled(h) ==
  LET n == handling[h].request IN
  /\ handling[h].at = "mark"
  /\ MarkedHandled(n, handling[h].by, "withdraw")
  /\ handling' = [handling EXCEPT ![h].at = "takedown"]
  /\ UNCHANGED <<present, up, sameWork, turns, taken, fitVars>>

\* A request another moderator handled, a failed statement, or a crash: what
\* was marked stays marked.
HandlerStops(h) ==
  /\ handling[h].at \in {"mark", "takedown"}
  /\ handling' = [handling EXCEPT ![h] = FreeHandler]
  /\ UNCHANGED <<present, up, sameWork, turns, requests, taken, fitVars>>

TakeDown(h) ==
  /\ handling[h].at = "takedown"
  /\ up' = FALSE
  /\ taken' = [taken EXCEPT ![handling[h].request] = @ + 1]
  /\ handling' = [handling EXCEPT ![h] = FreeHandler]
  /\ UNCHANGED <<present, sameWork, turns, requests, fitVars>>

DismissRequest(n, p) ==
  /\ n \in DOMAIN requests /\ MarkedHandled(n, p, "dismiss")
  /\ UNCHANGED <<present, up, sameWork, turns, taken, handling, fitVars>>

\* A moderator's own withdrawal or restoration, and linking or unlinking.
Moderate ==
  /\ turns < MaxTurns /\ turns' = turns + 1
  /\ \/ up' \in BOOLEAN /\ UNCHANGED sameWork
     \/ sameWork' = ~ sameWork /\ UNCHANGED up
  /\ UNCHANGED <<present, removalVars, fitVars>>

-----------------------------------------------------------------------------
(* Fit reports.                                                            *)

FitLockHeld == \E p \in People : fitting[p].at \in {"count", "commit"}

\* The reports of a pairing as p's transaction reads them: its own is written.
ReadBy(p) == [reports[fitting[p].pairing] EXCEPT ![p] = fitting[p].claim]

Standing(p, claim, who) == Cardinality({q \in who : ReadBy(p)[q] = claim})

\* What may be reported on: the track's own release, or one of its work now.
FitPairing(pairing) == up /\ (pairing = "sibling" => sameWork)

FitRequest(p, pairing, claim) ==
  /\ fitting[p].at = "idle" /\ p \in present
  /\ fitting' = [fitting EXCEPT ![p] = [NoFit EXCEPT !.at = "write", !.pairing = pairing,
                                                     !.claim = claim]]
  /\ UNCHANGED <<present, up, sameWork, turns, removalVars, reports>>

CastFit(p, pairing, claim) == FitPairing(pairing) /\ FitRequest(p, pairing, claim)

\* A report can be taken back when the works have changed since: only the
\* track must be up.
RetractFit(p, pairing) == up /\ FitRequest(p, pairing, "none")

\* PUT and DELETE /api/v1/subtitles/{id}/fit.
HandleFitPut(p, pairing, fits) == CastFit(p, pairing, IF fits THEN "fits" ELSE "misfits")
HandleFitDelete(p, pairing) == RetractFit(p, pairing)

\* POST /release/{id}/fit: one form for the three, 1, -1 and 0.
HandleReleaseFit(p, pairing, value) ==
  IF value = 0 THEN RetractFit(p, pairing) ELSE CastFit(p, pairing, IF value = 1 THEN "fits" ELSE "misfits")

\* A mutant of the next: the track's row is not locked.
FitLockFree_never == TRUE

FitLockFree == ~ FitLockHeld

\* The track's row is locked and the report written.
UpsertFitReport(p) ==
  /\ fitting[p].at = "write" /\ FitLockFree
  /\ p \in present \/ fitting[p].claim = "none"
  /\ fitting' = [fitting EXCEPT ![p].at = "count"]
  /\ UNCHANGED <<present, up, sameWork, turns, removalVars, reports>>

RecomputeFitCounts(p) ==
  /\ fitting[p].at = "count"
  /\ fitting' = [fitting EXCEPT ![p].at = "commit",
                                ![p].fits = Standing(p, "fits", present),
                                ![p].misfits = Standing(p, "misfits", present),
                                ![p].saw = present]
  /\ UNCHANGED <<present, up, sameWork, turns, removalVars, reports>>

CommitFit(p) ==
  /\ fitting[p].at = "commit"
  /\ reports' = [reports EXCEPT ![fitting[p].pairing] = ReadBy(p)]
  /\ fitting' = [fitting EXCEPT ![p] = NoFit]
  /\ UNCHANGED <<present, up, sameWork, turns, removalVars>>

FitFails(p) ==
  /\ fitting[p].at \in {"write", "count", "commit"}
  /\ fitting' = [fitting EXCEPT ![p] = NoFit]
  /\ UNCHANGED <<present, up, sameWork, turns, removalVars, reports>>

-----------------------------------------------------------------------------
\* DeleteAccount: the account's reports go with it, without the track's lock,
\* and its name goes from the requests.  It waits for a row of its own that is
\* being written.
EraseReporter(p) ==
  LET own == fitting[p] IN
  /\ p \in present
  /\ own.at \in {"count", "commit"} =>
       own.claim = "none" /\ reports[own.pairing][p] = "none"
  /\ present' = present \ {p}
  /\ requests' = [n \in DOMAIN requests |->
                    IF requests[n].by = p THEN [requests[n] EXCEPT !.by = "nobody"]
                                          ELSE requests[n]]
  /\ UNCHANGED <<up, sameWork, turns, taken, handling, reports, fitting>>

-----------------------------------------------------------------------------
ReportsInit ==
  /\ present = People /\ up \in BOOLEAN /\ sameWork \in BOOLEAN /\ turns = 0
  /\ requests = << >> /\ taken = << >>
  /\ handling = [h \in Handlers |-> FreeHandler]
  /\ reports = [x \in Pairings |-> [p \in People |-> "none"]]
  /\ fitting = [p \in People |-> NoFit]

RemovalNext ==
  \/ \E reason \in {"copyright", "other"}, noted \in BOOLEAN : HandleReleaseRemoval(reason, noted)
  \/ \E n \in DOMAIN requests, p \in People :
       DismissRequest(n, p) \/ \E h \in Handlers : WithdrawForRequest(h, n, p)
  \/ \E h \in Handlers : MarkRemovalRequestHandled(h) \/ TakeDown(h) \/ HandlerStops(h)

FitNext ==
  \E p \in People :
    \/ \E x \in Pairings :
         \/ \E fits \in BOOLEAN : HandleFitPut(p, x, fits)
         \/ HandleFitDelete(p, x)
         \/ \E value \in {-1, 0, 1} : HandleReleaseFit(p, x, value)
    \/ UpsertFitReport(p) \/ RecomputeFitCounts(p) \/ CommitFit(p) \/ FitFails(p)

ReportsNext == RemovalNext \/ FitNext \/ Moderate \/ \E p \in People : EraseReporter(p)

ReportsSpec == ReportsInit /\ [][ReportsNext]_reportsVars

-----------------------------------------------------------------------------
(* Properties.                                                             *)

\* A removal request is decided once, however many moderators press a button
\* (MarkRemovalRequestHandled: "two moderators racing the same request cannot
\* overwrite each other"): a track is taken down for a request at most once,
\* only by the moderator whose decision stands, and never for a dismissed one.
OneDecision ==
  /\ \A n \in DOMAIN requests :
       taken[n] <= 1 /\ (taken[n] = 1 => requests[n].action = "withdraw")
  /\ \A h \in Handlers : handling[h].at = "takedown" =>
       LET n == handling[h].request IN
       /\ requests[n].action = "withdraw" /\ taken[n] = 0
       /\ requests[n].by \in {handling[h].by, "nobody"}

\* The counts a reporter is answered, from which the "sync verified" label is
\* made, are those of the reports that stand when the report is stored: a
\* report of another account cannot slip between (UpsertFitReport: "two
\* concurrent reports on one pairing would otherwise both count").  Only
\* accounts erased since the count are still in it.
FitAnswersStand ==
  \A p \in People : fitting[p].at = "commit" =>
    /\ fitting[p].fits = Standing(p, "fits", fitting[p].saw)
    /\ fitting[p].misfits = Standing(p, "misfits", fitting[p].saw)
=============================================================================
