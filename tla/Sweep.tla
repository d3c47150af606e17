------------------------------- MODULE Sweep -------------------------------
(* `moansubs stashbox backfill`: the operator asks one stash-box about every
   release that has no id from it, release by release, and can be stopped or
   die at any step (cmd/moansubs/stashbox.go, internal/store/stashbox_sweep.go,
   internal/stashbox/client.go).  Meanwhile moderators withdraw releases and
   remove ids, and uploads bring ids of their own. *)
EXTENDS Naturals, FiniteSets

CONSTANTS Releases,       \* the releases, by id
          Hashed,         \* those that have a phash as well
          Dated,          \* those that have a title and a date
          SweepOptions,   \* [skip, dry, proposes]: the command lines tried
          Touched,        \* bound: the releases moderators and uploads change
          MaxRetries,     \* backfillOptions.maxRetries
          MaxSweeps       \* bound: how often the command is run

ASSUME SweepConstants == /\ Releases \subseteq Nat /\ IsFiniteSet(Releases)
                         /\ Hashed \subseteq Releases /\ Dated \subseteq Releases /\ Touched \subseteq Releases
                         /\ SweepOptions \subseteq [skip : SUBSET Releases, dry : BOOLEAN, proposes : BOOLEAN]
                         /\ MaxRetries \in Nat /\ MaxSweeps \in Nat

VARIABLES
  withdrawn,   \* releases.withdrawn_at
  identified,  \* releases with an id of this endpoint (release_stash_ids)
  suggested,   \* releases with a proposal of the sweep's account
  lookup,      \* release_stashbox_lookups.outcome, "never" without a row
  sweep,       \* the running command
  sweeps,
  unlinked     \* releases a moderator has removed the endpoint's id from

sweepVars == <<withdrawn, identified, suggested, lookup, sweep, sweeps, unlinked>>

Outcomes == {"fingerprint", "proposed", "none", "error", "skipped"}
NoSweep == [at |-> "off", left |-> {}, opts |-> [skip |-> {}, dry |-> FALSE, proposes |-> FALSE],
            retries |-> 0, outcome |-> "none"]

SweepInit ==
  /\ withdrawn = {} /\ identified = {} /\ suggested = {} /\ unlinked = {}
  /\ lookup = [r \in Releases |-> "never"]
  /\ sweep = NoSweep /\ sweeps = 0

tables == <<withdrawn, identified, suggested, lookup>>

\* StashBoxSweepCandidates: an earlier error is asked again, a miss is not.
StashBoxSweepCandidates ==
  {r \in Releases : r \notin withdrawn /\ r \notin identified /\ lookup[r] \in {"never", "error"}}

Candidate == CHOOSE r \in sweep.left : \A q \in sweep.left : r <= q

Goto(at) == sweep' = [sweep EXCEPT !.at = at]
\* backfillOne returned: the retries start over.
Found(outcome) == sweep' = [sweep EXCEPT !.at = "record", !.outcome = outcome, !.retries = 0]

\* runBackfill, up to the candidates; --limit cuts the list.
RunBackfill(opts) ==
  /\ sweep.at = "off" /\ sweeps < MaxSweeps
  /\ sweeps' = sweeps + 1
  /\ \E n \in 1..Cardinality(Releases) :
       sweep' = [NoSweep EXCEPT !.at = "next", !.opts = opts,
                                !.left = {r \in StashBoxSweepCandidates :
                                            Cardinality({q \in StashBoxSweepCandidates : q < r}) < n}]
  /\ UNCHANGED <<tables, unlinked>>

\* The head of the loop: the end, a release to skip, or the next question.
NextCandidate ==
  /\ sweep.at = "next"
  /\ IF sweep.left = {} THEN sweep' = NoSweep
     ELSE IF Candidate \in sweep.opts.skip THEN Found("skipped")
     ELSE Goto("oshash")
  /\ UNCHANGED <<tables, sweeps, unlinked>>

\* What the box's answer comes to (client.do): scenes, none of them, a 429, a
\* 401, and everything else - a redirect, another status, a GraphQL error.
Answers == {"scene", "nothing", "limited", "unauthorized", "failed"}

\* Mutant: a release that was rate limited is asked again for ever.
Misfortune_patient(answer) ==
  \/ answer = "unauthorized" /\ sweep' = NoSweep
  \/ answer = "limited" /\ Goto("next")
  \/ answer = "failed" /\ Found("error")

Misfortune(answer) ==
  \/ answer = "unauthorized" /\ sweep' = NoSweep
  \/ /\ answer = "limited"
     /\ sweep' = IF sweep.retries + 1 > MaxRetries THEN NoSweep
                 ELSE [sweep EXCEPT !.at = "next", !.retries = @ + 1]
  \/ answer = "failed" /\ Found("error")

\* findByFingerprint, one query: the oshash, then the phash if there is one.
FindByFingerprint(answer) ==
  /\ sweep.at \in {"oshash", "phash"}
  /\ \/ Misfortune(answer)
     \/ /\ answer = "scene"
        /\ IF sweep.opts.dry THEN Found("fingerprint") ELSE Goto("attach")
     \/ /\ answer = "nothing"
        /\ IF sweep.at = "oshash" /\ Candidate \in Hashed THEN Goto("phash")
           ELSE IF sweep.opts.proposes /\ Candidate \in Dated THEN Goto("name")
           ELSE Found("none")
  /\ UNCHANGED <<tables, sweeps, unlinked>>

\* SearchScene by the title, taking a scene of the same date.
SearchScene(answer) ==
  /\ sweep.at = "name"
  /\ \/ Misfortune(answer)
     \/ /\ answer = "scene"
        /\ IF sweep.opts.dry THEN Found("proposed")
           ELSE sweep' = [sweep EXCEPT !.at = "propose", !.outcome = "proposed"]
     \/ answer = "nothing" /\ Found("none")
  /\ UNCHANGED <<tables, sweeps, unlinked>>

\* Mutant: the match is recorded whether or not its id could be attached.
AddReleaseStashIDs_unchecked(ok) ==
  /\ sweep.at = "attach"
  /\ identified' = IF ok THEN identified \cup {Candidate} ELSE identified
  /\ IF sweep.opts.proposes THEN sweep' = [sweep EXCEPT !.at = "propose", !.outcome = "fingerprint"]
     ELSE Found("fingerprint")
  /\ UNCHANGED <<withdrawn, suggested, lookup, sweeps, unlinked>>

\* AddReleaseStashIDs, then the proposal when there is an account for it.
AddReleaseStashIDs(ok) ==
  /\ sweep.at = "attach"
  /\ identified' = IF ok THEN identified \cup {Candidate} ELSE identified
  /\ IF ~ok THEN Found("error")
     ELSE IF sweep.opts.proposes THEN sweep' = [sweep EXCEPT !.at = "propose", !.outcome = "fingerprint"]
     ELSE Found("fingerprint")
  /\ UNCHANGED <<withdrawn, suggested, lookup, sweeps, unlinked>>

\* propose: RecordProposal, then the derivation and the auto-confirm, which may
\* fail once the proposal is on file.
ProposeScene(ok) ==
  /\ sweep.at = "propose"
  /\ \/ ok /\ suggested' = suggested \cup {Candidate} /\ Found(sweep.outcome)
     \/ ~ok /\ suggested' \in {suggested, suggested \cup {Candidate}} /\ Found("error")
  /\ UNCHANGED <<withdrawn, identified, lookup, sweeps, unlinked>>

\* RecordStashBoxLookup, not on a dry run; a failure ends the sweep.
RecordStashBoxLookup(ok) ==
  /\ sweep.at = "record"
  /\ ok \/ ~sweep.opts.dry
  /\ lookup' = IF ok /\ ~sweep.opts.dry THEN [lookup EXCEPT ![Candidate] = sweep.outcome] ELSE lookup
  /\ sweep' = IF ok THEN [sweep EXCEPT !.at = "next", !.left = @ \ {Candidate}] ELSE NoSweep
  /\ UNCHANGED <<withdrawn, identified, suggested, sweeps, unlinked>>

\* The operator interrupts the command, or it dies.
StopSweep ==
  /\ sweep.at # "off"
  /\ sweep' = NoSweep
  /\ UNCHANGED <<tables, sweeps, unlinked>>

(* ---- everyone else ---- *)

\* RemoveReleaseStashID, the remedy for a wrong id.
RemoveReleaseStashID(r) ==
  /\ r \in identified
  /\ identified' = identified \ {r} /\ unlinked' = unlinked \cup {r}
  /\ UNCHANGED <<withdrawn, suggested, lookup, sweep, sweeps>>

\* An upload brings the release's id.
UploadStashID(r) ==
  /\ r \notin identified /\ r \notin withdrawn
  /\ identified' = identified \cup {r}
  /\ UNCHANGED <<withdrawn, suggested, lookup, sweep, sweeps, unlinked>>

SetWithdrawn(r) ==
  /\ withdrawn' = IF r \in withdrawn THEN withdrawn \ {r} ELSE withdrawn \cup {r}
  /\ UNCHANGED <<identified, suggested, lookup, sweep, sweeps, unlinked>>

SweepStep ==
  \/ NextCandidate
  \/ \E answer \in Answers : FindByFingerprint(answer) \/ SearchScene(answer)
  \/ \E ok \in BOOLEAN : AddReleaseStashIDs(ok) \/ ProposeScene(ok) \/ RecordStashBoxLookup(ok)

SweepNext ==
  \/ \E opts \in SweepOptions : RunBackfill(opts)
  \/ SweepStep \/ StopSweep
  \/ \E r \in Touched : RemoveReleaseStashID(r) \/ UploadStashID(r) \/ SetWithdrawn(r)

SweepSpec == SweepInit /\ [][SweepNext]_sweepVars

(* ---- properties ---- *)

SweepTypeOK ==
  /\ withdrawn \subseteq Releases /\ identified \subseteq Releases
  /\ suggested \subseteq Releases /\ unlinked \subseteq Releases
  /\ lookup \in [Releases -> Outcomes \cup {"never"}]
  /\ sweep.at \in {"off", "next", "oshash", "phash", "name", "attach", "propose", "record"}
  /\ sweep.left \subseteq Releases /\ sweep.retries \in 0..MaxRetries
  /\ sweep.outcome \in Outcomes
  /\ sweep.at \notin {"off", "next"} => sweep.left # {}
  /\ sweeps \in 0..MaxSweeps

\* A recorded match is a match that was kept: whatever step a sweep was
\* interrupted or failed at, a lookup filed as a fingerprint hit, which no later
\* sweep repeats, has its id on the release unless a moderator took it off, and
\* one filed as proposed has its proposal (stashbox.go runBackfill,
\* backfillOne).
MatchesAreKept ==
  \A r \in Releases :
    /\ lookup[r] = "fingerprint" => r \in identified \cup unlinked
    /\ lookup[r] = "proposed" => r \in suggested
=============================================================================
