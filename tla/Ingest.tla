-------------------------------- MODULE Ingest --------------------------------
(***************************************************************************)
(* POST /api/v1/subtitles: internal/api's ingest over the track store.     *)
(*                                                                         *)
(* A request takes several store calls, one action each, and everything    *)
(* else in the database may change between two of them: other requests, a  *)
(* moderator's takedowns and restores, a moderator's correction of a       *)
(* track's kind, the deletion of an account.  upload[c] is the request     *)
(* connection c serves: where it is and what it has read.  A request that  *)
(* is refused, answered or broken off is idle again.                       *)
(*                                                                         *)
(* The subtitle's text is its body, what parsing and rendering leave of    *)
(* the upload; whether the uploaded bytes carried a generator's marker is  *)
(* independent of it, since rendering drops the marker.                    *)
(***************************************************************************)
EXTENDS TrackStore

CONSTANTS
  Bodies,       \* rendered subtitle texts
  Kinds,        \* track kinds; the default one is "default"
  Authorships,  \* credit choices; "credited" shows the uploader's name, and
                \* the default one is "shared"
  NotStated,    \* a kind or an authorship a request leaves out
  Requests      \* the uploads clients send, see Request

Note == [kind : Kinds, authorship : Authorships, declared : BOOLEAN]

Request ==
  [account : Accounts, release : Releases, payload : Payloads,
   target : 0 .. MaxTracks, kind : Kinds \cup {NotStated},
   authorship : Authorships \cup {NotStated}, declares : BOOLEAN]

ASSUME IngestAssumption ==
  /\ Payloads = [body : Bodies, generated : BOOLEAN]
  /\ "default" \in Kinds /\ "shared" \in Authorships
  /\ "credited" \in Authorships => "uncredited" \in Authorships
  /\ NotStated \notin Kinds \cup Authorships
  /\ Requests \subseteq Request

VARIABLES
  notes,        \* the correctable columns of each track
  upload        \* the request each connection serves

ingestVars == <<lastId, tracks, releaseAt, clock, accounts, tx, notes, upload>>

Done == [at |-> "idle"]

Upload ==
       {Done}
  \cup [at : {"find", "create", "target", "head", "supersede"}, req : Requests]
  \cup [at : {"duplicate", "correctAuthorship"}, req : Requests, found : Nat]
  \cup [at : {"correctKind"}, req : {req \in Requests : req.kind # NotStated},
        found : Nat]

Goto(c, state) == upload' = [upload EXCEPT ![c] = state]

At(c, where) == upload[c].at = where

\* Mutant: what a request does not state is stored as not stated.
Annotate_unstated(req) ==
  LET note == [kind |-> req.kind, authorship |-> req.authorship,
               declared |-> req.declares]
  IN notes' = [t \in 1 .. lastId + 1 |-> IF t \in Ids THEN notes[t] ELSE note]

\* The note of a row just inserted for the request.
Annotate(req) ==
  LET note == [kind |-> IF req.kind = NotStated THEN "default" ELSE req.kind,
               authorship |-> IF req.authorship = NotStated
                                THEN "shared" ELSE req.authorship,
               declared |-> req.declares]
  IN notes' = [t \in 1 .. lastId + 1 |-> IF t \in Ids THEN notes[t] ELSE note]

Identical(release, body) ==
  {t \in Ids : tracks[t].release = release /\ tracks[t].payload.body = body}

\* Mutant: no check whose track it is.
OwnTrack_anyone(t, account) == TRUE

\* uploader_id = $n, in the duplicate check and in every correction's WHERE.
OwnTrack(t, account) == tracks[t].uploader = account

\* chainHead over TrackChain, which lists a chain by revision, then id.
ChainHead(root) ==
  {t \in Chain(root) :
     /\ IsHead(t)
     /\ \A u \in Chain(root) : IsHead(u) => t <= u}

IngestInit ==
  /\ Init
  /\ notes = [t \in {} |-> None]
  /\ upload = [c \in Conns |-> Done]

-----------------------------------------------------------------------------
\* The request is valid and its account exists; GetOrCreateRelease has found its release live.
Receive(c, req) ==
  /\ At(c, "idle")
  /\ tx[c] = Idle
  /\ req.account \in accounts
  /\ releaseAt[req.release] = None
  /\ Goto(c, [at |-> "find", req |-> req])
  /\ UNCHANGED <<vars, notes>>

\* FindIdenticalTrack: the first one, withdrawn or not.
FindIdenticalTrack(c) ==
  /\ At(c, "find")
  /\ LET req == upload[c].req
         same == Identical(req.release, req.payload.body)
     IN \/ \E t \in same :
             /\ \A u \in same : t <= u
             /\ Goto(c, [at |-> "duplicate", req |-> req, found |-> t])
        \/ /\ same = {}
           /\ Goto(c, [at |-> IF req.target = None THEN "create" ELSE "target",
                       req |-> req])
  /\ UNCHANGED <<vars, notes>>

CreateTrack(c) ==
  /\ At(c, "create")
  /\ LET req == upload[c].req IN
       /\ CreateSubtitleTrack(req.release, req.account, req.payload)
       /\ Annotate(req)
  /\ Goto(c, Done)

-----------------------------------------------------------------------------
(***************************************************************************)
(* duplicateTrackResponse: only a track's own uploader corrects it, and    *)
(* only what the request states; a declaration is added, never taken back. *)
(***************************************************************************)
AfterKind(upl) ==
  IF upl.req.authorship # NotStated \/ upl.req.declares
    THEN [at |-> "correctAuthorship", req |-> upl.req, found |-> upl.found]
    ELSE Done

AnswerDuplicate(c) ==
  /\ At(c, "duplicate")
  /\ LET upl == upload[c]
         mayCorrect == /\ Live(upl.found)
                       /\ OwnTrack(upl.found, upl.req.account)
         otherKind == upl.req.kind \notin {NotStated, notes[upl.found].kind}
     IN \/ /\ ~mayCorrect
           /\ Goto(c, Done)
        \/ /\ mayCorrect /\ otherKind
           /\ Goto(c, [at |-> "correctKind", req |-> upl.req,
                       found |-> upl.found])
        \/ /\ mayCorrect /\ ~otherKind
           /\ Goto(c, AfterKind(upl))
  /\ UNCHANGED <<vars, notes>>

UpdateSubtitleTrackKind(c) ==
  /\ At(c, "correctKind")
  /\ LET upl == upload[c] IN
       /\ ~TrackLocked(upl.found)
       /\ OwnTrack(upl.found, upl.req.account)
       /\ notes' = [notes EXCEPT ![upl.found].kind = upl.req.kind]
       /\ Goto(c, AfterKind(upl))
  /\ UNCHANGED vars

\* Mutant: the declaration written as this request has it.
UpdateSubtitleTrackAuthorship_overwrites(c) ==
  /\ At(c, "correctAuthorship")
  /\ LET upl == upload[c]
         note == notes[upl.found]
     IN /\ ~TrackLocked(upl.found)
        /\ OwnTrack(upl.found, upl.req.account)
        /\ notes' = [notes EXCEPT ![upl.found] =
             [kind |-> note.kind,
              authorship |-> IF upl.req.authorship = NotStated
                               THEN note.authorship ELSE upl.req.authorship,
              declared |-> upl.req.declares]]
  /\ Goto(c, Done)
  /\ UNCHANGED vars

\* Mutant: the uploader, checked when the track was read, is not asked again.
UpdateSubtitleTrackAuthorship_checkedBefore(c) ==
  /\ At(c, "correctAuthorship")
  /\ LET upl == upload[c]
         note == notes[upl.found]
     IN /\ ~TrackLocked(upl.found)
        /\ notes' = [notes EXCEPT ![upl.found] =
             [kind |-> note.kind,
              authorship |-> IF upl.req.authorship = NotStated
                               THEN note.authorship ELSE upl.req.authorship,
              declared |-> note.declared \/ upl.req.declares]]
  /\ Goto(c, Done)
  /\ UNCHANGED vars

\* One statement: COALESCE keeps an authorship not stated, OR a declaration.
UpdateSubtitleTrackAuthorship(c) ==
  /\ At(c, "correctAuthorship")
  /\ LET upl == upload[c]
         note == notes[upl.found]
     IN /\ ~TrackLocked(upl.found)
        /\ OwnTrack(upl.found, upl.req.account)
        /\ notes' = [notes EXCEPT ![upl.found] =
             [kind |-> note.kind,
              authorship |-> IF upl.req.authorship = NotStated
                               THEN note.authorship ELSE upl.req.authorship,
              declared |-> note.declared \/ upl.req.declares]]
  /\ Goto(c, Done)
  /\ UNCHANGED vars

-----------------------------------------------------------------------------
(***************************************************************************)
(* ingestSupersede: the target as read, then its chain's head, then either *)
(* the measured divergence declines the revision (the upload becomes a new *)
(* track) or SupersedeTrack runs.                                          *)
(***************************************************************************)
CheckTarget(c) ==
  /\ At(c, "target")
  /\ LET upl == upload[c]
         target == upl.req.target
     IN /\ target \in Ids
        /\ tracks[target].release = upl.req.release
        /\ Live(target)
        /\ Goto(c, [at |-> "head", req |-> upl.req])
  /\ UNCHANGED <<vars, notes>>

\* Mutant: a machine's transcript may replace anyone's track.
CheckHead_anyMaker(c) ==
  /\ At(c, "head")
  /\ LET upl == upload[c]
         target == upl.req.target
     IN /\ target \in ChainHead(tracks[target].root)
        /\ \E next \in {"create", "supersede"} :
             Goto(c, [at |-> next, req |-> upl.req])
  /\ UNCHANGED <<vars, notes>>

CheckHead(c) ==
  /\ At(c, "head")
  /\ LET upl == upload[c]
         target == upl.req.target
     IN /\ target \in ChainHead(tracks[target].root)
        /\ upl.req.payload.generated => tracks[target].payload.generated
        /\ \E next \in {"create", "supersede"} :
             Goto(c, [at |-> next, req |-> upl.req])
  /\ UNCHANGED <<vars, notes>>

SupersedeTrack(c) ==
  /\ At(c, "supersede")
  /\ LET req == upload[c].req
     IN SupersedeBegin(c, req.target, req.account, req.payload)
  /\ UNCHANGED <<notes, upload>>

CommitRevision(c) ==
  /\ At(c, "supersede")
  /\ SupersedeCommit(c)
  /\ Annotate(upload[c].req)
  /\ Goto(c, Done)

\* A refusal (of the target, of SupersedeTrack, of the index), an error or a
\* client that went away: the transaction, if one is open, is rolled back.
BreakOff(c) ==
  /\ ~At(c, "idle")
  /\ \/ tx[c] = Idle /\ UNCHANGED vars
     \/ Rollback(c)
  /\ Goto(c, Done)
  /\ UNCHANGED notes

-----------------------------------------------------------------------------
\* /mod/track/{id}/kind: the moderator's correction asks for no uploader.
UpdateSubtitleTrackKindAsModerator(t, kind) ==
  /\ t \in Ids
  /\ ~TrackLocked(t)
  /\ notes' = [notes EXCEPT ![t].kind = kind]
  /\ UNCHANGED <<vars, upload>>

\* The UPDATE of DeleteAccount takes the credits with the uploader's id:
\* "credited" becomes "uncredited".
DeleteAccountWithCredits(a) ==
  /\ DeleteAccount(a)
  /\ notes' = [t \in Ids |->
                 IF t \in Uploads(a) /\ notes[t].authorship = "credited"
                   THEN [notes[t] EXCEPT !.authorship = "uncredited"]
                   ELSE notes[t]]
  /\ UNCHANGED upload

\* Moderators, on connections that serve no upload, and account deletions.
Moderate ==
  \/ \E t \in Ids : WithdrawTrack(t) /\ UNCHANGED <<notes, upload>>
  \/ \E t \in Ids : RestoreTrack(t) /\ UNCHANGED <<notes, upload>>
  \/ \E t \in Ids, kind \in Kinds : UpdateSubtitleTrackKindAsModerator(t, kind)
  \/ \E a \in Accounts : DeleteAccountWithCredits(a)
  \/ \E c \in Conns : /\ At(c, "idle")
                      /\ Takedown(c) \/ Rollback(c)
                      /\ UNCHANGED <<notes, upload>>

Serve(c) ==
  \/ \E req \in Requests : Receive(c, req)
  \/ FindIdenticalTrack(c)
  \/ CreateTrack(c)
  \/ AnswerDuplicate(c)
  \/ UpdateSubtitleTrackKind(c)
  \/ UpdateSubtitleTrackAuthorship(c)
  \/ CheckTarget(c)
  \/ CheckHead(c)
  \/ SupersedeTrack(c)
  \/ CommitRevision(c)
  \/ BreakOff(c)

IngestNext == Moderate \/ \E c \in Conns : Serve(c)

IngestSpec == IngestInit /\ [][IngestNext]_ingestVars

-----------------------------------------------------------------------------
\* The module's type invariant.
IngestTypeOK ==
  /\ notes \in [Ids -> Note]
  /\ upload \in [Conns -> Upload]

\* API.md: a machine-generated upload never replaces a human-made track, in
\* any chain, whatever happened between the handler's check and the insert.
MachineNeverReplacesHuman ==
  \A t \in Ids :
    /\ tracks[t].supersedes # None
    /\ tracks[t].payload.generated
    => tracks[tracks[t].supersedes].payload.generated

\* duplicateTrackResponse's comment: a declaration of generated content is
\* "never cleared", by no interleaving of re-uploads that read it earlier.
DeclarationsStay ==
  [][\A t \in Ids : notes[t].declared => notes'[t].declared]_ingestVars

\* Authorship and the declaration of a stored track change only in a request
\* of the account that uploaded it, for the text it uploaded; but for the
\* credit that goes with the deletion of that account.
OnlyUploaderCorrectsAuthorship ==
  [][\A t \in Ids :
       \/ /\ notes'[t].authorship = notes[t].authorship
          /\ notes'[t].declared = notes[t].declared
       \/ \E c \in Conns :
            /\ ~At(c, "idle")
            /\ upload[c].req.account = tracks[t].uploader
            /\ upload[c].req.payload.body = tracks[t].payload.body
       \/ /\ tracks[t].uploader \in accounts \ accounts'
          /\ notes[t].authorship = "credited"
          /\ notes'[t] = [notes[t] EXCEPT !.authorship = "uncredited"]
     ]_ingestVars

\* API.md, POST /me/delete: "no surface credits them any more".  A track that
\* is credited has an account to credit, also when its uploader's request was
\* past the uploader check when the account went.
CreditNamesAnAccount ==
  \A t \in Ids :
    notes[t].authorship = "credited" => tracks[t].uploader \in accounts

-----------------------------------------------------------------------------
\* MANUAL.md: an identical upload "returns the existing track ... instead of
\* inserting.  Bulk pushes are therefore safe to re-run" (see the README's
\* findings: two uploads at once are not).
IdenticalTrackStoredOnce ==
  \A t, u \in Ids :
    /\ tracks[t].release = tracks[u].release
    /\ tracks[t].payload.body = tracks[u].payload.body
    => t = u
=============================================================================
