----------------------------- MODULE IngestProofs -----------------------------
(***************************************************************************)
(* Theorems about Ingest, for every number of requests, accounts and rows: *)
(* what an interleaving of uploads, corrections, moderators and account    *)
(* deletions may do to the tracks stored.                                  *)
(***************************************************************************)
EXTENDS Ingest, TrackStoreProofs

\* What the assumptions say of a request the handler is given.
LEMMA RequestFields ==
  ASSUME NEW req \in Requests
  PROVE  /\ req.account \in Accounts /\ req.release \in Releases
         /\ req.payload \in Payloads /\ req.target \in 0 .. MaxTracks
         /\ req.kind \in Kinds \cup {NotStated}
         /\ req.authorship \in Authorships \cup {NotStated}
         /\ req.declares \in BOOLEAN
  BY IngestAssumption DEF Request

\* Where the type of a request's state puts its fields.
LEMMA UploadFields ==
  ASSUME IngestTypeOK, NEW c \in Conns, upload[c].at # "idle"
  PROVE  /\ upload[c].req \in Requests
         /\ upload[c].at \in {"duplicate", "correctKind", "correctAuthorship"}
              => upload[c].found \in Nat
         /\ upload[c].at = "correctKind" => upload[c].req.kind # NotStated
  <1>1. upload[c] \in Upload
    BY DEF IngestTypeOK
  <1>2. QED
    BY <1>1 DEF Upload, Done

(***************************************************************************)
(* Every step of the handler is a step of the store, or leaves the store   *)
(* alone, so the store's invariants hold here.                             *)
(***************************************************************************)
LEMMA StoreStep ==
  ASSUME IngestTypeOK, [IngestNext]_ingestVars
  PROVE  [Next]_vars
  <1>1. ASSUME NEW c \in Conns, CreateTrack(c)
        PROVE  Next
    <2>1. upload[c].req \in Requests
      BY <1>1, UploadFields DEF CreateTrack, At
    <2>2. upload[c].req.release \in Releases /\ upload[c].req.account \in Accounts
          /\ upload[c].req.payload \in Payloads
      BY <2>1, RequestFields
    <2>3. CreateSubtitleTrack(upload[c].req.release, upload[c].req.account,
                              upload[c].req.payload)
      BY <1>1 DEF CreateTrack
    <2>4. QED
      BY <2>2, <2>3 DEF Next, Statement
  <1>2. ASSUME NEW c \in Conns, SupersedeTrack(c)
        PROVE  Next
    <2>1. upload[c].req \in Requests
      BY <1>2, UploadFields DEF SupersedeTrack, At
    <2>2. upload[c].req.account \in Accounts /\ upload[c].req.payload \in Payloads
      BY <2>1, RequestFields
    <2>3. SupersedeBegin(c, upload[c].req.target, upload[c].req.account,
                         upload[c].req.payload)
      BY <1>2 DEF SupersedeTrack
    <2>4. upload[c].req.target \in Ids
      BY <2>3 DEF SupersedeBegin
    <2>5. QED
      BY <2>2, <2>3, <2>4 DEF Next, Supersede
  <1>3. ASSUME NEW c \in Conns, CommitRevision(c)
        PROVE  Next
    BY <1>3 DEF CommitRevision, Next, Supersede
  <1>4. ASSUME NEW c \in Conns, BreakOff(c)
        PROVE  [Next]_vars
    BY <1>4 DEF BreakOff, Next
  <1>5. ASSUME Moderate
        PROVE  [Next]_vars
    BY <1>5 DEF Moderate, UpdateSubtitleTrackKindAsModerator,
                DeleteAccountWithCredits, Next, Statement
  <1>6. ASSUME NEW c \in Conns,
               \/ \E req \in Requests : Receive(c, req)
               \/ FindIdenticalTrack(c)
               \/ AnswerDuplicate(c)
               \/ UpdateSubtitleTrackKind(c)
               \/ UpdateSubtitleTrackAuthorship(c)
               \/ CheckTarget(c)
               \/ CheckHead(c)
        PROVE  UNCHANGED vars
    BY <1>6 DEF Receive, FindIdenticalTrack, AnswerDuplicate,
                UpdateSubtitleTrackKind, UpdateSubtitleTrackAuthorship,
                CheckTarget, CheckHead
  <1>7. CASE UNCHANGED ingestVars
    BY <1>7 DEF ingestVars, vars
  <1>8. QED
    BY <1>1, <1>2, <1>3, <1>4, <1>5, <1>6, <1>7 DEF IngestNext, Serve

(***************************************************************************)
(* Type correctness.                                                       *)
(***************************************************************************)
LEMMA AnnotateType ==
  ASSUME TypeOK, notes \in [Ids -> Note], NEW req \in Requests, Annotate(req),
         lastId' = lastId + 1
  PROVE  notes' \in [Ids' -> Note]
  <1> DEFINE note == [kind |-> IF req.kind = NotStated THEN "default" ELSE req.kind,
                      authorship |-> IF req.authorship = NotStated
                                       THEN "shared" ELSE req.authorship,
                      declared |-> req.declares]
  <1>1. note \in Note
    BY RequestFields, IngestAssumption DEF Note
  <1>2. notes' = [t \in 1 .. lastId + 1 |-> IF t \in Ids THEN notes[t] ELSE note]
    BY DEF Annotate
  <1> HIDE DEF note
  <1>3. QED
    BY <1>1, <1>2 DEF Ids

LEMMA GotoType ==
  ASSUME upload \in [Conns -> Upload], NEW c \in Conns, NEW state \in Upload,
         Goto(c, state)
  PROVE  upload' \in [Conns -> Upload]
  BY DEF Goto

\* The states a request moves through.
LEMMA UploadStates ==
  /\ Done \in Upload
  /\ \A req \in Requests, where \in {"find", "create", "target", "head", "supersede"} :
       [at |-> where, req |-> req] \in Upload
  /\ \A req \in Requests, t \in Nat,
        where \in {"duplicate", "correctKind", "correctAuthorship"} :
       (where = "correctKind" => req.kind # NotStated)
         => [at |-> where, req |-> req, found |-> t] \in Upload
  BY DEF Upload

\* A step that neither inserts nor annotates, and moves no request.
LEMMA SameNotes ==
  ASSUME IngestTypeOK, UNCHANGED <<lastId, notes>>,
         upload' \in [Conns -> Upload]
  PROVE  IngestTypeOK'
  BY DEF IngestTypeOK, Ids

LEMMA IngestTypeStep ==
  ASSUME TypeOK, IngestTypeOK, [IngestNext]_ingestVars
  PROVE  IngestTypeOK'
  <1>1. upload \in [Conns -> Upload] /\ notes \in [Ids -> Note]
    BY DEF IngestTypeOK
  <1>2. ASSUME NEW c \in Conns, NEW req \in Requests, Receive(c, req)
        PROVE  IngestTypeOK'
    BY <1>1, <1>2, UploadStates, GotoType, SameNotes DEF Receive, vars
  <1>3. ASSUME NEW c \in Conns, FindIdenticalTrack(c)
        PROVE  IngestTypeOK'
    <2>1. upload[c].req \in Requests
      BY <1>3, UploadFields DEF FindIdenticalTrack, At
    <2>2. \A t \in Identical(upload[c].req.release, upload[c].req.payload.body) :
            t \in Nat
      BY DEF Identical, Ids
    <2>3. \E state \in Upload : Goto(c, state)
      BY <1>3, <2>1, <2>2, UploadStates DEF FindIdenticalTrack
    <2>4. QED
      BY <1>1, <1>3, <2>3, GotoType, SameNotes DEF FindIdenticalTrack, vars
  <1>4. ASSUME NEW c \in Conns, CreateTrack(c)
        PROVE  IngestTypeOK'
    <2>1. upload[c].req \in Requests
      BY <1>4, UploadFields DEF CreateTrack, At
    <2>2. lastId' = lastId + 1
      BY <1>4 DEF CreateTrack, CreateSubtitleTrack, Insert
    <2>3. notes' \in [Ids' -> Note]
      BY <1>1, <1>4, <2>1, <2>2, AnnotateType DEF CreateTrack
    <2>4. QED
      BY <1>1, <1>4, <2>3, UploadStates, GotoType DEF CreateTrack, IngestTypeOK
  <1>5. ASSUME NEW c \in Conns, upload[c].at \in {"duplicate", "correctKind"}
        PROVE  AfterKind(upload[c]) \in Upload
    BY <1>5, UploadFields, UploadStates DEF AfterKind
  <1>6. ASSUME NEW c \in Conns, AnswerDuplicate(c)
        PROVE  IngestTypeOK'
    <2>1. upload[c].at = "duplicate"
      BY <1>6 DEF AnswerDuplicate, At
    <2>2. /\ AfterKind(upload[c]) \in Upload
          /\ upload[c].req \in Requests /\ upload[c].found \in Nat
      BY <1>5, <2>1, UploadFields
    <2>3. \E state \in Upload : Goto(c, state)
      BY <1>6, <2>2, UploadStates DEF AnswerDuplicate
    <2>4. QED
      BY <1>1, <1>6, <2>3, GotoType, SameNotes DEF AnswerDuplicate, vars
  <1>7. ASSUME NEW c \in Conns, UpdateSubtitleTrackKind(c)
        PROVE  IngestTypeOK'
    <2>1. upload[c].at = "correctKind"
      BY <1>7 DEF UpdateSubtitleTrackKind, At
    <2>2. AfterKind(upload[c]) \in Upload
      BY <1>5, <2>1
    <2>3. upload' \in [Conns -> Upload]
      BY <1>1, <1>7, <2>2, GotoType DEF UpdateSubtitleTrackKind
    <2>4. Ids' = Ids
      BY <1>7 DEF UpdateSubtitleTrackKind, vars, Ids
    <2>5. upload[c].req.kind \in Kinds
      BY <1>7, <2>1, UploadFields, RequestFields DEF UpdateSubtitleTrackKind
    <2>6. QED
      BY <1>1, <1>7, <2>3, <2>4, <2>5
      DEF UpdateSubtitleTrackKind, IngestTypeOK, Note
  <1>8. ASSUME NEW c \in Conns, UpdateSubtitleTrackAuthorship(c)
        PROVE  IngestTypeOK'
    <2>1. upload[c].at = "correctAuthorship"
      BY <1>8 DEF UpdateSubtitleTrackAuthorship, At
    <2>2. upload[c].req \in Requests
      BY <2>1, UploadFields
    <2>3. Ids' = Ids
      BY <1>8 DEF UpdateSubtitleTrackAuthorship, vars, Ids
    <2>4. upload' \in [Conns -> Upload]
      BY <1>1, <1>8, UploadStates, GotoType DEF UpdateSubtitleTrackAuthorship
    <2>5. notes' \in [Ids -> Note]
      <3> DEFINE upl == upload[c]
                 note == notes[upl.found]
                 declared == note.declared \/ upl.req.declares
                 corrected == [kind |-> note.kind,
                               authorship |-> IF upl.req.authorship = NotStated
                                                THEN note.authorship
                                                ELSE upl.req.authorship,
                               declared |-> declared]
      <3>1. notes' = [notes EXCEPT ![upl.found] = corrected]
        BY <1>8 DEF UpdateSubtitleTrackAuthorship
      <3>2. ASSUME note \in Note
            PROVE  corrected \in Note
        <4>1. upl.req.authorship \in Authorships \cup {NotStated}
          BY <2>2, RequestFields
        <4>2. declared \in BOOLEAN
          OBVIOUS
        <4> HIDE DEF declared
        <4>3. QED
          BY <3>2, <4>1, <4>2 DEF Note
      <3> HIDE DEF corrected
      <3>3. QED
        BY <1>1, <3>1, <3>2
    <2>6. QED
      BY <2>3, <2>4, <2>5 DEF IngestTypeOK
  <1>9. ASSUME NEW c \in Conns, CheckTarget(c) \/ CheckHead(c)
        PROVE  IngestTypeOK'
    <2>1. upload[c].at \in {"target", "head"}
      BY <1>9 DEF CheckTarget, CheckHead, At
    <2>2. upload[c].req \in Requests
      BY <2>1, UploadFields
    <2>3. \E state \in Upload : Goto(c, state)
      BY <1>9, <2>2, UploadStates DEF CheckTarget, CheckHead
    <2>4. QED
      BY <1>1, <1>9, <2>3, GotoType, SameNotes DEF CheckTarget, CheckHead, vars
  <1>10. ASSUME NEW c \in Conns, SupersedeTrack(c)
         PROVE  IngestTypeOK'
    BY <1>1, <1>10, SameNotes DEF SupersedeTrack, SupersedeBegin
  <1>11. ASSUME NEW c \in Conns, CommitRevision(c)
         PROVE  IngestTypeOK'
    <2>1. upload[c].req \in Requests
      BY <1>11, UploadFields DEF CommitRevision, At
    <2>2. lastId' = lastId + 1
      BY <1>11 DEF CommitRevision, SupersedeCommit, Insert
    <2>3. notes' \in [Ids' -> Note]
      BY <1>1, <1>11, <2>1, <2>2, AnnotateType DEF CommitRevision
    <2>4. QED
      BY <1>1, <1>11, <2>3, UploadStates, GotoType
      DEF CommitRevision, IngestTypeOK
  <1>12. ASSUME NEW c \in Conns, BreakOff(c)
         PROVE  IngestTypeOK'
    BY <1>1, <1>12, UploadStates, GotoType, SameNotes
    DEF BreakOff, Rollback, vars
  <1>13. ASSUME NEW t \in Ids, NEW kind \in Kinds,
                UpdateSubtitleTrackKindAsModerator(t, kind)
         PROVE  IngestTypeOK'
    BY <1>1, <1>13
    DEF UpdateSubtitleTrackKindAsModerator, IngestTypeOK, vars, Ids, Note
  <1>14. ASSUME NEW t \in Ids, WithdrawTrack(t) \/ RestoreTrack(t),
                UNCHANGED <<notes, upload>>
         PROVE  IngestTypeOK'
    BY <1>1, <1>14, SameNotes DEF WithdrawTrack, RestoreTrack
  <1>15. ASSUME NEW c \in Conns, Takedown(c) \/ Rollback(c),
                UNCHANGED <<notes, upload>>
         PROVE  IngestTypeOK'
    <2>1. lastId' = lastId
      BY <1>15 DEF Takedown, Rollback, WithdrawReleaseBegin,
                   WithdrawReleaseCommit, WithdrawTracksByUploaderBegin,
                   WithdrawTracksByUploaderCommit, RestoreReleaseBegin,
                   RestoreReleaseCommit
    <2>2. QED
      BY <1>1, <1>15, <2>1, SameNotes
  <1>16. CASE UNCHANGED ingestVars
    BY <1>1, <1>16, SameNotes DEF ingestVars
  <1>17. ASSUME NEW a \in Accounts, DeleteAccountWithCredits(a)
         PROVE  IngestTypeOK'
    <2>1. upload' = upload /\ Ids' = Ids
      BY <1>17 DEF DeleteAccountWithCredits, DeleteAccount, Ids
    <2>2. ASSUME NEW t \in Ids, notes[t].authorship = "credited"
          PROVE  [notes[t] EXCEPT !.authorship = "uncredited"] \in Note
      BY <1>1, <2>2, IngestAssumption DEF Note
    <2>3. notes' \in [Ids -> Note]
      BY <1>1, <1>17, <2>2 DEF DeleteAccountWithCredits
    <2>4. QED
      BY <1>1, <2>1, <2>3 DEF IngestTypeOK
  <1>18. QED
    BY <1>2, <1>3, <1>4, <1>6, <1>7, <1>8, <1>9, <1>10, <1>11, <1>12, <1>13,
       <1>14, <1>15, <1>16, <1>17 DEF IngestNext, Serve, Moderate

LEMMA IngestInvariant == IngestSpec => Spec /\ []IngestTypeOK
  <1>1. IngestInit => Init /\ IngestTypeOK
    BY DEF IngestInit, Init, IngestTypeOK, Ids, Upload
  <1>2. ChainInv /\ IngestTypeOK /\ [IngestNext]_ingestVars
          => ChainInv' /\ IngestTypeOK' /\ [Next]_vars
    BY IngestTypeStep, StoreStep, TypeStep, ChainStep, LockStep
    DEF ChainInv, TypeInv
  <1>3. Init => ChainInv
    BY ChainInit
  <1>4. QED
    BY <1>1, <1>2, <1>3, PTL DEF IngestSpec, Spec

\* The module's type invariant.
THEOREM IngestTypeCorrect == IngestSpec => []IngestTypeOK
  BY IngestInvariant

\* So a chain stays well formed under any number of concurrent uploads.
THEOREM UploadsKeepChainsWellFormed == IngestSpec => []ChainsWellFormed
  BY IngestInvariant, ChainsStayWellFormed

(***************************************************************************)
(* No machine-generated track replaces a human-made one.  The handler      *)
(* compares the two before SupersedeTrack locks anything; what carries the *)
(* comparison to the insert is that neither side can change.               *)
(***************************************************************************)
\* What is known of the target of a request that is about to supersede.
TargetFits(c) ==
  LET req == upload[c].req IN
  /\ At(c, "head") \/ At(c, "supersede") => req.target \in Ids
  /\ At(c, "supersede") /\ req.payload.generated
       => tracks[req.target].payload.generated

\* An open supersede is the one its connection's request asked for.
SupersedesAsRequested(c) ==
  tx[c].op = "supersede" =>
    /\ At(c, "supersede")
    /\ tx[c].parent = upload[c].req.target
    /\ tx[c].payload = upload[c].req.payload

HumanInv ==
  /\ MachineNeverReplacesHuman
  /\ \A c \in Conns : TargetFits(c) /\ SupersedesAsRequested(c)

\* Rows keep their release, their payload and what they supersede, in every step.
LEMMA PayloadsStay ==
  ASSUME ChainInv, [Next]_vars
  PROVE  /\ Ids \subseteq Ids'
         /\ \A t \in Ids : /\ tracks'[t].release = tracks[t].release
                           /\ tracks'[t].payload = tracks[t].payload
                           /\ tracks'[t].supersedes = tracks[t].supersedes
  <1> USE DEF ChainInv
  <1>1. ASSUME NEW targets, NEW stamp \in Stamps, NEW reason \in Reasons,
               lastId' = lastId, tracks' = Withdrawn(targets, stamp, reason)
        PROVE  /\ Ids \subseteq Ids'
               /\ \A t \in Ids : /\ tracks'[t].release = tracks[t].release
                                 /\ tracks'[t].payload = tracks[t].payload
                                 /\ tracks'[t].supersedes = tracks[t].supersedes
    BY <1>1, RewrittenRows DEF Ids
  <1>2. ASSUME NEW row \in Row, Insert(row)
        PROVE  /\ Ids \subseteq Ids'
               /\ \A t \in Ids : /\ tracks'[t].release = tracks[t].release
                                 /\ tracks'[t].payload = tracks[t].payload
                                 /\ tracks'[t].supersedes = tracks[t].supersedes
    BY <1>2, InsertedRows DEF Insert, Ids
  <1>3. ASSUME NEW r \in Releases, NEW a \in Accounts, NEW p \in Payloads,
               CreateSubtitleTrack(r, a, p)
        PROVE  \E row \in Row : Insert(row)
    BY <1>3, RevisionRows DEF CreateSubtitleTrack, FirstRevision
  <1>4. ASSUME NEW c \in Conns, SupersedeCommit(c)
        PROVE  \E row \in Row : Insert(row)
    BY <1>4, RevisionRows DEF SupersedeCommit, NextRevision
  <1>5. ASSUME NEW t \in Ids, WithdrawTrack(t)
        PROVE  clock + 1 \in Stamps /\ lastId' = lastId
               /\ tracks' = Withdrawn({t}, clock + 1, "own")
    BY <1>5, BoundsAssumption DEF WithdrawTrack, TypeOK, Stamps
  <1>6. ASSUME NEW t \in Ids, RestoreTrack(t)
        PROVE  lastId' = lastId /\ tracks' = Withdrawn({t}, None, "none")
    BY <1>6 DEF RestoreTrack, Restored
  <1>7. ASSUME NEW c \in Conns, WithdrawReleaseCommit(c)
        PROVE  /\ tx[c].stamp \in Stamps /\ lastId' = lastId
               /\ tracks' = Withdrawn(StillLive(c), tx[c].stamp, "release")
    BY <1>7, TransactionFields
    DEF WithdrawReleaseCommit, WithdrawTargets, StillLive
  <1>8. ASSUME NEW c \in Conns, WithdrawTracksByUploaderCommit(c)
        PROVE  /\ tx[c].stamp \in Stamps /\ lastId' = lastId
               /\ tracks' = Withdrawn(StillTheirs(c), tx[c].stamp, "purge")
    BY <1>8, TransactionFields
    DEF WithdrawTracksByUploaderCommit, WithdrawTargets, StillTheirs
  <1>9. ASSUME NEW c \in Conns, RestoreReleaseCommit(c)
        PROVE  lastId' = lastId /\ tracks' = Withdrawn(RestoredBy(c), None, "none")
    BY <1>9 DEF RestoreReleaseCommit, Restored, RestoredBy
  <1>10. ASSUME UNCHANGED <<lastId, tracks>>
         PROVE  /\ Ids \subseteq Ids'
                /\ \A t \in Ids : /\ tracks'[t].release = tracks[t].release
                                  /\ tracks'[t].payload = tracks[t].payload
                                  /\ tracks'[t].supersedes = tracks[t].supersedes
    BY <1>10 DEF Ids
  <1>11. ASSUME NEW c \in Conns,
                \/ \E t \in Ids, a \in Accounts, p \in Payloads :
                     SupersedeBegin(c, t, a, p)
                \/ \E r \in Releases : \/ WithdrawReleaseBegin(c, r)
                                       \/ RestoreReleaseBegin(c, r)
                \/ \E a \in Accounts : WithdrawTracksByUploaderBegin(c, a)
                \/ Rollback(c)
         PROVE  UNCHANGED <<lastId, tracks>>
    BY <1>11 DEF SupersedeBegin, WithdrawReleaseBegin, RestoreReleaseBegin,
                 WithdrawTracksByUploaderBegin, Rollback
  <1>12. CASE UNCHANGED vars
    BY <1>10, <1>12 DEF vars
  <1>13. CASE \E r \in Releases, a \in Accounts, p \in Payloads :
                CreateSubtitleTrack(r, a, p)
    BY <1>2, <1>3, <1>13
  <1>14. CASE \E c \in Conns : SupersedeCommit(c)
    BY <1>2, <1>4, <1>14
  <1>15. CASE \E t \in Ids : WithdrawTrack(t) \/ RestoreTrack(t)
    BY <1>1, <1>5, <1>6, <1>15, StampFacts
  <1>16. CASE \E c \in Conns : \/ WithdrawReleaseCommit(c)
                               \/ WithdrawTracksByUploaderCommit(c)
                               \/ RestoreReleaseCommit(c)
    BY <1>1, <1>7, <1>8, <1>9, <1>16, StampFacts
  <1>17. CASE \E a \in Accounts : DeleteAccount(a)
    BY <1>17, UnlinkedRows
  <1>18. QED
    BY <1>10, <1>11, <1>12, <1>13, <1>14, <1>15, <1>16, <1>17
    DEF Next, Statement, Supersede, Takedown

\* A step that moves no request, and opens no supersede.
LEMMA SameRequests ==
  ASSUME HumanInv, upload' = upload, Ids \subseteq Ids',
         \A t \in Ids : tracks'[t].payload = tracks[t].payload,
         \A c \in Conns : tx'[c].op = "supersede" => tx'[c] = tx[c]
  PROVE  \A c \in Conns : TargetFits(c)' /\ SupersedesAsRequested(c)'
  BY DEF HumanInv, TargetFits, SupersedesAsRequested, At

\* A step that moves one request, where it comes to.
LEMMA MovedRequest ==
  ASSUME IngestTypeOK, HumanInv, NEW c \in Conns, NEW state, Goto(c, state),
         Ids \subseteq Ids',
         \A t \in Ids : tracks'[t].payload = tracks[t].payload,
         \A d \in Conns : tx'[d].op = "supersede" => tx'[d] = tx[d],
         tx'[c].op # "supersede",
         state.at \in {"head", "supersede"} => state.req.target \in Ids,
         state.at = "supersede" /\ state.req.payload.generated
           => tracks[state.req.target].payload.generated
  PROVE  \A d \in Conns : TargetFits(d)' /\ SupersedesAsRequested(d)'
  <1>1. upload'[c] = state /\ \A d \in Conns : d # c => upload'[d] = upload[d]
    BY DEF Goto, IngestTypeOK
  <1>2. QED
    BY <1>1 DEF HumanInv, TargetFits, SupersedesAsRequested, At

\* A connection at none of the superseding states has no open supersede.
LEMMA NoOpenSupersede ==
  ASSUME HumanInv, NEW c \in Conns, ~At(c, "supersede")
  PROVE  tx[c].op # "supersede"
  BY DEF HumanInv, SupersedesAsRequested

\* Rows already there keep the property; so does a row that fits.
LEMMA HumanRows ==
  ASSUME ChainInv, HumanInv, [Next]_vars,
         \/ Ids' = Ids
         \/ /\ Ids' = Ids \cup {lastId + 1}
            /\ LET row == tracks'[lastId + 1] IN
               row.supersedes # None /\ row.payload.generated
                 => /\ row.supersedes \in Ids
                    /\ tracks[row.supersedes].payload.generated
  PROVE  MachineNeverReplacesHuman'
  <1>1. \A t \in Ids : /\ tracks'[t].payload = tracks[t].payload
                       /\ tracks'[t].supersedes = tracks[t].supersedes
    BY PayloadsStay
  <1>2. \A t \in Ids : tracks[t].supersedes # None => tracks[t].supersedes \in Ids
    BY DEF ChainInv, ChainsWellFormed, Ids, TypeOK
  <1>3. QED
    BY <1>1, <1>2 DEF HumanInv, MachineNeverReplacesHuman

LEMMA HumanStep ==
  ASSUME ChainInv, IngestTypeOK, HumanInv, [IngestNext]_ingestVars
  PROVE  HumanInv'
  <1>1. /\ [Next]_vars
        /\ Ids \subseteq Ids'
        /\ \A t \in Ids : tracks'[t].payload = tracks[t].payload
    BY StoreStep, PayloadsStay
  <1>2. ASSUME Ids' = Ids
        PROVE  MachineNeverReplacesHuman'
    BY <1>1, <1>2, HumanRows
  <1>3. ASSUME NEW c \in Conns,
               \/ \E req \in Requests : Receive(c, req)
               \/ FindIdenticalTrack(c)
               \/ AnswerDuplicate(c)
               \/ UpdateSubtitleTrackKind(c)
               \/ UpdateSubtitleTrackAuthorship(c)
        PROVE  HumanInv'
    <2>1. ~At(c, "supersede") /\ UNCHANGED vars
      BY <1>3 DEF Receive, FindIdenticalTrack, AnswerDuplicate, At,
                  UpdateSubtitleTrackKind, UpdateSubtitleTrackAuthorship
    <2>2. tx' = tx /\ Ids' = Ids
      BY <2>1 DEF vars, Ids
    <2>3. tx'[c].op # "supersede"
      BY <2>1, <2>2, NoOpenSupersede
    <2>4. ASSUME NEW state, Goto(c, state), state.at \notin {"head", "supersede"}
          PROVE  HumanInv'
      BY <1>1, <1>2, <2>2, <2>3, <2>4, MovedRequest DEF HumanInv
    <2>5. Done.at = "idle"
      BY DEF Done
    <2>6. /\ AfterKind(upload[c]).at \notin {"head", "supersede"}
          /\ ~At(c, "head")
      BY <1>3, <2>5
      DEF AfterKind, Receive, FindIdenticalTrack, AnswerDuplicate, At,
          UpdateSubtitleTrackKind, UpdateSubtitleTrackAuthorship
    <2>7. CASE \E req \in Requests : Receive(c, req)
      BY <2>4, <2>7 DEF Receive
    <2>8. CASE FindIdenticalTrack(c)
      BY <2>4, <2>8 DEF FindIdenticalTrack
    <2>9. CASE AnswerDuplicate(c)
      BY <2>4, <2>5, <2>6, <2>9 DEF AnswerDuplicate
    <2>10. CASE UpdateSubtitleTrackKind(c)
      BY <2>4, <2>6, <2>10 DEF UpdateSubtitleTrackKind
    <2>11. CASE UpdateSubtitleTrackAuthorship(c)
      BY <2>4, <2>5, <2>11 DEF UpdateSubtitleTrackAuthorship
    <2>12. QED
      BY <1>3, <2>7, <2>8, <2>9, <2>10, <2>11
  <1>4. ASSUME NEW c \in Conns, CreateTrack(c)
        PROVE  HumanInv'
    <2>1. upload[c].req \in Requests
      BY <1>4, UploadFields DEF CreateTrack, At
    <2> DEFINE row == FirstRevision(upload[c].req.release, upload[c].req.account,
                                    upload[c].req.payload)
    <2>2. row \in Row
      BY <2>1, RequestFields, RevisionRows DEF ChainInv
    <2>3. Insert(row) /\ tx' = tx /\ Goto(c, Done) /\ ~At(c, "supersede")
      BY <1>4 DEF CreateTrack, CreateSubtitleTrack, FirstRevision, At
    <2>4. row.supersedes = None
      BY DEF FirstRevision
    <2> HIDE DEF row
    <2>5. Ids' = Ids \cup {lastId + 1} /\ tracks'[lastId + 1] = row
      BY <2>2, <2>3, InsertedRows DEF ChainInv, Insert, Ids
    <2>6. MachineNeverReplacesHuman'
      BY <1>1, <2>4, <2>5, HumanRows
    <2>7. tx'[c].op # "supersede"
      BY <2>3, NoOpenSupersede
    <2>8. Done.at = "idle"
      BY DEF Done
    <2>9. QED
      BY <1>1, <2>3, <2>6, <2>7, <2>8, MovedRequest DEF HumanInv
  <1>5. ASSUME NEW c \in Conns, CheckTarget(c)
        PROVE  HumanInv'
    <2>1. /\ Goto(c, [at |-> "head", req |-> upload[c].req])
          /\ upload[c].req.target \in Ids /\ ~At(c, "supersede")
          /\ tx' = tx /\ Ids' = Ids
      BY <1>5 DEF CheckTarget, vars, At, Ids
    <2>2. tx'[c].op # "supersede"
      BY <2>1, NoOpenSupersede
    <2>3. QED
      BY <1>1, <1>2, <2>1, <2>2, MovedRequest DEF HumanInv
  <1>6. ASSUME NEW c \in Conns, CheckHead(c)
        PROVE  HumanInv'
    <2>1. PICK next \in {"create", "supersede"} :
            Goto(c, [at |-> next, req |-> upload[c].req])
      BY <1>6 DEF CheckHead
    <2>2. /\ At(c, "head") /\ ~At(c, "supersede")
          /\ upload[c].req.payload.generated
               => tracks[upload[c].req.target].payload.generated
          /\ tx' = tx /\ Ids' = Ids
      BY <1>6 DEF CheckHead, vars, At, Ids
    <2>3. upload[c].req.target \in Ids
      BY <2>2 DEF HumanInv, TargetFits
    <2>4. tx'[c].op # "supersede"
      BY <2>2, NoOpenSupersede
    <2>5. QED
      BY <1>1, <1>2, <2>1, <2>2, <2>3, <2>4, MovedRequest DEF HumanInv
  <1>7. ASSUME NEW c \in Conns, SupersedeTrack(c)
        PROVE  HumanInv'
    <2>1. /\ At(c, "supersede") /\ upload' = upload /\ UNCHANGED <<lastId, tracks>>
          /\ SupersedeBegin(c, upload[c].req.target, upload[c].req.account,
                            upload[c].req.payload)
      BY <1>7 DEF SupersedeTrack, SupersedeBegin
    <2>2. /\ tx'[c].parent = upload[c].req.target
          /\ tx'[c].payload = upload[c].req.payload
          /\ \A d \in Conns : d # c => tx'[d] = tx[d]
      <3>1. PICK max : Begin(c, [op |-> "supersede",
                                 parent |-> upload[c].req.target, max |-> max,
                                 uploader |-> upload[c].req.account,
                                 payload |-> upload[c].req.payload])
        BY <2>1 DEF SupersedeBegin
      <3>2. QED
        BY <3>1, BegunTransaction DEF ChainInv
    <2>3. QED
      BY <1>2, <2>1, <2>2
      DEF HumanInv, TargetFits, SupersedesAsRequested, At, Ids
  <1>8. ASSUME NEW c \in Conns, CommitRevision(c)
        PROVE  HumanInv'
    <2>1. /\ At(c, "supersede") /\ tx[c].op = "supersede" /\ SupersedeCommit(c)
          /\ Goto(c, Done)
      BY <1>8 DEF CommitRevision, SupersedeCommit
    <2>2. NextRevision(c) \in Row /\ Insert(NextRevision(c)) /\ End(c)
      BY <2>1, RevisionRows DEF ChainInv, SupersedeCommit, NextRevision
    <2>3. Ids' = Ids \cup {lastId + 1} /\ tracks'[lastId + 1] = NextRevision(c)
      BY <2>2, InsertedRows DEF ChainInv, Insert, Ids
    <2>4. /\ NextRevision(c).supersedes = upload[c].req.target
          /\ NextRevision(c).payload = upload[c].req.payload
      BY <2>1 DEF NextRevision, HumanInv, SupersedesAsRequested
    <2>5. MachineNeverReplacesHuman'
      BY <1>1, <2>1, <2>3, <2>4, HumanRows DEF HumanInv, TargetFits
    <2>6. /\ tx'[c].op # "supersede"
          /\ \A d \in Conns : tx'[d].op = "supersede" => tx'[d] = tx[d]
      BY <2>2, EndedTransaction DEF ChainInv
    <2>7. Done.at = "idle"
      BY DEF Done
    <2>8. QED
      BY <1>1, <2>1, <2>5, <2>6, <2>7, MovedRequest DEF HumanInv
  <1>9. ASSUME NEW c \in Conns, BreakOff(c)
        PROVE  HumanInv'
    <2>1. Goto(c, Done) /\ Ids' = Ids /\ Done.at = "idle"
      BY <1>9 DEF BreakOff, Rollback, vars, Ids, Done
    <2>2. /\ tx'[c].op # "supersede"
          /\ \A d \in Conns : tx'[d].op = "supersede" => tx'[d] = tx[d]
      BY <1>9, EndedTransaction DEF BreakOff, Rollback, ChainInv, vars, Idle
    <2>3. QED
      BY <1>1, <1>2, <2>1, <2>2, MovedRequest DEF HumanInv
  <1>10. ASSUME Moderate
         PROVE  HumanInv'
    <2>1. upload' = upload /\ Ids' = Ids
      BY <1>10
      DEF Moderate, UpdateSubtitleTrackKindAsModerator, vars, Ids, WithdrawTrack,
          RestoreTrack, Takedown, Rollback, WithdrawReleaseBegin,
          WithdrawReleaseCommit, WithdrawTracksByUploaderBegin,
          WithdrawTracksByUploaderCommit, RestoreReleaseBegin,
          RestoreReleaseCommit, DeleteAccountWithCredits, DeleteAccount
    <2>2. \A d \in Conns : tx'[d].op = "supersede" => tx'[d] = tx[d]
      <3>1. CASE tx' = tx
        BY <3>1
      <3>2. ASSUME NEW c \in Conns, NEW t, Begin(c, t), t.op # "supersede"
            PROVE  \A d \in Conns : tx'[d].op = "supersede" => tx'[d] = tx[d]
        BY <3>2, BegunTransaction DEF ChainInv
      <3>3. ASSUME NEW c \in Conns, End(c)
            PROVE  \A d \in Conns : tx'[d].op = "supersede" => tx'[d] = tx[d]
        BY <3>3, EndedTransaction DEF ChainInv
      <3>4. ASSUME NEW c \in Conns, Takedown(c) \/ Rollback(c)
            PROVE  \A d \in Conns : tx'[d].op = "supersede" => tx'[d] = tx[d]
        <4>1. CASE \E r \in Releases : WithdrawReleaseBegin(c, r)
          BY <3>2, <4>1 DEF WithdrawReleaseBegin
        <4>2. CASE \E a \in Accounts : WithdrawTracksByUploaderBegin(c, a)
          BY <3>2, <4>2 DEF WithdrawTracksByUploaderBegin
        <4>3. CASE \E r \in Releases : RestoreReleaseBegin(c, r)
          BY <3>2, <4>3 DEF RestoreReleaseBegin
        <4>4. CASE \/ WithdrawReleaseCommit(c)
                   \/ WithdrawTracksByUploaderCommit(c)
                   \/ RestoreReleaseCommit(c)
                   \/ Rollback(c)
          BY <3>3, <4>4 DEF WithdrawReleaseCommit, RestoreReleaseCommit,
                            WithdrawTracksByUploaderCommit, Rollback
        <4>5. QED
          BY <3>4, <4>1, <4>2, <4>3, <4>4 DEF Takedown
      <3>5. QED
        BY <1>10, <3>1, <3>4 DEF Moderate, WithdrawTrack, RestoreTrack,
                                 UpdateSubtitleTrackKindAsModerator, vars,
                                 DeleteAccountWithCredits, DeleteAccount
    <2>3. QED
      BY <1>1, <1>2, <2>1, <2>2, SameRequests DEF HumanInv
  <1>11. CASE UNCHANGED ingestVars
    BY <1>1, <1>2, <1>11, SameRequests DEF ingestVars, Ids, HumanInv
  <1>12. QED
    BY <1>3, <1>4, <1>5, <1>6, <1>7, <1>8, <1>9, <1>10, <1>11
    DEF IngestNext, Serve

LEMMA HumanInvariant == IngestSpec => []HumanInv
  <1>1. IngestInit => HumanInv
    BY DEF IngestInit, Init, HumanInv, MachineNeverReplacesHuman, TargetFits,
           SupersedesAsRequested, At, Ids, Done, Idle
  <1>2. ChainInv /\ IngestTypeOK /\ HumanInv /\ [IngestNext]_ingestVars
          => HumanInv'
    BY HumanStep
  <1>3. QED
    BY <1>1, <1>2, IngestInvariant, ChainInvariant, PTL DEF IngestSpec

\* A machine-generated upload never replaces a human-made track.
THEOREM HumanTracksStayHuman == IngestSpec => []MachineNeverReplacesHuman
  <1>1. HumanInv => MachineNeverReplacesHuman
    BY DEF HumanInv
  <1>2. QED
    BY <1>1, HumanInvariant, PTL

(***************************************************************************)
(* Corrections.  duplicateTrackResponse works on a row it has read, so the *)
(* invariant says what stays true of it: it is there, with the text the    *)
(* request uploaded.  That it is the uploader's own is checked again, by   *)
(* the statement that writes.                                              *)
(***************************************************************************)
Correcting == {"duplicate", "correctKind", "correctAuthorship"}

FoundFits(c) ==
  upload[c].at \in Correcting =>
    /\ upload[c].found \in Ids
    /\ tracks[upload[c].found].payload.body = upload[c].req.payload.body

FoundInv == \A c \in Conns : FoundFits(c)

\* What was found stays there, as long as the request is about the same row.
LEMMA FoundStays ==
  ASSUME ChainInv, IngestTypeOK, FoundInv, [IngestNext]_ingestVars,
         \A c \in Conns :
           upload'[c].at \in Correcting =>
             \/ /\ upload[c].at \in Correcting
                /\ upload'[c].req = upload[c].req
                /\ upload'[c].found = upload[c].found
             \/ /\ upload'[c].found \in Ids
                /\ tracks[upload'[c].found].payload.body = upload'[c].req.payload.body
  PROVE  FoundInv'
  <1>1. /\ Ids \subseteq Ids'
        /\ \A t \in Ids : tracks'[t].payload = tracks[t].payload
    BY StoreStep, PayloadsStay
  <1>2. QED
    BY <1>1 DEF FoundInv, FoundFits

\* A request that goes on with the row it found, or with none.
LEMMA GoesOn ==
  ASSUME ChainInv, IngestTypeOK, FoundInv, [IngestNext]_ingestVars,
         NEW c \in Conns, NEW state, Goto(c, state),
         \/ state.at \notin Correcting
         \/ /\ upload[c].at \in Correcting
            /\ state.req = upload[c].req /\ state.found = upload[c].found
         \/ /\ state.found \in Ids
            /\ tracks[state.found].payload.body = state.req.payload.body
  PROVE  FoundInv'
  <1>1. upload'[c] = state /\ \A d \in Conns : d # c => upload'[d] = upload[d]
    BY DEF Goto, IngestTypeOK
  <1>2. QED
    BY <1>1, FoundStays

LEMMA FoundStep ==
  ASSUME ChainInv, IngestTypeOK, FoundInv, [IngestNext]_ingestVars
  PROVE  FoundInv'
  <1>1. CASE upload' = upload
    BY <1>1, FoundStays
  <1>2. Done.at \notin Correcting
    BY DEF Done, Correcting
  <1>3. ASSUME NEW c \in Conns, upload[c].at \in Correcting, Goto(c, AfterKind(upload[c]))
        PROVE  FoundInv'
    <2>1. CASE AfterKind(upload[c]) = Done
      BY <1>2, <1>3, <2>1, GoesOn
    <2>2. CASE AfterKind(upload[c]) = [at |-> "correctAuthorship", req |-> upload[c].req,
                                       found |-> upload[c].found]
      BY <1>3, <2>2, GoesOn
    <2>3. QED
      BY <2>1, <2>2 DEF AfterKind
  <1>4. ASSUME NEW c \in Conns, NEW req \in Requests, Receive(c, req)
        PROVE  FoundInv'
    BY <1>4, GoesOn DEF Receive, Correcting
  <1>5. ASSUME NEW c \in Conns, FindIdenticalTrack(c)
        PROVE  FoundInv'
    <2> DEFINE req == upload[c].req
               same == Identical(req.release, req.payload.body)
    <2>1. ASSUME NEW t \in same, Goto(c, [at |-> "duplicate", req |-> req, found |-> t])
          PROVE  FoundInv'
      <3>1. t \in Ids /\ tracks[t].payload.body = req.payload.body
        BY <2>1 DEF Identical
      <3>2. QED
        BY <2>1, <3>1, GoesOn
    <2>2. ASSUME NEW next \in {"create", "target"}, Goto(c, [at |-> next, req |-> req])
          PROVE  FoundInv'
      BY <2>2, GoesOn DEF Correcting
    <2>3. QED
      BY <1>5, <2>1, <2>2 DEF FindIdenticalTrack
  <1>6. ASSUME NEW c \in Conns, AnswerDuplicate(c)
        PROVE  FoundInv'
    <2>1. upload[c].at \in Correcting
      BY <1>6 DEF AnswerDuplicate, At, Correcting
    <2>2. CASE Goto(c, Done)
      BY <1>2, <2>2, GoesOn
    <2>3. CASE Goto(c, [at |-> "correctKind", req |-> upload[c].req,
                        found |-> upload[c].found])
      BY <2>1, <2>3, GoesOn
    <2>4. QED
      BY <1>3, <1>6, <2>1, <2>2, <2>3 DEF AnswerDuplicate
  <1>7. ASSUME NEW c \in Conns, UpdateSubtitleTrackKind(c)
        PROVE  FoundInv'
    BY <1>3, <1>7 DEF UpdateSubtitleTrackKind, At, Correcting
  <1>8. ASSUME NEW c \in Conns, NEW where \in {"head", "create", "supersede"},
               Goto(c, [at |-> where, req |-> upload[c].req])
        PROVE  FoundInv'
    BY <1>8, GoesOn DEF Correcting
  <1>9. ASSUME NEW c \in Conns, CheckTarget(c) \/ CheckHead(c)
        PROVE  FoundInv'
    BY <1>8, <1>9 DEF CheckTarget, CheckHead
  <1>10. ASSUME NEW c \in Conns,
                \/ CreateTrack(c)
                \/ UpdateSubtitleTrackAuthorship(c)
                \/ CommitRevision(c)
                \/ BreakOff(c)
         PROVE  FoundInv'
    BY <1>2, <1>10, GoesOn
    DEF CreateTrack, UpdateSubtitleTrackAuthorship, CommitRevision, BreakOff
  <1>11. ASSUME NEW c \in Conns, SupersedeTrack(c)
         PROVE  FoundInv'
    BY <1>1, <1>11 DEF SupersedeTrack
  <1>12. ASSUME Moderate
         PROVE  FoundInv'
    BY <1>1, <1>12 DEF Moderate, UpdateSubtitleTrackKindAsModerator,
                       DeleteAccountWithCredits
  <1>13. CASE UNCHANGED ingestVars
    BY <1>1, <1>13 DEF ingestVars
  <1>14. QED
    BY <1>4, <1>5, <1>6, <1>7, <1>9, <1>10, <1>11, <1>12, <1>13 DEF IngestNext, Serve

LEMMA FoundInvariant == IngestSpec => []FoundInv
  <1>1. IngestInit => FoundInv
    BY DEF IngestInit, FoundInv, FoundFits, Correcting, Done
  <1>2. ChainInv /\ IngestTypeOK /\ FoundInv /\ [IngestNext]_ingestVars => FoundInv'
    BY FoundStep
  <1>3. QED
    BY <1>1, <1>2, IngestInvariant, ChainInvariant, PTL DEF IngestSpec

\* A step that changes what a stored track declares, or whom it credits, is a
\* correction by its uploader, who uploaded that text, or takes the credit with
\* its uploader's account; a declaration survives both.
LEMMA NoteStep ==
  ASSUME ChainInv, IngestTypeOK, FoundInv, [IngestNext]_ingestVars, NEW t \in Ids
  PROVE  /\ notes[t].declared => notes'[t].declared
         /\ \/ /\ notes'[t].authorship = notes[t].authorship
               /\ notes'[t].declared = notes[t].declared
            \/ \E c \in Conns :
                 /\ UpdateSubtitleTrackAuthorship(c)
                 /\ upload[c].found = t
                 /\ ~At(c, "idle")
                 /\ upload[c].req.account = tracks[t].uploader
                 /\ upload[c].req.payload.body = tracks[t].payload.body
            \/ /\ tracks[t].uploader \in accounts \ accounts'
               /\ notes[t].authorship = "credited"
               /\ notes'[t] = [notes[t] EXCEPT !.authorship = "uncredited"]
  <1> DEFINE Kept == /\ notes'[t].authorship = notes[t].authorship
                     /\ notes'[t].declared = notes[t].declared
             Corrected(c) == /\ UpdateSubtitleTrackAuthorship(c)
                             /\ upload[c].found = t
                             /\ ~At(c, "idle")
                             /\ upload[c].req.account = tracks[t].uploader
                             /\ upload[c].req.payload.body = tracks[t].payload.body
                             /\ notes[t].declared => notes'[t].declared
             Erased == /\ tracks[t].uploader \in accounts \ accounts'
                       /\ notes[t].authorship = "credited"
                       /\ notes'[t] = [notes[t] EXCEPT !.authorship = "uncredited"]
  <1>1. notes \in [Ids -> Note]
    BY DEF IngestTypeOK
  <1>2. ASSUME Erased
        PROVE  notes'[t].declared = notes[t].declared
    BY <1>1, <1>2 DEF Note
  <1>3. SUFFICES Kept \/ Erased \/ \E c \in Conns : Corrected(c)
    BY <1>2
  <1>4. ASSUME NEW req, Annotate(req)
        PROVE  Kept
    BY <1>4 DEF Annotate, Ids, ChainInv, TypeOK
  <1>5. ASSUME NEW u, NEW kind, notes' = [notes EXCEPT ![u].kind = kind]
        PROVE  Kept
    BY <1>1, <1>5 DEF Note
  <1>6. ASSUME notes' = notes
        PROVE  Kept
    BY <1>6
  <1>7. ASSUME NEW c \in Conns, UpdateSubtitleTrackAuthorship(c)
        PROVE  Kept \/ Corrected(c)
    <2>1. CASE upload[c].found # t
      BY <1>1, <1>7, <2>1 DEF UpdateSubtitleTrackAuthorship
    <2>2. CASE upload[c].found = t
      <3>1. At(c, "correctAuthorship") /\ OwnTrack(t, upload[c].req.account)
        BY <1>7, <2>2 DEF UpdateSubtitleTrackAuthorship
      <3>2. FoundFits(c)
        BY DEF FoundInv
      <3>3. notes'[t].declared = (notes[t].declared \/ upload[c].req.declares)
        BY <1>1, <1>7, <2>2 DEF UpdateSubtitleTrackAuthorship
      <3>4. QED
        BY <1>7, <2>2, <3>1, <3>2, <3>3 DEF At, OwnTrack, FoundFits, Correcting
    <2>3. QED
      BY <2>1, <2>2
  <1>8. ASSUME NEW c \in Conns, Serve(c)
        PROVE  Kept \/ Corrected(c)
    <2>1. CASE CreateTrack(c) \/ CommitRevision(c)
      BY <1>4, <2>1 DEF CreateTrack, CommitRevision
    <2>2. CASE UpdateSubtitleTrackKind(c)
      BY <1>5, <2>2 DEF UpdateSubtitleTrackKind
    <2>3. CASE UpdateSubtitleTrackAuthorship(c)
      BY <1>7, <2>3
    <2>4. CASE \/ \E req \in Requests : Receive(c, req)
               \/ FindIdenticalTrack(c) \/ AnswerDuplicate(c) \/ CheckTarget(c)
               \/ CheckHead(c) \/ SupersedeTrack(c) \/ BreakOff(c)
      BY <1>6, <2>4 DEF Receive, FindIdenticalTrack, AnswerDuplicate, CheckTarget,
                        CheckHead, SupersedeTrack, BreakOff
    <2>5. QED
      BY <1>8, <2>1, <2>2, <2>3, <2>4 DEF Serve
  <1>9. CASE Moderate
    <2>1. CASE \E u \in Ids, kind \in Kinds : UpdateSubtitleTrackKindAsModerator(u, kind)
      BY <1>5, <2>1 DEF UpdateSubtitleTrackKindAsModerator
    <2>2. CASE notes' = notes
      BY <1>6, <2>2
    <2>3. ASSUME NEW a \in Accounts, DeleteAccountWithCredits(a)
          PROVE  Kept \/ Erased
      <3>1. /\ a \in accounts \ accounts'
            /\ notes'[t] = IF t \in Uploads(a) /\ notes[t].authorship = "credited"
                             THEN [notes[t] EXCEPT !.authorship = "uncredited"]
                             ELSE notes[t]
        BY <2>3 DEF DeleteAccountWithCredits, DeleteAccount
      <3>2. QED
        BY <3>1 DEF Uploads
    <2>4. QED
      BY <1>9, <2>1, <2>2, <2>3 DEF Moderate
  <1>10. QED
    BY <1>6, <1>8, <1>9 DEF IngestNext, ingestVars

\* A declaration of generated content is never cleared, by no interleaving of
\* re-uploads that read it earlier.
THEOREM DeclarationsAreKept == IngestSpec => DeclarationsStay
  <1>1. ASSUME ChainInv, IngestTypeOK, FoundInv, [IngestNext]_ingestVars
        PROVE  [\A t \in Ids : notes[t].declared => notes'[t].declared]_ingestVars
    BY <1>1, NoteStep
  <1>2. QED
    BY <1>1, IngestInvariant, ChainInvariant, FoundInvariant, PTL
    DEF IngestSpec, DeclarationsStay

\* Whom a stored track credits, and what it declares, change only in a request
\* of its uploader that uploads the same text again, and in the deletion of its
\* uploader, which leaves the declaration and credits nobody.
THEOREM UploadersCorrect == IngestSpec => OnlyUploaderCorrectsAuthorship
  <1>1. ASSUME ChainInv, IngestTypeOK, FoundInv, [IngestNext]_ingestVars
        PROVE  [\A t \in Ids :
                  \/ /\ notes'[t].authorship = notes[t].authorship
                     /\ notes'[t].declared = notes[t].declared
                  \/ \E c \in Conns :
                       /\ ~At(c, "idle")
                       /\ upload[c].req.account = tracks[t].uploader
                       /\ upload[c].req.payload.body = tracks[t].payload.body
                  \/ /\ tracks[t].uploader \in accounts \ accounts'
                     /\ notes[t].authorship = "credited"
                     /\ notes'[t] = [notes[t] EXCEPT !.authorship = "uncredited"]
               ]_ingestVars
    BY <1>1, NoteStep
  <1>2. QED
    BY <1>1, IngestInvariant, ChainInvariant, FoundInvariant, PTL
    DEF IngestSpec, OnlyUploaderCorrectsAuthorship

(***************************************************************************)
(* Credits.  A request can be past its uploader check when its account is  *)
(* deleted; then no row bears that account any more, so the check made     *)
(* again by the statement that writes finds none.                          *)
(***************************************************************************)
\* uploader_id is a foreign key: every row's uploader exists, or is NULL.
UploadersExist ==
  \A t \in Ids : tracks[t].uploader \in accounts \cup {None}

CreditInv == UploadersExist /\ CreditNamesAnAccount

\* Rows and accounts keep together: an insert names an existing account, and a
\* deletion unlinks the rows of its own.
LEMMA UploaderStep ==
  ASSUME ChainInv, UploadersExist, [Next]_vars
  PROVE  /\ UploadersExist'
         /\ \A t \in Ids' \ Ids : tracks'[t].uploader \in accounts'
         /\ \/ /\ accounts' = accounts
               /\ \A t \in Ids : tracks'[t].uploader = tracks[t].uploader
            \/ \E a \in Accounts : DeleteAccount(a)
  <1> USE DEF ChainInv
  <1> DEFINE Goal ==
        /\ UploadersExist'
        /\ \A t \in Ids' \ Ids : tracks'[t].uploader \in accounts'
        /\ \/ /\ accounts' = accounts
              /\ \A t \in Ids : tracks'[t].uploader = tracks[t].uploader
           \/ \E a \in Accounts : DeleteAccount(a)
  <1>1. ASSUME NEW row \in Row, Insert(row), accounts' = accounts
        PROVE  Goal
    <2>1. /\ Ids' = Ids \cup {lastId + 1}
          /\ tracks'[lastId + 1] = row
          /\ \A t \in Ids : tracks'[t] = tracks[t]
      BY <1>1, InsertedRows DEF Insert, Ids
    <2>2. row.uploader \in accounts
      BY <1>1 DEF Insert
    <2>3. QED
      BY <1>1, <2>1, <2>2 DEF UploadersExist
  <1>2. ASSUME NEW targets, NEW stamp \in Stamps, NEW reason \in Reasons,
               UNCHANGED <<lastId, accounts>>,
               tracks' = Withdrawn(targets, stamp, reason)
        PROVE  Goal
    <2>1. Ids' = Ids
      BY <1>2 DEF Ids
    <2>2. \A t \in Ids : tracks'[t].uploader = tracks[t].uploader
      BY <1>2, RewrittenRows
    <2>3. QED
      BY <1>2, <2>1, <2>2 DEF UploadersExist
  <1>3. ASSUME UNCHANGED <<lastId, tracks, accounts>>
        PROVE  Goal
    BY <1>3 DEF UploadersExist, Ids
  <1>4. ASSUME NEW a \in Accounts, DeleteAccount(a)
        PROVE  Goal
    <2>1. accounts' = accounts \ {a}
      BY <1>4 DEF DeleteAccount
    <2>2. /\ Ids' = Ids
          /\ \A t \in Ids : /\ tracks[t].uploader = a => tracks'[t].uploader = None
                            /\ tracks[t].uploader # a => tracks'[t] = tracks[t]
      BY <1>4, UnlinkedRows
    <2>3. UploadersExist'
      BY <2>1, <2>2 DEF UploadersExist
    <2>4. QED
      BY <1>4, <2>2, <2>3
  <1>5. ASSUME NEW r \in Releases, NEW a \in Accounts, NEW p \in Payloads,
               CreateSubtitleTrack(r, a, p)
        PROVE  Goal
    <2>1. /\ FirstRevision(r, a, p) \in Row /\ Insert(FirstRevision(r, a, p))
          /\ accounts' = accounts
      BY <1>5, RevisionRows DEF CreateSubtitleTrack, FirstRevision
    <2>2. QED
      BY <1>1, <2>1
  <1>6. ASSUME NEW c \in Conns, SupersedeCommit(c)
        PROVE  Goal
    <2>1. /\ NextRevision(c) \in Row /\ Insert(NextRevision(c))
          /\ accounts' = accounts
      BY <1>6, RevisionRows DEF SupersedeCommit, NextRevision
    <2>2. QED
      BY <1>1, <2>1
  <1>7. ASSUME NEW t \in Ids, WithdrawTrack(t)
        PROVE  Goal
    <2>1. /\ clock + 1 \in Stamps /\ UNCHANGED <<lastId, accounts>>
          /\ tracks' = Withdrawn({t}, clock + 1, "own")
      BY <1>7, BoundsAssumption DEF WithdrawTrack, TypeOK, Stamps
    <2>2. QED
      BY <1>2, <2>1, StampFacts
  <1>8. ASSUME NEW t \in Ids, RestoreTrack(t)
        PROVE  Goal
    <2>1. /\ UNCHANGED <<lastId, accounts>>
          /\ tracks' = Withdrawn({t}, None, "none")
      BY <1>8 DEF RestoreTrack, Restored
    <2>2. QED
      BY <1>2, <2>1, StampFacts
  <1>9. ASSUME NEW c \in Conns, WithdrawReleaseCommit(c)
        PROVE  Goal
    <2>1. /\ tx[c].stamp \in Stamps /\ UNCHANGED <<lastId, accounts>>
          /\ tracks' = Withdrawn(StillLive(c), tx[c].stamp, "release")
      BY <1>9, TransactionFields
      DEF WithdrawReleaseCommit, WithdrawTargets, StillLive
    <2>2. QED
      BY <1>2, <2>1, StampFacts
  <1>10. ASSUME NEW c \in Conns, WithdrawTracksByUploaderCommit(c)
         PROVE  Goal
    <2>1. /\ tx[c].stamp \in Stamps /\ UNCHANGED <<lastId, accounts>>
          /\ tracks' = Withdrawn(StillTheirs(c), tx[c].stamp, "purge")
      BY <1>10, TransactionFields
      DEF WithdrawTracksByUploaderCommit, WithdrawTargets, StillTheirs
    <2>2. QED
      BY <1>2, <2>1, StampFacts
  <1>11. ASSUME NEW c \in Conns, RestoreReleaseCommit(c)
         PROVE  Goal
    <2>1. /\ UNCHANGED <<lastId, accounts>>
          /\ tracks' = Withdrawn(RestoredBy(c), None, "none")
      BY <1>11 DEF RestoreReleaseCommit, Restored, RestoredBy
    <2>2. QED
      BY <1>2, <2>1, StampFacts
  <1>12. ASSUME NEW c \in Conns,
                \/ \E t \in Ids, a \in Accounts, p \in Payloads :
                     SupersedeBegin(c, t, a, p)
                \/ \E r \in Releases : \/ WithdrawReleaseBegin(c, r)
                                       \/ RestoreReleaseBegin(c, r)
                \/ \E a \in Accounts : WithdrawTracksByUploaderBegin(c, a)
                \/ Rollback(c)
         PROVE  UNCHANGED <<lastId, tracks, accounts>>
    BY <1>12 DEF SupersedeBegin, WithdrawReleaseBegin, RestoreReleaseBegin,
                 WithdrawTracksByUploaderBegin, Rollback
  <1>13. ASSUME UNCHANGED vars
         PROVE  Goal
    BY <1>3, <1>13 DEF vars
  <1> HIDE DEF Goal
  <1>14. Goal
    <2>1. CASE Statement
      BY <1>4, <1>5, <1>7, <1>8, <2>1 DEF Statement
    <2>2. ASSUME NEW c \in Conns, Supersede(c)
          PROVE  Goal
      BY <1>3, <1>6, <1>12, <2>2 DEF Supersede
    <2>3. ASSUME NEW c \in Conns, Takedown(c) \/ Rollback(c)
          PROVE  Goal
      BY <1>3, <1>9, <1>10, <1>11, <1>12, <2>3 DEF Takedown
    <2>4. QED
      BY <1>13, <2>1, <2>2, <2>3 DEF Next
  <1>15. QED
    BY <1>14 DEF Goal

\* Only a deletion of an account shrinks the accounts.
LEMMA OnlyDeletes ==
  ASSUME [IngestNext]_ingestVars, NEW a \in Accounts, a \in accounts,
         accounts' = accounts \ {a}
  PROVE  DeleteAccountWithCredits(a)
  <1>1. accounts' # accounts
    OBVIOUS
  <1>2. ASSUME NEW c \in Conns, Serve(c) \/ Takedown(c) \/ Rollback(c)
        PROVE  accounts' = accounts
    BY <1>2
    DEF Serve, Receive, FindIdenticalTrack, CreateTrack, AnswerDuplicate,
        UpdateSubtitleTrackKind, UpdateSubtitleTrackAuthorship, CheckTarget,
        CheckHead, SupersedeTrack, CommitRevision, BreakOff, Takedown, Rollback,
        WithdrawReleaseBegin, WithdrawReleaseCommit,
        WithdrawTracksByUploaderBegin, WithdrawTracksByUploaderCommit,
        RestoreReleaseBegin, RestoreReleaseCommit, CreateSubtitleTrack,
        SupersedeBegin, SupersedeCommit, vars
  <1>3. ASSUME NEW t \in Ids,
               \/ WithdrawTrack(t) \/ RestoreTrack(t)
               \/ \E kind \in Kinds : UpdateSubtitleTrackKindAsModerator(t, kind)
        PROVE  accounts' = accounts
    BY <1>3 DEF WithdrawTrack, RestoreTrack, UpdateSubtitleTrackKindAsModerator, vars
  <1>4. ASSUME NEW b \in Accounts, DeleteAccountWithCredits(b)
        PROVE  b = a
    BY <1>4 DEF DeleteAccountWithCredits, DeleteAccount
  <1>5. QED
    BY <1>1, <1>2, <1>3, <1>4 DEF IngestNext, Moderate, ingestVars

LEMMA CreditStep ==
  ASSUME ChainInv, IngestTypeOK, FoundInv, CreditInv, [IngestNext]_ingestVars
  PROVE  CreditInv'
  <1>1. [Next]_vars
    BY StoreStep
  <1>2. /\ UploadersExist'
        /\ \A t \in Ids' \ Ids : tracks'[t].uploader \in accounts'
        /\ \/ /\ accounts' = accounts
              /\ \A t \in Ids : tracks'[t].uploader = tracks[t].uploader
           \/ \E a \in Accounts : DeleteAccount(a)
    BY <1>1, UploaderStep DEF CreditInv
  <1>3. SUFFICES ASSUME NEW t \in Ids, notes'[t].authorship = "credited"
                 PROVE  tracks'[t].uploader \in accounts'
    BY <1>2 DEF CreditInv, CreditNamesAnAccount
  <1>4. ASSUME tracks[t].uploader \in accounts,
               accounts' = accounts,
               tracks'[t].uploader = tracks[t].uploader
        PROVE  tracks'[t].uploader \in accounts'
    BY <1>4
  <1>5. CASE \E a \in Accounts : DeleteAccount(a)
    <2>1. PICK a \in Accounts : DeleteAccount(a)
      BY <1>5
    <2>2. accounts' = accounts \ {a} /\ a \in accounts
      BY <2>1 DEF DeleteAccount
    <2>3. DeleteAccountWithCredits(a)
      BY <2>1, <2>2, OnlyDeletes
    <2>4. notes'[t] = IF t \in Uploads(a) /\ notes[t].authorship = "credited"
                        THEN [notes[t] EXCEPT !.authorship = "uncredited"]
                        ELSE notes[t]
      BY <2>3 DEF DeleteAccountWithCredits
    <2>5. notes[t] \in Note
      BY DEF IngestTypeOK
    <2>6. t \notin Uploads(a) /\ notes[t].authorship = "credited"
      BY <1>3, <2>4, <2>5 DEF Note
    <2>7. tracks[t].uploader \in accounts /\ tracks[t].uploader # a
      BY <2>6 DEF CreditInv, CreditNamesAnAccount, Uploads
    <2>8. tracks'[t] = tracks[t]
      BY <2>1, <2>7, UnlinkedRows DEF ChainInv
    <2>9. QED
      BY <2>2, <2>7, <2>8
  <1>6. CASE /\ accounts' = accounts
             /\ \A u \in Ids : tracks'[u].uploader = tracks[u].uploader
    <2>1. CASE notes[t].authorship = "credited"
      BY <1>4, <1>6, <2>1 DEF CreditInv, CreditNamesAnAccount
    <2>2. CASE notes[t].authorship # "credited"
      <3>1. PICK c \in Conns : /\ UpdateSubtitleTrackAuthorship(c)
                               /\ upload[c].req.account = tracks[t].uploader
        BY <1>3, <1>6, <2>2, NoteStep
      <3>2. upload[c].req \in Requests
        BY <3>1, UploadFields DEF UpdateSubtitleTrackAuthorship, At
      <3>3. tracks[t].uploader # None
        BY <3>1, <3>2, RequestFields, NoAccountAssumption DEF None
      <3>4. tracks[t].uploader \in accounts
        BY <3>3 DEF CreditInv, UploadersExist
      <3>5. QED
        BY <1>4, <1>6, <3>4
    <2>3. QED
      BY <2>1, <2>2
  <1>7. QED
    BY <1>2, <1>5, <1>6

\* A track that is credited has an account to credit: no interleaving of a
\* correction with the deletion of its account brings a credit back.
THEOREM CreditsNameAccounts == IngestSpec => []CreditNamesAnAccount
  <1>1. IngestInit => CreditInv
    BY DEF IngestInit, Init, CreditInv, UploadersExist, CreditNamesAnAccount, Ids
  <1>2. ChainInv /\ IngestTypeOK /\ FoundInv /\ CreditInv /\ [IngestNext]_ingestVars
          => CreditInv'
    BY CreditStep
  <1>3. CreditInv => CreditNamesAnAccount
    BY DEF CreditInv
  <1>4. QED
    BY <1>1, <1>2, <1>3, IngestInvariant, ChainInvariant, FoundInvariant, PTL
    DEF IngestSpec

(***************************************************************************)
(* What a text stored twice needs: the duplicate check and the insert are  *)
(* separate store calls, so only a second request with the same text, also *)
(* past its check, can come between them.                                  *)
(***************************************************************************)
\* A request past its duplicate check that has not stored its text yet.
Unstored == {"create", "target", "head", "supersede"}

\* No two of them are about the same text of the same release.
TwinsStandApart ==
  \A c, d \in Conns :
    /\ upload[c].at \in Unstored /\ upload[d].at \in Unstored
    /\ upload[c].req.release = upload[d].req.release
    /\ upload[c].req.payload.body = upload[d].req.payload.body
    => c = d

\* Then what the check found is still so at the insert; and a revision goes
\* where its text was looked for, since its target is of the request's release.
TextIsNew(c) ==
  LET req == upload[c].req IN
  /\ upload[c].at \in Unstored => Identical(req.release, req.payload.body) = {}
  /\ upload[c].at \in {"head", "supersede"} =>
       tracks[req.target].release = req.release

NewTextInv == IdenticalTrackStoredOnce /\ \A c \in Conns : TextIsNew(c)

\* A step that inserts nothing keeps what was looked for away.
LEMMA NothingNew ==
  ASSUME ChainInv, [Next]_vars, Ids' = Ids
  PROVE  /\ IdenticalTrackStoredOnce => IdenticalTrackStoredOnce'
         /\ \A t \in Ids : /\ tracks'[t].release = tracks[t].release
                           /\ tracks'[t].payload = tracks[t].payload
  <1>1. \A t \in Ids : /\ tracks'[t].release = tracks[t].release
                       /\ tracks'[t].payload = tracks[t].payload
    BY PayloadsStay
  <1>2. QED
    BY <1>1 DEF IdenticalTrackStoredOnce

\* A request that goes on, or ends, without an insert.
LEMMA GoesOnNew ==
  ASSUME ChainInv, IngestTypeOK, HumanInv, NewTextInv, [Next]_vars, Ids' = Ids,
         NEW c \in Conns, NEW state, Goto(c, state),
         state.at \in Unstored =>
           Identical(state.req.release, state.req.payload.body) = {},
         state.at \in {"head", "supersede"} =>
           /\ state.req.target \in Ids
           /\ tracks[state.req.target].release = state.req.release
  PROVE  NewTextInv'
  <1>1. upload'[c] = state /\ \A d \in Conns : d # c => upload'[d] = upload[d]
    BY DEF Goto, IngestTypeOK
  <1>2. /\ IdenticalTrackStoredOnce'
        /\ \A t \in Ids : /\ tracks'[t].release = tracks[t].release
                          /\ tracks'[t].payload = tracks[t].payload
    BY NothingNew DEF NewTextInv
  <1>3. TextIsNew(c)'
    BY <1>1, <1>2 DEF TextIsNew, Identical
  <1>4. ASSUME NEW d \in Conns, d # c
        PROVE  TextIsNew(d)'
    <2>1. upload'[d] = upload[d]
      BY <1>1, <1>4
    <2>2. TextIsNew(d) /\ TargetFits(d)
      BY DEF NewTextInv, HumanInv
    <2>3. QED
      BY <1>2, <2>1, <2>2 DEF TextIsNew, TargetFits, At, Identical
  <1>5. QED
    BY <1>2, <1>3, <1>4 DEF NewTextInv

\* No request moves.
LEMMA SameTexts ==
  ASSUME ChainInv, HumanInv, NewTextInv, [Next]_vars, Ids' = Ids, upload' = upload
  PROVE  NewTextInv'
  <1>1. /\ IdenticalTrackStoredOnce'
        /\ \A t \in Ids : /\ tracks'[t].release = tracks[t].release
                          /\ tracks'[t].payload = tracks[t].payload
    BY NothingNew DEF NewTextInv
  <1>2. QED
    BY <1>1 DEF NewTextInv, TextIsNew, HumanInv, TargetFits, At, Identical

\* The insert of a request's text, which no other request is about.
LEMMA InsertNew ==
  ASSUME ChainInv, IngestTypeOK, HumanInv, NewTextInv, TwinsStandApart,
         [Next]_vars, NEW c \in Conns, Goto(c, Done), upload[c].at \in Unstored,
         Ids' = Ids \cup {lastId + 1},
         tracks'[lastId + 1].release = upload[c].req.release,
         tracks'[lastId + 1].payload = upload[c].req.payload
  PROVE  NewTextInv'
  <1> DEFINE new == lastId + 1
             req == upload[c].req
  <1>1. \A d \in Conns : upload'[d].at # "idle" => d # c /\ upload'[d] = upload[d]
    BY DEF Goto, IngestTypeOK, Done
  <1>2. \A t \in Ids : /\ tracks'[t].release = tracks[t].release
                       /\ tracks'[t].payload = tracks[t].payload
    BY PayloadsStay
  <1>3. \A t \in Ids : ~ /\ tracks[t].release = req.release
                         /\ tracks[t].payload.body = req.payload.body
    BY DEF NewTextInv, TextIsNew, Identical
  <1>4. IdenticalTrackStoredOnce'
    BY <1>2, <1>3 DEF NewTextInv, IdenticalTrackStoredOnce
  <1>5. ASSUME NEW d \in Conns
        PROVE  TextIsNew(d)'
    <2>1. TextIsNew(d) /\ TargetFits(d)
      BY DEF NewTextInv, HumanInv
    <2>2. CASE upload'[d].at \notin Unstored
      BY <2>2 DEF TextIsNew, Unstored
    <2>3. CASE upload'[d].at \in Unstored
      <3>1. d # c /\ upload'[d] = upload[d]
        BY <1>1, <2>3 DEF Unstored
      <3>2. ~ /\ upload[d].req.release = req.release
              /\ upload[d].req.payload.body = req.payload.body
        BY <2>3, <3>1 DEF TwinsStandApart
      <3>3. Identical(upload[d].req.release, upload[d].req.payload.body)' = {}
        BY <1>2, <2>1, <2>3, <3>1, <3>2 DEF TextIsNew, Identical
      <3>4. QED
        BY <1>2, <2>1, <3>1, <3>3 DEF TextIsNew, TargetFits, At
    <2>4. QED
      BY <2>2, <2>3
  <1>6. QED
    BY <1>4, <1>5 DEF NewTextInv

LEMMA NewTextStep ==
  ASSUME ChainInv, IngestTypeOK, HumanInv, NewTextInv, TwinsStandApart,
         [IngestNext]_ingestVars
  PROVE  NewTextInv'
  <1>1. [Next]_vars
    BY StoreStep
  <1>2. Done.at = "idle"
    BY DEF Done
  <1>3. ASSUME NEW c \in Conns, Ids' = Ids, NEW state, Goto(c, state),
               state.at \notin Unstored
        PROVE  NewTextInv'
    BY <1>1, <1>3, GoesOnNew DEF Unstored
  <1>4. ASSUME NEW c \in Conns,
               \/ \E req \in Requests : Receive(c, req)
               \/ AnswerDuplicate(c)
               \/ UpdateSubtitleTrackKind(c)
               \/ UpdateSubtitleTrackAuthorship(c)
               \/ BreakOff(c)
        PROVE  NewTextInv'
    <2>1. Ids' = Ids
      BY <1>4 DEF Receive, AnswerDuplicate, UpdateSubtitleTrackKind, Rollback,
                  UpdateSubtitleTrackAuthorship, BreakOff, vars, Ids
    <2>2. AfterKind(upload[c]).at \notin Unstored
      BY <1>2 DEF AfterKind, Unstored
    <2>3. CASE \E req \in Requests : Receive(c, req)
      BY <1>3, <2>1, <2>3 DEF Receive, Unstored
    <2>4. CASE AnswerDuplicate(c)
      BY <1>2, <1>3, <2>1, <2>2, <2>4 DEF AnswerDuplicate, Unstored
    <2>5. CASE UpdateSubtitleTrackKind(c)
      BY <1>3, <2>1, <2>2, <2>5 DEF UpdateSubtitleTrackKind
    <2>6. CASE UpdateSubtitleTrackAuthorship(c) \/ BreakOff(c)
      BY <1>2, <1>3, <2>1, <2>6 DEF UpdateSubtitleTrackAuthorship, BreakOff, Unstored
    <2>7. QED
      BY <1>4, <2>3, <2>4, <2>5, <2>6
  <1>5. ASSUME NEW c \in Conns, FindIdenticalTrack(c)
        PROVE  NewTextInv'
    <2> DEFINE req == upload[c].req
    <2>1. Ids' = Ids
      BY <1>5 DEF FindIdenticalTrack, vars, Ids
    <2>2. CASE \E t : Goto(c, [at |-> "duplicate", req |-> req, found |-> t])
      BY <1>3, <2>1, <2>2 DEF Unstored
    <2>3. ASSUME NEW where \in {"create", "target"},
                 Goto(c, [at |-> where, req |-> req]),
                 Identical(req.release, req.payload.body) = {}
          PROVE  NewTextInv'
      <3> DEFINE state == [at |-> where, req |-> req]
      <3>1. state.at = where /\ state.req = req
        OBVIOUS
      <3> HIDE DEF state
      <3>2. Goto(c, state)
        BY <2>3 DEF state
      <3>3. QED
        BY <1>1, <2>1, <2>3, <3>1, <3>2, GoesOnNew
    <2>4. QED
      BY <1>5, <2>2, <2>3 DEF FindIdenticalTrack
  <1>6. ASSUME NEW c \in Conns, NEW where \in {"head", "create", "supersede"},
               upload[c].at \in Unstored, Ids' = Ids,
               Goto(c, [at |-> where, req |-> upload[c].req]),
               upload[c].req.target \in Ids,
               tracks[upload[c].req.target].release = upload[c].req.release
        PROVE  NewTextInv'
    <2> DEFINE state == [at |-> where, req |-> upload[c].req]
    <2>1. state.at = where /\ state.req = upload[c].req
      OBVIOUS
    <2> HIDE DEF state
    <2>2. Goto(c, state)
      BY <1>6 DEF state
    <2>3. Identical(upload[c].req.release, upload[c].req.payload.body) = {}
      BY <1>6 DEF NewTextInv, TextIsNew
    <2>4. QED
      BY <1>1, <1>6, <2>1, <2>2, <2>3, GoesOnNew
  <1>7. ASSUME NEW c \in Conns, CheckTarget(c)
        PROVE  NewTextInv'
    BY <1>6, <1>7 DEF CheckTarget, vars, Ids, At, Unstored
  <1>8. ASSUME NEW c \in Conns, CheckHead(c)
        PROVE  NewTextInv'
    <2>1. upload[c].at = "head" /\ Ids' = Ids
      BY <1>8 DEF CheckHead, At, vars, Ids
    <2>2. /\ upload[c].req.target \in Ids
          /\ tracks[upload[c].req.target].release = upload[c].req.release
      BY <2>1 DEF NewTextInv, TextIsNew, HumanInv, TargetFits, At
    <2>3. QED
      BY <1>6, <1>8, <2>1, <2>2 DEF CheckHead, Unstored
  <1>9. ASSUME NEW c \in Conns, CreateTrack(c)
        PROVE  NewTextInv'
    <2> DEFINE row == FirstRevision(upload[c].req.release, upload[c].req.account,
                                    upload[c].req.payload)
    <2>1. upload[c].req \in Requests /\ upload[c].at \in Unstored
      BY <1>9, UploadFields DEF CreateTrack, At, Unstored
    <2>2. row \in Row
      BY <2>1, RequestFields, RevisionRows DEF ChainInv
    <2>3. Insert(row) /\ Goto(c, Done)
      BY <1>9 DEF CreateTrack, CreateSubtitleTrack, FirstRevision
    <2>4. row.release = upload[c].req.release /\ row.payload = upload[c].req.payload
      BY DEF FirstRevision
    <2> HIDE DEF row
    <2>5. Ids' = Ids \cup {lastId + 1} /\ tracks'[lastId + 1] = row
      BY <2>2, <2>3, InsertedRows DEF ChainInv, Insert, Ids
    <2>6. QED
      BY <1>1, <2>1, <2>3, <2>4, <2>5, InsertNew
  <1>10. ASSUME NEW c \in Conns, CommitRevision(c)
         PROVE  NewTextInv'
    <2>1. /\ At(c, "supersede") /\ tx[c].op = "supersede" /\ Goto(c, Done)
          /\ Insert(NextRevision(c))
      BY <1>10 DEF CommitRevision, SupersedeCommit, NextRevision
    <2>2. NextRevision(c) \in Row
      BY <2>1, RevisionRows DEF ChainInv
    <2>3. Ids' = Ids \cup {lastId + 1} /\ tracks'[lastId + 1] = NextRevision(c)
      BY <2>1, <2>2, InsertedRows DEF ChainInv, Insert, Ids
    <2>4. tx[c].parent = upload[c].req.target /\ tx[c].payload = upload[c].req.payload
      BY <2>1 DEF HumanInv, SupersedesAsRequested
    <2>5. tracks[upload[c].req.target].release = upload[c].req.release
      BY <2>1 DEF NewTextInv, TextIsNew, At
    <2>6. /\ NextRevision(c).release = upload[c].req.release
          /\ NextRevision(c).payload = upload[c].req.payload
      BY <2>4, <2>5 DEF NextRevision
    <2>7. upload[c].at \in Unstored
      BY <2>1 DEF At, Unstored
    <2>8. QED
      BY <1>1, <2>1, <2>3, <2>6, <2>7, InsertNew
  <1>11. ASSUME NEW c \in Conns, SupersedeTrack(c)
         PROVE  NewTextInv'
    BY <1>1, <1>11, SameTexts DEF SupersedeTrack, SupersedeBegin, Ids
  <1>12. ASSUME Moderate
         PROVE  NewTextInv'
    <2>1. upload' = upload /\ Ids' = Ids
      BY <1>12
      DEF Moderate, UpdateSubtitleTrackKindAsModerator, vars, Ids, WithdrawTrack,
          RestoreTrack, Takedown, Rollback, WithdrawReleaseBegin,
          WithdrawReleaseCommit, WithdrawTracksByUploaderBegin,
          WithdrawTracksByUploaderCommit, RestoreReleaseBegin,
          RestoreReleaseCommit, DeleteAccountWithCredits, DeleteAccount
    <2>2. QED
      BY <1>1, <2>1, SameTexts
  <1>13. CASE UNCHANGED ingestVars
    BY <1>1, <1>13, SameTexts DEF ingestVars, Ids
  <1>14. QED
    BY <1>4, <1>5, <1>7, <1>8, <1>9, <1>10, <1>11, <1>12, <1>13 DEF IngestNext, Serve

\* An identical upload is never stored a second time, for as long as no two
\* uploads of the same text are past their duplicate checks at once: withdrawn
\* rows, revisions and uploads that became tracks of their own included.
THEOREM StoredOnceWithoutOverlap ==
  IngestSpec /\ []TwinsStandApart => []IdenticalTrackStoredOnce
  <1>1. IngestInit => NewTextInv
    BY DEF IngestInit, Init, NewTextInv, IdenticalTrackStoredOnce, TextIsNew,
           Unstored, Ids, Done
  <1>2. ChainInv /\ IngestTypeOK /\ HumanInv /\ NewTextInv /\ TwinsStandApart
          /\ [IngestNext]_ingestVars => NewTextInv'
    BY NewTextStep
  <1>3. NewTextInv => IdenticalTrackStoredOnce
    BY DEF NewTextInv
  <1>4. QED
    BY <1>1, <1>2, <1>3, IngestInvariant, ChainInvariant, HumanInvariant, PTL
    DEF IngestSpec
=============================================================================
