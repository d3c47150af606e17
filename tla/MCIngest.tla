------------------------------- MODULE MCIngest -------------------------------
(* Ingest for model checking: which uploads are sent, and symmetry.  What     *)
(* uploads do to the chains and what they do to a track's notes share little,  *)
(* so each behaviour plays one of the parts.                                   *)
EXTENDS Ingest, TLC

CONSTANTS Parts    \* the parts that are played

VARIABLE part      \* the part, who uploads in it, and what

partVars == <<ingestVars, part>>

MCPayloads == [body : Bodies, generated : BOOLEAN]

\* Uploads that state nothing but their text, some as revisions.
RevisionRequests ==
  [account : Accounts, release : Releases, payload : MCPayloads,
   target : 0 .. 2, kind : {NotStated}, authorship : {NotStated},
   declares : {FALSE}]

\* Human-made uploads, none a revision, that correct what they re-upload.
CorrectingRequests ==
  [account : Accounts, release : Releases,
   payload : [body : Bodies, generated : {FALSE}], target : {None},
   kind : {NotStated} \cup (Kinds \ {"default"}),
   authorship : {NotStated} \cup (Authorships \ {"uncredited"}),
   declares : BOOLEAN]

\* Human-made uploads that state nothing.
PlainRequests == RevisionRequests \cap CorrectingRequests

MCRequests == RevisionRequests \cup CorrectingRequests

\* Revisions are one account's, corrections are of one text.
PartInit ==
  /\ IngestInit
  /\ part \in      {[name |-> "revisions", by |-> {a}, of |-> Bodies] : a \in Accounts}
              \cup {[name |-> "corrections", by |-> Accounts, of |-> {b}] : b \in Bodies}
              \cup {[name |-> "plain", by |-> {a}, of |-> {b}] : a \in Accounts, b \in Bodies}
  /\ part.name \in Parts

Sent == {upload'[c].req : c \in {d \in Conns : upload'[d] # Done}}

\* One track is corrected; moderators correct a kind only beside requests that
\* do, and only accounts that upload are deleted.
PartNext ==
  /\ IngestNext /\ UNCHANGED part
  /\ \A req \in Sent : req.account \in part.by /\ req.payload.body \in part.of
  /\ \/ part.name = "revisions" /\ Sent \subseteq RevisionRequests
     \/ part.name = "corrections" /\ Sent \subseteq CorrectingRequests /\ lastId' <= 1
     \/ part.name = "plain" /\ Sent \subseteq PlainRequests
  /\ part.name # "corrections" => \A t \in Ids : notes'[t].kind = notes[t].kind
  /\ accounts \ accounts' \subseteq part.by

PartSpec == PartInit /\ [][PartNext]_partVars

Symmetry ==
  Permutations(Conns) \cup Permutations(Accounts) \cup Permutations(Bodies)
=============================================================================
