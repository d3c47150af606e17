------------------------------ MODULE Plugin ------------------------------
(* The Stash plugin on its user's machine: the library task (download_all,
   push_all, contribute_all) and the panel's operations on one scene run as
   processes side by side, on captions the user edits as well, against a server
   that may be slow, refuse or fail (plugin/app.go, download.go, push.go,
   contribute.go, sidecar.go, main.go). *)
EXTENDS Naturals, FiniteSets

CONSTANTS Scenes,         \* the library, by id
          Unhashed,       \* scenes Stash has no oshash for
          Langs,          \* base languages
          Offers,         \* [Scenes -> the languages of the best candidate's tracks]
          Settings,       \* [languages, all, replace, token]: plugin settings tried
          MaxAttempts,    \* maxRetry429Attempts
          PageSize,       \* scenes per page and per batch
          MaxProcesses    \* bound: processes started

ASSUME PluginConstants ==
  /\ Scenes \subseteq Nat /\ IsFiniteSet(Scenes) /\ Unhashed \subseteq Scenes
  /\ Offers \in [Scenes -> SUBSET Langs]
  /\ Settings \subseteq [languages : SUBSET Langs, all : BOOLEAN, replace : BOOLEAN, token : BOOLEAN]
  /\ MaxAttempts \in Nat /\ PageSize \in Nat \ {0} /\ MaxProcesses \in Nat

VARIABLES
  disk,        \* [Captions -> what the file at the caption's path is]
  received,    \* <<caption, what it was>>: the sidecars the server was sent
  described,   \* scenes whose details the server was sent
  proc,        \* the library task and the panel's operation
  processes

pluginVars == <<disk, received, described, proc, processes>>

Procs == {"task", "panel"}
Captions == (Scenes \ Unhashed) \X Langs

\* One running process: what it is at, the scenes it has left, the batch it
\* looked up, the scene it is on, the languages of it left to do, its temp file,
\* what it read of a sidecar, and whether the user touched the caption since
\* WriteSidecar looked.
NoProcess == [at |-> "off", mode |-> "none", dry |-> FALSE, scenes |-> {}, batch |-> {},
              scene |-> 0, langs |-> {}, lang |-> "none", tries |-> 0, temp |-> "none", body |-> "none",
              late |-> FALSE, replace |-> FALSE, wanted |-> {}]

PluginInit ==
  /\ disk \in [Captions -> {"none", "mine"}]
  /\ received = {} /\ described = {}
  /\ proc = [p \in Procs |-> NoProcess]
  /\ processes = 0

First(S) == CHOOSE s \in S : \A q \in S : s <= q
Page(S) == {s \in S : Cardinality({q \in S : q < s}) < PageSize}
Caption(p) == <<proc[p].scene, proc[p].lang>>
MoveOn(p, at) == proc' = [proc EXCEPT ![p].at = at]

\* requireUploadToken and download_all's language check refuse; the rest runs.
Allowed(mode, dry, s) ==
  CASE mode = "download" -> s.all \/ s.languages # {}
    [] OTHER -> dry \/ s.token

\* A library task: the whole library, page by page.
StartTask(mode, dry, s) ==
  /\ proc["task"].at = "off" /\ processes < MaxProcesses
  /\ Allowed(mode, dry, s)
  /\ processes' = processes + 1
  /\ proc' = [proc EXCEPT !["task"] =
       [NoProcess EXCEPT !.at = "page", !.mode = mode, !.dry = dry, !.scenes = Scenes, !.replace = s.replace,
                         !.wanted = IF s.all THEN Langs ELSE s.languages]]
  /\ UNCHANGED <<disk, received, described>>

\* The panel's download of one track, which the user chose.
PanelDownload(scene, lang, overwrite) ==
  /\ proc["panel"].at = "off" /\ processes < MaxProcesses
  /\ lang \in Offers[scene]
  /\ processes' = processes + 1
  /\ proc' = [proc EXCEPT !["panel"] =
       [NoProcess EXCEPT !.at = "fetch", !.mode = "download", !.scene = scene, !.lang = lang,
                         !.replace = overwrite, !.tries = MaxAttempts]]
  /\ UNCHANGED <<disk, received, described>>

\* The panel's push of one scene.
PanelPush(scene, s) ==
  /\ proc["panel"].at = "off" /\ processes < MaxProcesses
  /\ Allowed("push", FALSE, s)
  /\ processes' = processes + 1
  /\ proc' = [proc EXCEPT !["panel"] = [NoProcess EXCEPT !.at = "page", !.mode = "push", !.scenes = {scene}]]
  /\ UNCHANGED <<disk, received, described>>

\* FindScenes: the next page, what it holds to work on; an error or the last
\* page ends the process.
NextPage(p, ok) ==
  /\ proc[p].at = "page"
  /\ LET page == Page(proc[p].scenes)
     IN proc' = [proc EXCEPT ![p] =
          IF ~ok \/ page = {} THEN NoProcess
          ELSE [proc[p] EXCEPT !.scenes = proc[p].scenes \ page, !.batch = page \ Unhashed, !.tries = 0,
                         !.at = CASE page \subseteq Unhashed -> "page"
                                  [] proc[p].mode = "download" -> "lookup"
                                  [] proc[p].mode = "push" -> "scene"
                                  [] proc[p].mode = "contribute" -> IF proc[p].dry THEN "page" ELSE "send"]]
  /\ UNCHANGED <<disk, received, described, processes>>

\* One attempt of withRetry429: a 429 is tried again after its wait until the
\* attempts are used up; then, and on any other error, the work is given up.
Attempt(p, answer, done, givenUp) ==
  CASE answer = "ok" -> [done EXCEPT !.tries = 0]
    [] answer = "limited" /\ proc[p].tries < MaxAttempts -> [proc[p] EXCEPT !.tries = @ + 1]
    [] OTHER -> [givenUp EXCEPT !.tries = 0]
Results == {"ok", "limited", "failed"}

\* downloadSceneChunk: one LookupBucketsBatch for the batch.
LookupBatch(p, answer) ==
  /\ proc[p].at = "lookup"
  /\ proc' = [proc EXCEPT ![p] = Attempt(p, answer, [@ EXCEPT !.at = "scene"], [@ EXCEPT !.at = "page"])]
  /\ UNCHANGED <<disk, received, described, processes>>

\* The next scene of the batch: the tracks to download (one per base language
\* that is wanted) or the sidecars that lie next to it.
NextScene(p) ==
  /\ proc[p].at = "scene"
  /\ proc' = [proc EXCEPT ![p] =
       IF proc[p].batch = {} THEN [proc[p] EXCEPT !.at = "page"]
       ELSE LET s == First(proc[p].batch)
            IN [proc[p] EXCEPT !.at = "next", !.batch = proc[p].batch \ {s}, !.scene = s,
                         !.langs = IF proc[p].mode = "download" THEN Offers[s] \cap proc[p].wanted
                                   ELSE {l \in Langs : disk[<<s, l>>] # "none"}]]
  /\ UNCHANGED <<disk, received, described, processes>>

\* downloadTrack's check, before any fetch, and pushScene's stat and read of the
\* file; a dry run only counts.
NextCaption(p) ==
  /\ proc[p].at = "next"
  /\ \/ proc[p].langs = {} /\ MoveOn(p, "scene")
     \/ \E l \in proc[p].langs :
          LET there == disk[<<proc[p].scene, l>>] # "none"
              work == IF proc[p].mode = "download" THEN ~there \/ proc[p].replace ELSE there
              at   == IF ~work \/ proc[p].dry THEN "next"
                      ELSE IF proc[p].mode = "download" THEN "fetch" ELSE "upload"
          IN proc' = [proc EXCEPT ![p] =
               [proc[p] EXCEPT !.langs = proc[p].langs \ {l}, !.lang = l, !.at = at,
                         !.body = IF at = "upload" THEN disk[<<proc[p].scene, l>>] ELSE "none"]]
  /\ UNCHANGED <<disk, received, described, processes>>

\* After one caption, whatever came of it: the task goes on, the panel is done.
Finished(p) == IF p = "panel" /\ proc[p].mode = "download" THEN NoProcess
               ELSE [proc[p] EXCEPT !.at = "next", !.temp = "none", !.body = "none"]

\* GetTrackFor; the panel's download does not retry.
FetchTrack(p, answer) ==
  /\ proc[p].at = "fetch"
  /\ proc' = [proc EXCEPT ![p] = Attempt(p, answer, [@ EXCEPT !.at = "stat"], Finished(p))]
  /\ UNCHANGED <<disk, received, described, processes>>

\* Mutant: the look before the fetch is the only one.
StatSidecar_earlier(p) ==
  /\ proc[p].at = "stat"
  /\ proc' = [proc EXCEPT ![p].at = "write", ![p].temp = "part", ![p].late = FALSE]
  /\ UNCHANGED <<disk, received, described, processes>>

\* WriteSidecar looks again, and refuses to replace a caption unasked.
StatSidecar(p) ==
  /\ proc[p].at = "stat"
  /\ proc' = [proc EXCEPT ![p] = IF disk[Caption(p)] # "none" /\ ~@.replace THEN Finished(p)
                                 ELSE [@ EXCEPT !.at = "write", !.temp = "part", !.late = FALSE]]
  /\ UNCHANGED <<disk, received, described, processes>>

\* Mutant: a body that broke off is moved into place.
WriteTemp_short(p, ok) ==
  /\ proc[p].at = "write"
  /\ proc' = [proc EXCEPT ![p].at = "rename", ![p].temp = IF ok THEN "whole" ELSE "part"]
  /\ UNCHANGED <<disk, received, described, processes>>

\* writeFileAtomic: the body goes to a temp file, which a failure removes.
WriteTemp(p, ok) ==
  /\ proc[p].at = "write"
  /\ proc' = [proc EXCEPT ![p] = IF ok THEN [@ EXCEPT !.at = "rename", !.temp = "whole"] ELSE Finished(p)]
  /\ UNCHANGED <<disk, received, described, processes>>

RenameTemp(p, ok) ==
  /\ proc[p].at = "rename"
  /\ disk' = IF ok THEN [disk EXCEPT ![Caption(p)] = IF proc[p].temp = "whole" THEN "served" ELSE "torn"] ELSE disk
  /\ proc' = [proc EXCEPT ![p] = Finished(p)]
  /\ UNCHANGED <<received, described, processes>>

\* pushScene uploads what it read, whatever became of the file; a lost answer is
\* an error here and a duplicate on the next run.
UploadSidecar(p, answer) ==
  /\ proc[p].at = "upload"
  /\ proc' = [proc EXCEPT ![p] = Attempt(p, answer, Finished(p), Finished(p))]
  /\ received' \in (IF answer = "ok" THEN {} ELSE {received})
                     \cup (IF answer = "limited" THEN {} ELSE {received \cup {<<Caption(p), proc[p].body>>}})
  /\ UNCHANGED <<disk, described, processes>>

\* sendMetadata: one batch of scene details, never retried.
SendMetadata(p, answer) ==
  /\ proc[p].at = "send"
  /\ proc' = [proc EXCEPT ![p] = [@ EXCEPT !.at = "page", !.batch = {}]]
  /\ described' \in {described \cup proc[p].batch} \cup (IF answer = "ok" THEN {} ELSE {described})
  /\ UNCHANGED <<disk, received, processes>>

\* Stop cancels the context, or the process is killed, its temp file left.
StopTask(p) ==
  /\ proc[p].at # "off"
  /\ proc' = [proc EXCEPT ![p] = NoProcess]
  /\ UNCHANGED <<disk, received, described, processes>>

\* The user saves a caption of their own, or deletes one.
UserEdits(c, what) ==
  /\ disk' = [disk EXCEPT ![c] = what]
  /\ proc' = [p \in Procs |-> IF Caption(p) = c /\ proc[p].at \in {"write", "rename"}
                                THEN [proc[p] EXCEPT !.late = TRUE] ELSE proc[p]]
  /\ UNCHANGED <<received, described, processes>>

ProcStep(p) ==
  \/ \E ok \in BOOLEAN : NextPage(p, ok) \/ WriteTemp(p, ok) \/ RenameTemp(p, ok)
  \/ \E answer \in Results : LookupBatch(p, answer) \/ FetchTrack(p, answer) \/ UploadSidecar(p, answer)
                             \/ SendMetadata(p, answer)
  \/ NextScene(p) \/ NextCaption(p) \/ StatSidecar(p)

PluginNext ==
  \/ \E mode \in {"download", "push", "contribute"}, dry \in BOOLEAN, s \in Settings : StartTask(mode, dry, s)
  \/ \E c \in Captions, overwrite \in BOOLEAN : PanelDownload(c[1], c[2], overwrite)
  \/ \E scene \in Scenes \ Unhashed, s \in Settings : PanelPush(scene, s)
  \/ \E p \in Procs : ProcStep(p) \/ StopTask(p)
  \/ \E c \in Captions, what \in {"none", "mine"} : UserEdits(c, what)

PluginSpec == PluginInit /\ [][PluginNext]_pluginVars

(* ---- properties ---- *)

PluginTypeOK ==
  /\ disk \in [Captions -> {"none", "mine", "served"}]
  /\ received \subseteq Captions \X {"mine", "served"} /\ described \subseteq Scenes \ Unhashed
  /\ \A p \in Procs :
       /\ proc[p].at \in {"off", "page", "lookup", "scene", "next", "fetch", "stat", "write", "rename", "upload", "send"}
       /\ proc[p].scenes \cup proc[p].batch \subseteq Scenes
       /\ proc[p].langs \subseteq Langs /\ proc[p].tries \in 0..MaxAttempts
  /\ processes \in 0..MaxProcesses

\* A caption of the user's is replaced only by a process told to overwrite, or
\* when it was saved after WriteSidecar's own look at the disk: what appeared
\* during the lookup, the fetch and its retries is safe (sidecar.go
\* WriteSidecar, download.go downloadTrack).
HandMadeCaptionsStay ==
  [][\A c \in Captions : disk[c] = "mine" /\ disk'[c] = "served" =>
       \E p \in Procs : Caption(p) = c /\ (proc[p].replace \/ proc[p].late)]_pluginVars
=============================================================================
