---------------------------- MODULE MCBackground ----------------------------
(* What runs beside the requests, on a small instance: the telemetry of the  *)
(* server process through flushes, shutdown, crashes and restarts, the       *)
(* stash-box sweep, the plugin's library tasks, and the migrations when the  *)
(* store is opened.  They share no state, so each behaviour plays one part;  *)
(* the fairness is the scheduling of its own processes.                      *)
EXTENDS Stats, Sweep, Plugin, Migrate, TLC

CONSTANTS r1, r2

VARIABLE part

backgroundVars == <<statsVars, sweepVars, pluginVars, migrateVars, part>>

\* A page view beside another, or beside a download.
MCWork == r1 :> {{"download"}, {"views"}} @@ r2 :> {{"views"}}

MCSweepOptions ==
  {[skip |-> {}, dry |-> FALSE, proposes |-> TRUE],
   [skip |-> {2}, dry |-> FALSE, proposes |-> FALSE],
   [skip |-> {}, dry |-> TRUE, proposes |-> TRUE]}

MCOffers == 1 :> {"de"} @@ 2 :> {"en"}
MCSettings ==
  {[languages |-> {}, all |-> TRUE, replace |-> FALSE, token |-> TRUE],
   [languages |-> {"en"}, all |-> FALSE, replace |-> TRUE, token |-> FALSE]}

\* A replica of an older build beside one of the newest.
MCKnown == "old" :> 1 @@ "new" :> 2

BackgroundInit ==
  /\ part \in {"stats", "sweep", "plugin", "migrate"}
  /\ StatsInit /\ SweepInit /\ PluginInit /\ MigrateInit
  /\ part # "migrate" => recorded = {}
  /\ part # "plugin" => disk = [c \in Captions |-> "none"]

InStats(A) == part = "stats" /\ A /\ UNCHANGED <<sweepVars, pluginVars, migrateVars, part>>
InSweep(A) == part = "sweep" /\ A /\ UNCHANGED <<statsVars, pluginVars, migrateVars, part>>
\* The user edits the caption the server has something for; the other one lies
\* there or not.
InPlugin(A) == part = "plugin" /\ A /\ disk'[<<2, "de">>] = disk[<<2, "de">>] /\ UNCHANGED <<statsVars, sweepVars, migrateVars, part>>
InMigrate(A) == part = "migrate" /\ A /\ UNCHANGED <<statsVars, sweepVars, pluginVars, part>>

BackgroundNext ==
  InStats(StatsNext) \/ InSweep(SweepNext) \/ InPlugin(PluginNext) \/ InMigrate(MigrateNext)

\* The goroutine of Stats.Run is scheduled, so is the main goroutine, and a
\* select that keeps finding ctx done takes it in the end; the database does
\* not refuse every flush; the sweep, the plugin's processes and those that
\* open the store are scheduled, and a free advisory lock is granted.
BackgroundFairness ==
  /\ WF_backgroundVars(InStats(\E done \in BOOLEAN : Wake(done)))
  /\ SF_backgroundVars(InStats(Wake(TRUE)))
  /\ WF_backgroundVars(InStats(RunStep))
  /\ SF_backgroundVars(InStats(MergeOK))
  /\ WF_backgroundVars(InStats(\E timeout \in BOOLEAN : ShutdownReturns(timeout)))
  /\ WF_backgroundVars(InStats(Exit))
  /\ WF_backgroundVars(InSweep(SweepStep))
  /\ \A p \in Procs : WF_backgroundVars(InPlugin(ProcStep(p)))
  /\ \A p \in Replicas : WF_backgroundVars(InMigrate(OpenStep(p)))
  /\ \A p \in Replicas : SF_backgroundVars(InMigrate(AdvisoryLock(p)))

BackgroundSpec == BackgroundInit /\ [][BackgroundNext]_backgroundVars /\ BackgroundFairness

\* The variables of every part have their types.
BackgroundTypeOK == StatsTypeOK /\ SweepTypeOK /\ PluginTypeOK /\ MigrateTypeOK

\* What survives a stop at any step: matches that were recorded, and the schema.
StopsLeaveNoHalves == MatchesAreKept /\ MigrationsHold

\* What is pending in each part, and its end.  A behaviour plays one part, so
\* two leads-to speak of all of it: the server's shutdown, the sweep and the
\* library task; the counts of the requests, and the panel's operation.  Of
\* those who open the store, one of the old build and one of the new.
Opener(w) == opener[IF w = "task" THEN "old" ELSE "new"].at
Pending(w) ==
  \/ part = "stats" /\ IF w = "task" THEN ctxDone ELSE AllServed
  \/ part = "sweep" /\ w = "task" /\ sweep.at # "off"
  \/ part = "plugin" /\ proc[w].at # "off"
  \/ part = "migrate" /\ Opener(w) \notin {"off", "open", "failed"}
Over(w) ==
  \/ part = "stats" /\ IF w = "task" THEN http = "down" ELSE NothingHeld
  \/ part = "sweep" /\ sweep.at = "off"
  \/ part = "plugin" /\ proc[w].at = "off"
  \/ part = "migrate" /\ Opener(w) \in {"open", "failed"}

\* What is under way ends, whatever the database, the box, the server and the
\* requests do.  A process told to stop does stop (serve.go serveCmd); once the
\* last request is over all that was counted leaves memory, by way of a flush
\* or with its process, and no count stays behind in a flush that failed
\* (stats.go Flush, flushDownloads); a box that keeps saying 429 is given up on
\* and any other answer moves the sweep on (stashbox.go runBackfill); a task
\* ends however often the server says 429 (app.go withRetry429); whoever opens
\* the store has it or fails, whoever else waits for the lock (migrate.go).
WorkEnds == \A w \in Procs : Pending(w) ~> Over(w)
=============================================================================
