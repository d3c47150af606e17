------------------------------- MODULE Stats -------------------------------
(* The server process and its telemetry: requests count in memory, Stats.Run
   flushes the counts to the database on a ticker and once more at shutdown,
   serveCmd drains the open requests and joins Run (internal/api/stats.go,
   internal/store/stats.go, internal/store/trending.go,
   cmd/moansubs/serve.go).  The process can also die at any step. *)
EXTENDS Naturals, FiniteSets

CONSTANTS Requests,       \* the requests of the whole run
          Work,           \* [Requests -> what the request can have to count]
          MaxDay,         \* bound: the days the clock goes through
          Retention,      \* days a download bucket is kept
          MaxUnsure       \* bound: commits whose answer is lost

\* A page view, a lookup, a lookup that hit, a download.
ASSUME StatsConstants == /\ Work \in [Requests -> SUBSET {{"views"}, {"lookups"}, {"lookups", "hits"}, {"download"}}]
                         /\ MaxDay \in Nat /\ Retention \in Nat
                         /\ MaxUnsure \in Nat /\ IsFiniteSet(Requests)

VARIABLES
  open,      \* the requests a handler is running for
  todo,      \* [Requests -> what the handler still has to count]
  served,    \* requests that were accepted at all
  http,      \* what serveCmd's main goroutine is at
  ctxDone,   \* the signal context is cancelled
  run,       \* where Stats.Run is
  last,      \* Run is in its final flush
  swaps,     \* the counters Flush has still to swap
  mem,       \* the counts in the process
  delta,     \* the counts a flush has taken out
  stored,    \* stats and track_download_days
  today,
  late,      \* counted since ctx was cancelled
  refused,   \* the final flush failed
  doubt      \* stored by a commit that reported an error

requestVars == <<open, todo, served>>
serverVars == <<http, ctxDone>>
runVars == <<run, last, swaps, refused>>
ghostVars == <<late, doubt>>
statsVars == <<requestVars, serverVars, runVars, mem, delta, stored, today, ghostVars>>

Views == <<"views", 0>>
Lookups == <<"lookups", 0>>
Hits == <<"hits", 0>>
Day(d) == <<"day", d>>
Counters == {Views, Lookups, Hits}
Days == {Day(d) : d \in 0..MaxDay}
Keys == Counters \cup Days
Nothing == [k \in Keys |-> 0]
Plus(f, g) == [k \in Keys |-> f[k] + g[k]]
Only(f, S) == [k \in Keys |-> IF k \in S THEN f[k] ELSE 0]

CounterOf(what) == CASE what = "views" -> Views
                 [] what = "lookups" -> Lookups
                 [] what = "hits" -> Hits
                 [] what = "download" -> Day(today)

StatsInit ==
  /\ open = {} /\ served = {} /\ todo = [r \in Requests |-> {}]
  /\ http = "serving" /\ ctxDone = FALSE
  /\ run = "wait" /\ last = FALSE /\ swaps = {} /\ refused = FALSE
  /\ mem = Nothing /\ delta = Nothing /\ stored = Nothing
  /\ today = 0
  /\ late = Nothing /\ doubt = Nothing

(* ---- requests ---- *)

\* The listener accepts a request and a handler starts on it.
Accept(r, work) ==
  /\ http = "serving" /\ r \notin served
  /\ open' = open \cup {r} /\ served' = served \cup {r}
  /\ todo' = [todo EXCEPT ![r] = work]
  /\ UNCHANGED <<serverVars, runVars, mem, delta, stored, today, ghostVars>>

\* recordView, record (the lookup first, then the hit) and AddDownload.
Count(r, what) ==
  /\ r \in open /\ what \in todo[r]
  /\ what = "hits" => "lookups" \notin todo[r]
  /\ mem' = [mem EXCEPT ![CounterOf(what)] = @ + 1]
  /\ late' = IF ctxDone THEN [late EXCEPT ![CounterOf(what)] = @ + 1] ELSE late
  /\ todo' = [todo EXCEPT ![r] = @ \ {what}]
  /\ UNCHANGED <<open, served, serverVars, runVars, delta, stored, today, doubt>>

Answer(r) ==
  /\ r \in open /\ todo[r] = {}
  /\ open' = open \ {r}
  /\ UNCHANGED <<todo, served, serverVars, runVars, mem, delta, stored, today, ghostVars>>

(* ---- Stats.Run ---- *)

\* The select loop takes the ticker, or the cancelled context when it is done.
Wake(done) ==
  /\ run = "wait" /\ (done => ctxDone)
  /\ run' = "swap" /\ last' = done /\ swaps' = Counters
  /\ UNCHANGED <<requestVars, serverVars, refused, mem, delta, stored, today, ghostVars>>

\* Flush takes each counter to zero, one atomic swap at a time.
Swap(k) ==
  /\ run = "swap" /\ k \in swaps
  /\ swaps' = swaps \ {k}
  /\ delta' = [delta EXCEPT ![k] = mem[k]]
  /\ mem' = [mem EXCEPT ![k] = 0]
  /\ run' = IF swaps # {k} THEN "swap"
            ELSE IF delta' = Nothing THEN "days" ELSE "merge"
  /\ UNCHANGED <<requestVars, serverVars, last, refused, stored, today, ghostVars>>

\* flushDownloads takes the whole map under its lock.
SwapDays ==
  /\ run = "days"
  /\ delta' = Only(mem, Days)
  /\ mem' = Only(mem, Counters)
  /\ run' = IF delta' = Nothing THEN "prune" ELSE "mergeDays"
  /\ UNCHANGED <<requestVars, serverVars, last, swaps, refused, stored, today, ghostVars>>

Merging == run \in {"merge", "mergeDays"}
\* Mutant: the last flush is over with the counters, the downloads stay.
AfterMerge_counters == IF run = "merge" /\ ~last THEN "days" ELSE "prune"
AfterMerge == IF run = "merge" THEN "days" ELSE "prune"

\* MergeCounters and MergeDownloadDays: one transaction adds every delta.  The
\* ticker's flush runs under ctx and cannot commit once that is cancelled.
MergeOK ==
  /\ Merging /\ (last \/ ~ctxDone)
  /\ stored' = Plus(stored, delta)
  /\ delta' = Nothing
  /\ run' = AfterMerge
  /\ UNCHANGED <<requestVars, serverVars, last, swaps, refused, mem, today, ghostVars>>

\* Mutant: what was taken out overwrites what was counted meanwhile.
MergeFails_over ==
  /\ Merging
  /\ mem' = [k \in Keys |-> IF delta[k] > 0 THEN delta[k] ELSE mem[k]]
  /\ delta' = Nothing
  /\ run' = AfterMerge
  /\ refused' = (refused \/ last)
  /\ UNCHANGED <<requestVars, serverVars, last, swaps, stored, today, ghostVars>>

\* The merge failed: what was taken out goes back in with what is new.
MergeFails ==
  /\ Merging
  /\ mem' = Plus(mem, delta)
  /\ delta' = Nothing
  /\ run' = AfterMerge
  /\ refused' = (refused \/ last)
  /\ UNCHANGED <<requestVars, serverVars, last, swaps, stored, today, ghostVars>>

\* The commit went through and reported an error: stored, and put back.
MergeUnsure ==
  /\ Merging /\ Cardinality({k \in Keys : doubt[k] > 0}) < MaxUnsure
  /\ stored' = Plus(stored, delta)
  /\ doubt' = Plus(doubt, delta)
  /\ mem' = Plus(mem, delta)
  /\ delta' = Nothing
  /\ run' = AfterMerge
  /\ refused' = (refused \/ last)
  /\ UNCHANGED <<requestVars, serverVars, last, swaps, today, late>>

\* pruneDownloads, at most hourly and not after the final flush: the buckets
\* past retention go, unless the sweep is not due or fails.
PruneDownloads ==
  /\ run = "prune"
  /\ stored' \in {stored} \cup
       (IF last THEN {} ELSE {[k \in Keys |-> IF \E d \in 0..MaxDay : k = Day(d) /\ d + Retention < today
                                               THEN 0 ELSE stored[k]]})
  /\ run' = IF last THEN "ended" ELSE "wait"
  /\ UNCHANGED <<requestVars, serverVars, last, swaps, refused, mem, delta, today, ghostVars>>

(* ---- serveCmd ---- *)

\* SIGINT or SIGTERM cancels ctx and Shutdown closes the listener.
Signal ==
  /\ http = "serving"
  /\ ctxDone' = TRUE /\ http' = "draining"
  /\ UNCHANGED <<requestVars, runVars, mem, delta, stored, today, ghostVars>>

\* The listener failed on its own: stop() cancels ctx, nothing is drained.
ListenFails ==
  /\ http = "serving"
  /\ ctxDone' = TRUE /\ http' = "failed"
  /\ UNCHANGED <<requestVars, runVars, mem, delta, stored, today, ghostVars>>

\* Shutdown returns when no request is open, or after its ten seconds.
ShutdownReturns(timeout) ==
  /\ http = "draining" /\ (timeout \/ open = {})
  /\ http' = "drained"
  /\ UNCHANGED <<requestVars, ctxDone, runVars, mem, delta, stored, today, ghostVars>>

\* The process is gone, with what it had not stored.
ProcessEnds ==
  /\ http' = "down" /\ ctxDone' = TRUE
  /\ open' = {} /\ todo' = [r \in Requests |-> {}]
  /\ run' = "ended" /\ swaps' = {}
  /\ mem' = Nothing /\ delta' = Nothing
  /\ UNCHANGED <<served, last, refused, stored, today, late, doubt>>

\* statsWG.Wait, then the deferred Close: the orderly end.
Exit ==
  /\ http \in {"drained", "failed"} /\ run = "ended"
  /\ ProcessEnds

Crash ==
  /\ http # "down"
  /\ ProcessEnds

Restart ==
  /\ http = "down" /\ served # Requests
  /\ http' = "serving" /\ ctxDone' = FALSE
  /\ run' = "wait" /\ last' = FALSE /\ refused' = FALSE
  /\ late' = Nothing
  /\ UNCHANGED <<requestVars, swaps, mem, delta, stored, today, doubt>>

DayPasses ==
  /\ today < MaxDay
  /\ today' = today + 1
  /\ UNCHANGED <<requestVars, serverVars, runVars, mem, delta, stored, ghostVars>>

StatsNext ==
  \/ \E r \in Requests : \/ \E work \in Work[r] : Accept(r, work)
                         \/ \E what \in {"views", "lookups", "hits", "download"} : Count(r, what)
                         \/ Answer(r)
  \/ \E done \in BOOLEAN : Wake(done)
  \/ \E k \in Counters : Swap(k)
  \/ SwapDays \/ MergeOK \/ MergeFails \/ MergeUnsure \/ PruneDownloads
  \/ Signal \/ ListenFails \/ Exit \/ Crash \/ Restart
  \/ \E timeout \in BOOLEAN : ShutdownReturns(timeout)
  \/ DayPasses

StatsSpec == StatsInit /\ [][StatsNext]_statsVars

(* ---- properties ---- *)

StatsTypeOK ==
  /\ open \subseteq served /\ served \subseteq Requests
  /\ todo \in [Requests -> SUBSET {"views", "lookups", "hits", "download"}]
  /\ http \in {"serving", "draining", "drained", "failed", "down"}
  /\ ctxDone \in BOOLEAN /\ last \in BOOLEAN /\ refused \in BOOLEAN
  /\ run \in {"wait", "swap", "merge", "days", "mergeDays", "prune", "ended"}
  /\ swaps \subseteq Counters
  /\ \A f \in {mem, delta, stored, late, doubt} : f \in [Keys -> Nat]
  /\ today \in 0..MaxDay

\* A final flush the database accepts leaves behind only what was counted after
\* the signal: nothing of the period before it is lost, whatever flush was
\* under way when the signal came (stats.go Run).
EarlierCountsFlushed ==
  run = "ended" /\ http # "down" /\ ~refused =>
    \A k \in Keys : mem[k] + delta[k] <= late[k]

\* The node's counts behave as the tally: each waits in memory or in a flush,
\* is stored once, and is lost only with its process.
Abstract == INSTANCE Tally
              WITH TallyKeys <- Keys, Expirable <- Days,
                   waiting <- Plus(mem, delta), kept <- stored
StatsRefinesTally == Abstract!TallySpec

RunStep == (\E k \in Counters : Swap(k)) \/ SwapDays \/ MergeOK \/ MergeFails \/ PruneDownloads

\* Every request is over: what they counted is to leave memory.
AllServed == served = Requests /\ open = {}
NothingHeld == mem = Nothing /\ delta = Nothing
=============================================================================
