---------------------------- MODULE TrustScorer -----------------------------
(***************************************************************************)
(* trust.Scorer.Evaluate as the commands run it: one process at a time     *)
(* loads the cache file, asks the package manager for known CVEs,          *)
(* prefetches download counts with a pool of goroutines, scores every      *)
(* package and saves the cache for the next run.  The registry may answer, *)
(* fail or time out; the run may be cancelled (SIGINT) or killed; the      *)
(* clock moves within a run and between runs.                              *)
(***************************************************************************)
EXTENDS TrustCache, FiniteSets

CONSTANTS
  Nodes,        \* the packages to score: a set of <<name, version>>
  Mature,       \* the versions whose major number is at least 1
  Policies,     \* trust policies, see PolicyType
  Concurrency,  \* size of the prefetch pool (30)
  MaxRun,       \* bound on the ticks one run takes
  Corrupt,      \* a cache file that is not valid JSON
  NoAudit,      \* the package manager's audit gave no data
  NoScore,      \* a node not scored (yet)
  NoNode        \* the main goroutine waits for no fetch

ptsHashVerified == 30
ptsMaturity == 15
ptsMaxDownloads == 20
ptsNoCVEs == 15

PolicyType ==
  [auditOnly : BOOLEAN, minScore : 0..80, requireHash : BOOLEAN, failClosed : BOOLEAN]

ASSUME NodesAssumption == Nodes \subseteq Names \X Versions /\ Mature \subseteq Versions
ASSUME PoolAssumption == Concurrency \in Nat \ {0} /\ IsFiniteSet(Names)
ASSUME CorruptAssumption == Corrupt \notin Cache
ASSUME PoliciesAssumption == Policies \subseteq PolicyType
\* A run takes much less than the TTL: no entry it fetched expires before it ends.
ASSUME MaxRunAssumption == MaxRun \in Nat /\ MaxRun <= TTL

VARIABLES
  clock,
  disk,         \* the cache file
  phase,        \* where the main goroutine is in Evaluate
  policy,       \* the trust policy of the run
  hashed,       \* the nodes with an integrity entry in the lockfile
  began,        \* the clock when the run began
  cancelled,    \* the run's context is cancelled
  cache,        \* the TrustCache in memory
  dirty,        \* TrustCache.dirty
  audit,        \* the names with CVEs, or NoAudit
  todo,         \* names whose prefetch has not been started
  sem,          \* tokens in the channel that bounds the pool
  wg,           \* the WaitGroup's counter
  worker,       \* each name's prefetch goroutine
  queue,        \* nodes still to score
  current,      \* the node whose download count is being fetched, or NoNode
  inflight,     \* Scorer.inflight: the fetches begun while scoring
  fetches,      \* history: requests sent per name in this run
  answered,     \* history: names the registry answered in this run
  scores,       \* Scorer.scores
  violations,   \* <<node, rule>>
  outcome       \* how the last run ended

poolVars == <<todo, sem, wg, worker>>
runVars == <<policy, hashed, began>>
vars == <<clock, disk, phase, runVars, cancelled, cache, dirty, audit, poolVars,
          queue, current, inflight, fetches, answered, scores, violations, outcome>>

NameOf(nd) == nd[1]
VersionOf(nd) == nd[2]

Score == [cves : {0, ptsNoCVEs \div 2, ptsNoCVEs},
          downloads : {0, 5, 10, 15, 20},
          skipped : BOOLEAN]

TypeOK ==
  /\ clock \in 0..MaxTime
  /\ disk \in Cache \cup {Corrupt}
  /\ phase \in {"idle", "audit", "prefetch", "score", "done"}
  /\ policy \in Policies
  /\ hashed \in SUBSET Nodes
  /\ began \in 0..MaxTime
  /\ cancelled \in BOOLEAN
  /\ cache \in Cache
  /\ dirty \in BOOLEAN
  /\ audit \in (SUBSET Names) \cup {NoAudit}
  /\ todo \in SUBSET Names
  /\ sem \in 0..Concurrency
  /\ wg \in Nat
  /\ worker \in [Names -> {"none", "fetch", "release", "finish", "gone"}]
  /\ queue \in SUBSET Nodes
  /\ current \in Nodes \cup {NoNode}
  /\ inflight \in [Names -> {"none", "pending", "ok", "failed"}]
  /\ fetches \in [Names -> Nat]
  /\ answered \in SUBSET Names
  /\ scores \in [Nodes -> Score \cup {NoScore}]
  /\ violations \in SUBSET (Nodes \X {"require_hash", "min_score"})
  /\ outcome \in {"none", "ok", "error"}

Init ==
  /\ clock = 0
  /\ disk \in {EmptyCache, OldCache, Corrupt}
  /\ phase = "idle"
  /\ policy \in Policies
  /\ hashed \in SUBSET Nodes
  /\ began = 0
  /\ cache = EmptyCache
  /\ dirty = FALSE
  /\ audit = NoAudit
  /\ todo = {}
  /\ sem = 0
  /\ wg = 0
  /\ worker = [n \in Names |-> "none"]
  /\ queue = {}
  /\ current = NoNode
  /\ inflight = [n \in Names |-> "none"]
  /\ fetches = [n \in Names |-> 0]
  /\ answered = {}
  /\ scores = [nd \in Nodes |-> NoScore]
  /\ violations = {}
  /\ outcome = "none"
  /\ cancelled = FALSE

-----------------------------------------------------------------------------
(* Evaluate up to the prefetch. *)

\* The nodes the first pass rejects, and those it leaves to score.
Unhashed == IF policy.requireHash THEN Nodes \ hashed ELSE {}
ScoreNodes == Nodes \ Unhashed
HashViolations == Unhashed \X {"require_hash"}

Disabled == policy.auditOnly \/ (policy.minScore <= 0 /\ ~policy.requireHash)

Return(res) ==
  /\ phase' = "done"
  /\ outcome' = res

\* The early returns: nothing to evaluate, a cancelled context, only the hash
\* pass, and a cache file that does not parse (which drops the violations).
EvaluateReturnsEarly ==
  /\ phase = "idle"
  /\ \/ /\ Disabled
        /\ Return("ok")
        /\ UNCHANGED violations
     \/ /\ ~Disabled
        /\ cancelled
        /\ Return("error")
        /\ UNCHANGED violations
     \/ /\ ~Disabled
        /\ ~cancelled
        /\ policy.minScore <= 0 \/ ScoreNodes = {}
        /\ Return("ok")
        /\ violations' = HashViolations
     \/ /\ ~Disabled
        /\ ~cancelled
        /\ policy.minScore > 0 /\ ScoreNodes # {}
        /\ disk = Corrupt
        /\ Return("error")
        /\ UNCHANGED violations
  /\ began' = clock
  /\ UNCHANGED <<clock, disk, policy, hashed, cancelled, cache, dirty, audit,
                 poolVars, queue, current, inflight, fetches, answered, scores>>

EvaluateLoadsCache ==
  /\ phase = "idle"
  /\ ~Disabled
  /\ ~cancelled
  /\ policy.minScore > 0 /\ ScoreNodes # {}
  /\ disk # Corrupt
  /\ cache' = disk
  /\ violations' = HashViolations
  /\ queue' = ScoreNodes
  /\ began' = clock
  /\ phase' = "audit"
  /\ UNCHANGED <<clock, disk, policy, hashed, cancelled, dirty, audit, poolVars,
                 current, inflight, fetches, answered, scores, outcome>>

\* fetchAuditCVEs runs the package manager, which a cancelled context kills;
\* then prefetchDownloads picks the names to fetch.
FetchAuditCVEs ==
  /\ phase = "audit"
  /\ audit' \in IF cancelled THEN {NoAudit} ELSE (SUBSET Names) \cup {NoAudit}
  /\ LET names == {n \in {NameOf(nd) : nd \in queue} : ~Fresh(cache, n, clock)}
     IN  /\ todo' = names
         /\ phase' = IF names = {} THEN "score" ELSE "prefetch"
  /\ UNCHANGED <<clock, disk, runVars, cancelled, cache, dirty, sem, wg, worker,
                 queue, current, inflight, fetches, answered, scores, violations, outcome>>

-----------------------------------------------------------------------------
(* prefetchDownloads. *)

unchangedByPool ==
  <<clock, disk, runVars, cancelled, audit, queue, current, inflight, scores,
    violations, outcome>>

\* Mutant: the pool is not bounded.
DispatchUnbounded(n) ==
  /\ phase = "prefetch"
  /\ n \in todo
  /\ todo' = todo \ {n}
  /\ wg' = wg + 1
  /\ sem' = sem + 1
  /\ worker' = [worker EXCEPT ![n] = "fetch"]
  /\ fetches' = [fetches EXCEPT ![n] = @ + 1]
  /\ UNCHANGED <<unchangedByPool, phase, cache, dirty, answered>>

\* wg.Add(1), sem <- struct{}{} (which blocks while the pool is full), go.
Dispatch(n) ==
  /\ phase = "prefetch"
  /\ n \in todo
  /\ sem < Concurrency
  /\ todo' = todo \ {n}
  /\ wg' = wg + 1
  /\ sem' = sem + 1
  /\ worker' = [worker EXCEPT ![n] = "fetch"]
  /\ fetches' = [fetches EXCEPT ![n] = @ + 1]
  /\ UNCHANGED <<unchangedByPool, phase, cache, dirty, answered>>

WorkerAnswered(n, count) ==
  /\ worker[n] = "fetch"
  /\ ~cancelled
  /\ cache' = SetDownloads(cache, n, count, clock, clock)
  /\ dirty' = TRUE
  /\ answered' = answered \cup {n}
  /\ worker' = [worker EXCEPT ![n] = "release"]
  /\ UNCHANGED <<unchangedByPool, phase, todo, sem, wg, fetches>>

\* Mutants: a failed fetch stores nothing, stores a middling count, or leaves
\* without releasing its place in the pool.
WorkerFailedStoresNothing(n) ==
  /\ worker[n] = "fetch"
  /\ worker' = [worker EXCEPT ![n] = "release"]
  /\ UNCHANGED <<unchangedByPool, phase, cache, dirty, todo, sem, wg, fetches, answered>>

WorkerFailedStoresGuess(n) ==
  /\ worker[n] = "fetch"
  /\ cache' = SetDownloads(cache, n, 1000, Never, clock)
  /\ dirty' = TRUE
  /\ worker' = [worker EXCEPT ![n] = "release"]
  /\ UNCHANGED <<unchangedByPool, phase, todo, sem, wg, fetches, answered>>

WorkerFailedKeepsPlace(n) ==
  /\ worker[n] = "fetch"
  /\ cache' = SetDownloads(cache, n, 0, Never, clock)
  /\ dirty' = TRUE
  /\ worker' = [worker EXCEPT ![n] = "gone"]
  /\ UNCHANGED <<unchangedByPool, phase, todo, sem, wg, fetches, answered>>

\* Any error, a timeout or the cancelled context included, stores 0 downloads.
WorkerFailed(n) ==
  /\ worker[n] = "fetch"
  /\ cache' = SetDownloads(cache, n, 0, Never, clock)
  /\ dirty' = TRUE
  /\ worker' = [worker EXCEPT ![n] = "release"]
  /\ UNCHANGED <<unchangedByPool, phase, todo, sem, wg, fetches, answered>>

\* The deferred calls, last first: <-sem, then wg.Done().
WorkerReleases(n) ==
  /\ worker[n] = "release"
  /\ sem' = sem - 1
  /\ worker' = [worker EXCEPT ![n] = "finish"]
  /\ UNCHANGED <<unchangedByPool, phase, todo, wg, cache, dirty, fetches, answered>>

WorkerDone(n) ==
  /\ worker[n] = "finish"
  /\ wg' = wg - 1
  /\ worker' = [worker EXCEPT ![n] = "gone"]
  /\ UNCHANGED <<unchangedByPool, phase, todo, sem, cache, dirty, fetches, answered>>

\* Mutant: scoring begins when the last fetch was started, not when it ended.
PrefetchNotAwaited ==
  /\ phase = "prefetch"
  /\ todo = {}
  /\ phase' = "score"
  /\ UNCHANGED <<unchangedByPool, poolVars, cache, dirty, fetches, answered>>

\* wg.Wait() returns.
PrefetchDone ==
  /\ phase = "prefetch"
  /\ todo = {}
  /\ wg = 0
  /\ phase' = "score"
  /\ UNCHANGED <<unchangedByPool, poolVars, cache, dirty, fetches, answered>>

-----------------------------------------------------------------------------
(* The scoring loop. *)

\* scoreCVEs: the points, and the cache after it.  Audit data is by name only.
\* Without it, what is stored counts: of the version, then of the package.
CVEPoints(nd) ==
  LET n == NameOf(nd) IN
  IF audit # NoAudit THEN IF n \in audit THEN 0 ELSE ptsNoCVEs
  ELSE IF HasVersionCVEs(cache, n, VersionOf(nd)) \/ HasCVEs(cache, n) THEN 0
  ELSE IF cache[n] # NoEntry THEN ptsNoCVEs
  ELSE IF policy.failClosed THEN 0 ELSE ptsNoCVEs \div 2

\* Mutant: the audit's answer is used but not stored.
CacheAfterCVEsNotStored(nd) == cache

CacheAfterCVEs(nd) ==
  IF audit = NoAudit THEN cache
  ELSE SetVersionCVEs(cache, NameOf(nd), VersionOf(nd), NameOf(nd) \in audit, clock)

\* The score without downloads, given the points for CVEs.
Base(nd, cves) ==
  (IF nd \in hashed THEN ptsHashVerified ELSE 0)
    + (IF VersionOf(nd) \in Mature THEN ptsMaturity ELSE 0)
    + cves

Reaches(nd, cves) == Base(nd, cves) + ptsMaxDownloads >= policy.minScore

\* Append the node's score, and a violation when the total is too low.
Record(nd, cves, downloads, skipped) ==
  /\ scores' = [scores EXCEPT ![nd] =
                  [cves |-> cves, downloads |-> downloads, skipped |-> skipped]]
  /\ violations' = violations \cup
       IF Base(nd, cves) + downloads < policy.minScore
         THEN {<<nd, "min_score">>} ELSE {}
  /\ queue' = queue \ {nd}

\* What scoreDownloadsCached returns when its own fetch failed.
Fallback(c, n) ==
  IF c[n] # NoEntry THEN ScoreDownloadsByCount(c[n].dl)
  ELSE IF policy.failClosed THEN 0 ELSE ptsMaxDownloads \div 2

\* What every iteration of the loop does first.
Iteration(nd) ==
  /\ phase = "score"
  /\ current = NoNode
  /\ nd \in queue
  /\ cache' = CacheAfterCVEs(nd)
  /\ dirty' = (dirty \/ audit # NoAudit)
  /\ UNCHANGED <<clock, disk, phase, runVars, cancelled, audit, poolVars, answered, outcome>>

SkipDownloads(nd) ==
  /\ Iteration(nd)
  /\ ~Reaches(nd, CVEPoints(nd))
  /\ Record(nd, CVEPoints(nd), 0, TRUE)
  /\ UNCHANGED <<current, inflight, fetches>>

ScoreFromCache(nd) ==
  /\ Iteration(nd)
  /\ Reaches(nd, CVEPoints(nd))
  /\ Fresh(CacheAfterCVEs(nd), NameOf(nd), clock)
  /\ Record(nd, CVEPoints(nd),
            ScoreDownloadsByCount(CacheAfterCVEs(nd)[NameOf(nd)].dl), FALSE)
  /\ UNCHANGED <<current, inflight, fetches>>

\* The entry expired since the prefetch looked at it.  The first such node
\* fetches the count; later nodes of that name find the finished fetch, which
\* failed (a fetch that succeeded has refreshed the cache).
ScoreFromInflight(nd) ==
  /\ Iteration(nd)
  /\ Reaches(nd, CVEPoints(nd))
  /\ ~Fresh(CacheAfterCVEs(nd), NameOf(nd), clock)
  /\ inflight[NameOf(nd)] = "failed"
  /\ Record(nd, CVEPoints(nd), Fallback(CacheAfterCVEs(nd), NameOf(nd)), FALSE)
  /\ UNCHANGED <<current, inflight, fetches>>

StartInflight(nd) ==
  /\ Iteration(nd)
  /\ Reaches(nd, CVEPoints(nd))
  /\ ~Fresh(CacheAfterCVEs(nd), NameOf(nd), clock)
  /\ inflight[NameOf(nd)] = "none"
  /\ inflight' = [inflight EXCEPT ![NameOf(nd)] = "pending"]
  /\ fetches' = [fetches EXCEPT ![NameOf(nd)] = @ + 1]
  /\ current' = nd
  /\ UNCHANGED <<queue, scores, violations>>

InflightAnswered(count) ==
  /\ current # NoNode
  /\ ~cancelled
  /\ LET n == NameOf(current) IN
       /\ cache' = SetDownloads(cache, n, count, clock, clock)
       /\ inflight' = [inflight EXCEPT ![n] = "ok"]
       /\ answered' = answered \cup {n}
  /\ dirty' = TRUE
  /\ Record(current, CVEPoints(current), ScoreDownloadsByCount(count), FALSE)
  /\ current' = NoNode
  /\ UNCHANGED <<clock, disk, phase, runVars, cancelled, audit, poolVars, fetches, outcome>>

InflightFailed ==
  /\ current # NoNode
  /\ inflight' = [inflight EXCEPT ![NameOf(current)] = "failed"]
  /\ Record(current, CVEPoints(current), Fallback(cache, NameOf(current)), FALSE)
  /\ current' = NoNode
  /\ UNCHANGED <<clock, disk, phase, runVars, cancelled, cache, dirty, audit, poolVars,
                 fetches, answered, outcome>>

\* Mutant: the cache is written in place, so that a write that fails has
\* already truncated the file.
SaveCacheInPlace ==
  /\ phase = "score"
  /\ current = NoNode
  /\ queue = {}
  /\ \/ /\ disk' = IF dirty THEN cache ELSE disk
        /\ dirty' = FALSE
        /\ Return("ok")
        /\ UNCHANGED violations
     \/ /\ dirty
        /\ Return("error")
        /\ violations' = {}
        /\ disk' = Corrupt
        /\ UNCHANGED dirty
  /\ UNCHANGED <<clock, runVars, cancelled, cache, audit, poolVars, queue, current,
                 inflight, fetches, answered, scores>>

\* cache.Save() at the end: nothing to do for a clean cache; a failed write
\* turns the whole result into an error.
SaveCache ==
  /\ phase = "score"
  /\ current = NoNode
  /\ queue = {}
  /\ \/ /\ disk' = IF dirty THEN cache ELSE disk
        /\ dirty' = FALSE
        /\ Return("ok")
        /\ UNCHANGED violations
     \/ /\ dirty
        /\ Return("error")
        /\ violations' = {}
        /\ UNCHANGED <<disk, dirty>>
  /\ UNCHANGED <<clock, runVars, cancelled, cache, audit, poolVars, queue, current,
                 inflight, fetches, answered, scores>>

-----------------------------------------------------------------------------
(* The environment. *)

Running == phase \notin {"idle", "done"}

\* SIGINT cancels the context (main.go), before or during the run.
Cancel ==
  /\ phase # "done"
  /\ ~cancelled
  /\ cancelled' = TRUE
  /\ UNCHANGED <<clock, disk, phase, runVars, cache, dirty, audit, poolVars, queue,
                 current, inflight, fetches, answered, scores, violations, outcome>>

\* The process exits after its run, or is killed in the middle of it; the next
\* one starts with another policy and lockfile.
NextProcess ==
  /\ phase # "idle"
  /\ phase' = "idle"
  /\ policy' \in Policies
  /\ hashed' \in SUBSET Nodes
  /\ began' = 0
  /\ cache' = EmptyCache
  /\ dirty' = FALSE
  /\ audit' = NoAudit
  /\ todo' = {}
  /\ sem' = 0
  /\ wg' = 0
  /\ worker' = [n \in Names |-> "none"]
  /\ queue' = {}
  /\ current' = NoNode
  /\ inflight' = [n \in Names |-> "none"]
  /\ fetches' = [n \in Names |-> 0]
  /\ answered' = {}
  /\ scores' = [nd \in Nodes |-> NoScore]
  /\ violations' = {}
  /\ outcome' = "none"
  /\ cancelled' = FALSE
  /\ UNCHANGED <<clock, disk>>

Tick ==
  /\ clock < MaxTime
  /\ Running => clock < began + MaxRun
  /\ phase # "done"
  /\ clock' = clock + 1
  /\ UNCHANGED <<disk, phase, runVars, cancelled, cache, dirty, audit, poolVars, queue,
                 current, inflight, fetches, answered, scores, violations, outcome>>

-----------------------------------------------------------------------------
Worker(n) ==
  \/ \E c \in Counts : WorkerAnswered(n, c)
  \/ WorkerFailed(n) \/ WorkerReleases(n) \/ WorkerDone(n)

Inflight == (\E c \in Counts : InflightAnswered(c)) \/ InflightFailed

Main ==
  \/ EvaluateReturnsEarly \/ EvaluateLoadsCache \/ FetchAuditCVEs
  \/ \E n \in Names : Dispatch(n)
  \/ PrefetchDone
  \/ \E nd \in Nodes : SkipDownloads(nd) \/ ScoreFromCache(nd)
                         \/ ScoreFromInflight(nd) \/ StartInflight(nd)
  \/ SaveCache

Next ==
  \/ Main \/ Inflight
  \/ \E n \in Names : Worker(n)
  \/ Cancel \/ NextProcess \/ Tick

\* The scheduler runs every goroutine that can run; a request ends because
\* the HTTP client has a ten second timeout, the audit because it is a child
\* process that ends.
Fairness ==
  /\ WF_vars(Main)
  /\ WF_vars(Inflight)
  /\ \A n \in Names : WF_vars(Worker(n))

Spec == Init /\ [][Next]_vars
FairSpec == Spec /\ Fairness

-----------------------------------------------------------------------------
(* Properties. *)

Active == {n \in Names : worker[n] \in {"fetch", "release"}}
Outstanding == {n \in Names : worker[n] \in {"fetch", "release", "finish"}}

\* The channel and the WaitGroup count the goroutines: at most Concurrency
\* requests are in the air, and none is left when the main goroutine scores
\* packages and saves the cache, so no late answer changes what it read.
PoolInv ==
  /\ sem = Cardinality(Active)
  /\ wg = Cardinality(Outstanding)
  /\ phase # "prefetch" => Outstanding = {} /\ todo = {}
  /\ \A n \in todo : worker[n] = "none"
  /\ phase \in {"idle", "audit"} => \A n \in Names : worker[n] = "none"

\* Between the prefetch, the cache and the in-flight table, one run never asks
\* the registry twice for the same package, also when an entry expires between
\* the prefetch that skipped it and the package's turn to be scored.
FetchedOncePerRun == \A n \in Names : fetches[n] <= 1

\* Why: the prefetch and the in-flight table have at most one request per name
\* each, and a name that was prefetched, with or without an answer, has an entry
\* of this run, which does not expire before the run ends, so that scoring does
\* not ask again.
FetchInv ==
  /\ began <= clock
  /\ Running => clock <= began + MaxRun
  /\ \A n \in Names :
       /\ worker[n] = "none" => fetches[n] <= 1
       /\ worker[n] = "none" /\ inflight[n] = "none" => fetches[n] = 0
       /\ worker[n] # "none" => fetches[n] = 1 /\ inflight[n] = "none"
       /\ worker[n] \in {"release", "finish", "gone"} =>
            cache[n] # NoEntry /\ cache[n].at >= began
       /\ inflight[n] # "none" => phase \in {"score", "done"}
  /\ current # NoNode => phase = "score" /\ inflight[NameOf(current)] = "pending"

\* What a cache says of a node: without an audit, CVEs of the package count, too.
SaysCVEs(c, nd) ==
  VersionOf(nd) \in c[NameOf(nd)].bad \/ (audit = NoAudit /\ c[NameOf(nd)].old)

\* The verdict can be recomputed from the file that was saved with it: a node
\* is a min_score violation exactly when the stored count and CVEs leave it
\* below the minimum, also for the nodes whose download count was skipped.
\* (An entry refetched while scoring may have been used before, too.)
SavedCacheExplainsVerdict ==
  phase = "done" /\ outcome = "ok" /\ ~Disabled /\ policy.minScore > 0 =>
    \A nd \in ScoreNodes :
      LET n == NameOf(nd) IN
      /\ disk[n] # NoEntry
      /\ scores[nd].cves = 0 <=> SaysCVEs(disk, nd)
      /\ inflight[n] # "ok" =>
           (<<nd, "min_score">> \in violations <=>
              Base(nd, scores[nd].cves) + ScoreDownloadsByCount(disk[n].dl)
                < policy.minScore)

\* Under fail_closed a package earns download points only for a count the
\* registry did answer, in this run or in the one that filled the cache.
FailClosedEarnsNothing ==
  policy.failClosed =>
    \A nd \in Nodes : scores[nd] # NoScore =>
      (scores[nd].downloads > 0 => EntryOf(cache, NameOf(nd)).asOf # Never)

\* Whatever run is cancelled, killed or fails to save, the cache file never
\* loses a package nor goes back to an older entry.
CacheFileOnlyGrows ==
  [][disk # Corrupt =>
       /\ disk' # Corrupt
       /\ \A n \in Names : disk[n] # NoEntry =>
            disk'[n] # NoEntry /\ disk'[n].at >= disk[n].at]_vars

\* Evaluate always returns: the pool does not block the main goroutine for
\* ever, nor does a fetch that fails.
Terminates == Running ~> ~Running

(* What docs/trust-score.md says of unknown and stale data. *)

Scored(nd) == phase = "score" /\ scores[nd] # NoScore /\ disk # Corrupt

\* "Network failure with no cache -> 10 pts (unknown)" (trust-score.md:111).
UnknownDownloadsEarnHalf ==
  \A nd \in Nodes :
    /\ Scored(nd) /\ ~scores[nd].skipped /\ ~policy.failClosed
    /\ disk[NameOf(nd)] = NoEntry
    /\ NameOf(nd) \notin answered
    => scores[nd].downloads = ptsMaxDownloads \div 2

\* "Network failure with stale cache -> uses stale cache" (trust-score.md:111).
StaleCountUsed ==
  \A nd \in Nodes :
    /\ Scored(nd) /\ ~scores[nd].skipped
    /\ disk[NameOf(nd)] # NoEntry
    /\ NameOf(nd) \notin answered
    => scores[nd].downloads = ScoreDownloadsByCount(disk[NameOf(nd)].dl)

\* "No cache for this version -> 7 pts (unknown)" when the audit failed
\* (trust-score.md:126).
UnknownCVEsEarnHalf ==
  \A nd \in Nodes :
    /\ Scored(nd) /\ ~policy.failClosed /\ audit = NoAudit
    /\ VersionOf(nd) \notin EntryOf(disk, NameOf(nd)).audited
    => scores[nd].cves = ptsNoCVEs \div 2

\* Download counts are "Cached in .scalp/cache/trust.json for 7 days"
\* (trust-score.md:109): a score never rests on an answer older than the TTL,
\* give or take the length of a run.
DownloadsExpire ==
  \A nd \in Nodes :
    LET asOf == cache[NameOf(nd)].asOf IN
    Scored(nd) /\ ~scores[nd].skipped /\ asOf # Never
      => clock <= asOf + TTL + MaxRun
=============================================================================
