-------------------------- MODULE TrustScorerProofs -------------------------
(***************************************************************************)
(* Proofs about TrustScorer, for any number of packages, any size of the   *)
(* pool and any policies: the type invariant, the invariant of the pool,   *)
(* that one run never asks the registry twice for the same package, that   *)
(* the cache file only grows, that it explains the verdict that was saved  *)
(* with it, and that under fail_closed only a count that the registry      *)
(* answered earns points.                                                  *)
(***************************************************************************)
EXTENDS TrustScorer, FiniteSetTheorems, TLAPS

\* The inductive invariant: the types, the counting of the pool, and what was
\* fetched in this run.
Inv == TypeOK /\ PoolInv /\ FetchInv

\* The entries that SetDownloads and SetVersionCVEs make are entries, and not
\* the value for a missing one.
LEMMA EntryOfTyped ==
  ASSUME NEW c \in Cache, NEW n \in Names
  PROVE  EntryOf(c, n) \in Entry
BY TimeAssumption DEF EntryOf, ZeroEntry, Cache, Entry

\* A cache that an earlier scalp left has entries without a count, of time 0.
LEMMA OldCacheTyped ==
  /\ OldCache \in Cache
  /\ \A n \in Names : OldCache[n].at = 0 /\ OldCache[n].dl = 0
<1>1. OldEntry \in Entry /\ OldEntry.at = 0 /\ OldEntry.dl = 0
  BY TimeAssumption DEF OldEntry, Entry
<1> QED
  BY <1>1 DEF OldCache, Cache

\* SetDownloads makes a cache whose entry is of this moment,
LEMMA SetDownloadsTyped ==
  ASSUME NEW c \in Cache, NEW n \in Names, NEW count \in Counts \cup {0},
         NEW asOf \in (0..MaxTime) \cup {Never}, NEW now \in 0..MaxTime
  PROVE  LET d == SetDownloads(c, n, count, asOf, now) IN
         /\ d \in Cache
         /\ d[n] # NoEntry /\ d[n].at = now
         /\ \A m \in Names : m # n => d[m] = c[m]
<1> DEFINE e == [EntryOf(c, n) EXCEPT !.at = now, !.dl = count, !.asOf = asOf]
<1>1. e \in Entry /\ e.at = now
  BY EntryOfTyped DEF Entry
<1>2. e # NoEntry
  BY <1>1, EntryAssumption
<1>3. SetDownloads(c, n, count, asOf, now) = [c EXCEPT ![n] = e]
  BY DEF SetDownloads
<1> HIDE DEF e
<1> QED
  BY <1>1, <1>2, <1>3 DEF Cache

\* and so does SetVersionCVEs.
LEMMA SetVersionCVEsTyped ==
  ASSUME NEW c \in Cache, NEW n \in Names, NEW v \in Versions,
         NEW bad, NEW now \in 0..MaxTime
  PROVE  LET d == SetVersionCVEs(c, n, v, n \in bad, now) IN
         /\ d \in Cache
         /\ d[n] # NoEntry /\ d[n].at = now
         /\ \A m \in Names : m # n => d[m] = c[m]
<1> DEFINE d == SetVersionCVEs(c, n, v, n \in bad, now)
           old == EntryOf(c, n)
           e == [old EXCEPT !.at = now, !.audited = @ \cup {v},
                            !.bad = IF n \in bad THEN @ \cup {v} ELSE @ \ {v}]
<1>1. old \in Entry
  BY EntryOfTyped
<1>2. d = [c EXCEPT ![n] = e]
  BY DEF SetVersionCVEs
<1>3. e \in Entry /\ e.at = now
  <2> HIDE DEF old
  <2> QED
    BY <1>1 DEF Entry
<1>4. e # NoEntry
  BY <1>3, EntryAssumption
<1> HIDE DEF e, d
<1>5. d \in Cache /\ d[n] # NoEntry /\ d[n].at = now /\ \A m \in Names : m # n => d[m] = c[m]
  BY <1>2, <1>3, <1>4 DEF Cache
<1> QED
  BY <1>5 DEF d

\* A cache of this run stays one when the audit of a node is stored: entries of
\* this run stay entries of this run.
LEMMA CacheAfterCVEsTyped ==
  ASSUME TypeOK, began <= clock, NEW nd \in Nodes
  PROVE  /\ CacheAfterCVEs(nd) \in Cache
         /\ \A n \in Names : cache[n] # NoEntry /\ cache[n].at >= began =>
              /\ CacheAfterCVEs(nd)[n] # NoEntry
              /\ CacheAfterCVEs(nd)[n].at >= began
<1>1. NameOf(nd) \in Names /\ VersionOf(nd) \in Versions
  BY NodesAssumption DEF NameOf, VersionOf
<1>2. CASE audit = NoAudit
  <2>1. CacheAfterCVEs(nd) = cache /\ cache \in Cache
    BY <1>2 DEF CacheAfterCVEs, TypeOK
  <2> QED
    BY <2>1
<1>3. CASE audit # NoAudit
  <2> DEFINE d == SetVersionCVEs(cache, NameOf(nd), VersionOf(nd),
                                 NameOf(nd) \in audit, clock)
  <2>1. /\ d \in Cache
        /\ d[NameOf(nd)] # NoEntry /\ d[NameOf(nd)].at = clock
        /\ \A m \in Names : m # NameOf(nd) => d[m] = cache[m]
    <3>1. cache \in Cache /\ clock \in 0..MaxTime
      BY DEF TypeOK
    <3> QED
      BY <1>1, <3>1, SetVersionCVEsTyped
  <2>2. CacheAfterCVEs(nd) = d
    BY <1>3 DEF CacheAfterCVEs
  <2> HIDE DEF d
  <2> QED
    BY <1>1, <2>1, <2>2
<1> QED
  BY <1>2, <1>3

\* Counting the goroutines: a set of names is finite, and gains or loses one.
LEMMA NamesFinite ==
  ASSUME NEW S \in SUBSET Names
  PROVE  IsFiniteSet(S) /\ Cardinality(S) \in Nat
BY PoolAssumption, FS_Subset, FS_CardinalityType

\* A goroutine that starts is one more,
LEMMA OneMore ==
  ASSUME NEW S \in SUBSET Names, NEW n \in Names, n \notin S
  PROVE  Cardinality(S \cup {n}) = Cardinality(S) + 1
BY NamesFinite, FS_AddElement

\* and one that ends is one less.
LEMMA OneLess ==
  ASSUME NEW S \in SUBSET Names, NEW n \in S
  PROVE  Cardinality(S \ {n}) = Cardinality(S) - 1 /\ Cardinality(S \ {n}) \in Nat
<1>1. S \ {n} \in SUBSET Names
  OBVIOUS
<1> QED
  BY <1>1, NamesFinite, FS_RemoveElement

\* Scoring a node records its points and, when they are too few, a violation.
LEMMA RecordTyped ==
  ASSUME TypeOK, NEW nd \in Nodes, NEW downloads \in {0, 5, 10, 15, 20},
         NEW skipped \in BOOLEAN, Record(nd, CVEPoints(nd), downloads, skipped)
  PROVE  /\ scores' \in [Nodes -> Score \cup {NoScore}]
         /\ violations' \in SUBSET (Nodes \X {"require_hash", "min_score"})
         /\ queue' \in SUBSET Nodes
<1>1. CVEPoints(nd) \in {0, ptsNoCVEs \div 2, ptsNoCVEs}
  BY DEF CVEPoints
<1> DEFINE r == [cves |-> CVEPoints(nd), downloads |-> downloads, skipped |-> skipped]
<1>2. r \in Score /\ scores' = [scores EXCEPT ![nd] = r]
  BY <1>1 DEF Score, Record
<1> HIDE DEF r
<1>3. scores' \in [Nodes -> Score \cup {NoScore}]
  BY <1>2 DEF TypeOK
<1>4. violations' \in SUBSET (Nodes \X {"require_hash", "min_score"})
  BY DEF Record, TypeOK
<1>5. queue' \in SUBSET Nodes
  BY DEF Record, TypeOK
<1> QED
  BY <1>3, <1>4, <1>5

\* The points for downloads are the five steps of the table,
LEMMA DownloadPoints ==
  ASSUME NEW count
  PROVE  ScoreDownloadsByCount(count) \in {0, 5, 10, 15, 20}
BY DEF ScoreDownloadsByCount

\* and so are those for a count that could not be fetched.
LEMMA FallbackPoints ==
  ASSUME NEW c, NEW n
  PROVE  Fallback(c, n) \in {0, 5, 10, 15, 20}
BY DownloadPoints DEF Fallback, ptsMaxDownloads

\* The initial states.
LEMMA InitInv == Init => Inv
<1> SUFFICES ASSUME Init PROVE Inv
  OBVIOUS
<1>1. EmptyCache \in Cache /\ OldCache \in Cache
  BY OldCacheTyped DEF EmptyCache, Cache
<1>2. TypeOK
  <2>1. /\ inflight \in [Names -> {"none", "pending", "ok", "failed"}]
        /\ worker \in [Names -> {"none", "fetch", "release", "finish", "gone"}]
        /\ fetches \in [Names -> Nat]
        /\ scores \in [Nodes -> Score \cup {NoScore}]
    BY DEF Init
  <2>2. clock \in 0..MaxTime /\ began \in 0..MaxTime /\ sem \in 0..Concurrency /\ wg \in Nat
    BY TimeAssumption, PoolAssumption DEF Init
  <2> QED
    BY <1>1, <2>1, <2>2 DEF Init, TypeOK
<1>3. Active = {} /\ Outstanding = {}
  BY DEF Init, Active, Outstanding
<1>4. PoolInv
  BY <1>3, FS_EmptySet DEF Init, PoolInv
<1>5. FetchInv
  BY DEF Init, FetchInv, Running
<1> QED
  BY <1>2, <1>4, <1>5 DEF Inv

\* A step that leaves the pool and its phase alone preserves its invariant.
LEMMA PoolUndisturbed ==
  ASSUME PoolInv, UNCHANGED poolVars,
         phase' = phase \/ (phase = "idle" /\ phase' \in {"audit", "done"})
           \/ (phase = "score" /\ phase' = "done")
  PROVE  PoolInv'
<1>1. Active' = Active /\ Outstanding' = Outstanding
  BY DEF Active, Outstanding, poolVars
<1> QED
  BY <1>1 DEF PoolInv, poolVars

\* The early returns, loading the cache and starting the audit.
LEMMA BeforePrefetch ==
  ASSUME Inv, EvaluateReturnsEarly \/ EvaluateLoadsCache
  PROVE  Inv'
<1> USE DEF Inv
<1>1. HashViolations \in SUBSET (Nodes \X {"require_hash", "min_score"})
  BY DEF HashViolations, Unhashed
<1>2. CASE EvaluateReturnsEarly
  <2>1. TypeOK'
    BY <1>1, <1>2 DEF EvaluateReturnsEarly, Return, TypeOK, poolVars
  <2>2. PoolInv'
    BY <1>2, PoolUndisturbed DEF EvaluateReturnsEarly, Return
  <2>3. FetchInv'
    BY <1>2 DEF EvaluateReturnsEarly, Return, FetchInv, Running, TypeOK, PoolInv, poolVars
  <2> QED
    BY <2>1, <2>2, <2>3
<1>3. CASE EvaluateLoadsCache
  <2>1. TypeOK'
    BY <1>1, <1>3 DEF EvaluateLoadsCache, ScoreNodes, TypeOK, poolVars
  <2>2. PoolInv'
    BY <1>3, PoolUndisturbed DEF EvaluateLoadsCache
  <2>3. FetchInv'
    BY <1>3, MaxRunAssumption, TimeAssumption
       DEF EvaluateLoadsCache, FetchInv, Running, TypeOK, PoolInv, poolVars
  <2> QED
    BY <2>1, <2>2, <2>3
<1> QED
  BY <1>2, <1>3

\* The audit is asked once, and its end starts the prefetch.
LEMMA AuditStep ==
  ASSUME Inv, FetchAuditCVEs
  PROVE  Inv'
<1> USE DEF Inv
<1>1. {NameOf(nd) : nd \in queue} \subseteq Names
  BY NodesAssumption DEF TypeOK, NameOf
<1>2. TypeOK'
  BY <1>1 DEF FetchAuditCVEs, TypeOK, runVars
<1>3. PoolInv'
  <2>1. Active' = Active /\ Outstanding' = Outstanding
    BY DEF FetchAuditCVEs, Active, Outstanding
  <2> QED
    BY <1>1, <2>1 DEF FetchAuditCVEs, PoolInv
<1>4. FetchInv'
  BY DEF FetchAuditCVEs, FetchInv, Running, TypeOK, PoolInv, runVars
<1> QED
  BY <1>2, <1>3, <1>4

-----------------------------------------------------------------------------
(* The pool. *)

\* A goroutine is started for a name that has none, and takes a place.
LEMMA DispatchStep ==
  ASSUME Inv, NEW n \in Names, Dispatch(n)
  PROVE  Inv'
<1> USE DEF Inv
<1>1. /\ n \notin Active /\ Active' = Active \cup {n}
      /\ n \notin Outstanding /\ Outstanding' = Outstanding \cup {n}
  <2>1. worker[n] = "none"
    BY DEF Dispatch, PoolInv
  <2> QED
    BY <2>1 DEF Dispatch, Active, Outstanding, TypeOK
<1>2. sem' = Cardinality(Active') /\ wg' = Cardinality(Outstanding')
  <2>1. Active \in SUBSET Names /\ Outstanding \in SUBSET Names
    BY DEF Active, Outstanding
  <2> QED
    BY <1>1, <2>1, OneMore DEF Dispatch, PoolInv
<1>3. TypeOK'
  BY PoolAssumption DEF Dispatch, TypeOK, unchangedByPool, runVars
<1>4. PoolInv'
  <2>1. phase' = "prefetch"
    BY DEF Dispatch
  <2>2. \A m \in todo' : worker'[m] = "none"
    BY DEF Dispatch, PoolInv, TypeOK
  <2> QED
    BY <1>2, <2>1, <2>2 DEF PoolInv
<1>5. FetchInv'
  <2>1. worker[n] = "none" /\ inflight[n] = "none" /\ fetches[n] = 0
    BY DEF Dispatch, PoolInv, FetchInv
  <2> QED
    BY <2>1 DEF Dispatch, FetchInv, Running, TypeOK, unchangedByPool, runVars
<1> QED
  BY <1>3, <1>4, <1>5

\* An answer, or the 0 of a failure, is in the cache before the place is free.
LEMMA FetchEnds ==
  ASSUME Inv, NEW n \in Names,
         (\E count \in Counts : WorkerAnswered(n, count)) \/ WorkerFailed(n)
  PROVE  Inv'
<1> USE DEF Inv
<1>1. /\ worker[n] = "fetch"
      /\ worker' = [worker EXCEPT ![n] = "release"]
      /\ dirty' = TRUE
      /\ answered' \in SUBSET Names
      /\ UNCHANGED <<unchangedByPool, phase, todo, sem, wg, fetches>>
  BY DEF WorkerAnswered, WorkerFailed, TypeOK
<1>2. /\ cache' \in Cache
      /\ cache'[n] # NoEntry /\ cache'[n].at = clock
      /\ \A m \in Names : m # n => cache'[m] = cache[m]
  <2>1. PICK count \in Counts \cup {0}, asOf \in (0..MaxTime) \cup {Never} :
          cache' = SetDownloads(cache, n, count, asOf, clock)
    BY DEF WorkerAnswered, WorkerFailed, TypeOK
  <2> QED
    BY <2>1, SetDownloadsTyped DEF TypeOK
<1>3. TypeOK'
  BY <1>1, <1>2 DEF TypeOK, unchangedByPool, runVars
<1>4. PoolInv'
  <2>1. Active' = Active /\ Outstanding' = Outstanding
    BY <1>1 DEF Active, Outstanding, TypeOK
  <2> QED
    BY <1>1, <2>1 DEF PoolInv, TypeOK
<1>5. FetchInv'
  BY <1>1, <1>2 DEF FetchInv, Running, TypeOK, unchangedByPool, runVars
<1> QED
  BY <1>3, <1>4, <1>5

\* A goroutine leaves the semaphore,
LEMMA ReleaseStep ==
  ASSUME Inv, NEW n \in Names, WorkerReleases(n)
  PROVE  Inv'
<1> USE DEF Inv
<1>1. n \in Active /\ Active' = Active \ {n} /\ Outstanding' = Outstanding
  BY DEF WorkerReleases, Active, Outstanding, TypeOK
<1>2. sem' = Cardinality(Active') /\ sem' \in Nat
  <2>1. Active \in SUBSET Names
    BY DEF Active
  <2> QED
    BY <1>1, <2>1, OneLess DEF WorkerReleases, PoolInv
<1>3. TypeOK'
  BY <1>2, PoolAssumption DEF WorkerReleases, TypeOK, unchangedByPool, runVars
<1>4. PoolInv'
  BY <1>1, <1>2 DEF WorkerReleases, PoolInv, TypeOK
<1>5. FetchInv'
  BY DEF WorkerReleases, FetchInv, Running, TypeOK, unchangedByPool, runVars
<1> QED
  BY <1>3, <1>4, <1>5

\* and then the wait group.
LEMMA DoneStep ==
  ASSUME Inv, NEW n \in Names, WorkerDone(n)
  PROVE  Inv'
<1> USE DEF Inv
<1>1. n \in Outstanding /\ Active' = Active /\ Outstanding' = Outstanding \ {n}
  BY DEF WorkerDone, Active, Outstanding, TypeOK
<1>2. wg' = Cardinality(Outstanding') /\ wg' \in Nat
  <2>1. Outstanding \in SUBSET Names
    BY DEF Outstanding
  <2> QED
    BY <1>1, <2>1, OneLess DEF WorkerDone, PoolInv
<1>3. TypeOK'
  BY <1>2 DEF WorkerDone, TypeOK, unchangedByPool, runVars
<1>4. PoolInv'
  BY <1>1, <1>2 DEF WorkerDone, PoolInv, TypeOK
<1>5. FetchInv'
  BY DEF WorkerDone, FetchInv, Running, TypeOK, unchangedByPool, runVars
<1> QED
  BY <1>3, <1>4, <1>5

\* The wait group is 0 only when no goroutine is left.
LEMMA PrefetchDoneStep ==
  ASSUME Inv, PrefetchDone
  PROVE  Inv'
<1> USE DEF Inv
<1>1. Active' = Active /\ Outstanding' = Outstanding /\ Outstanding = {}
  <2>1. IsFiniteSet(Outstanding)
    BY NamesFinite DEF Outstanding
  <2>2. Cardinality(Outstanding) = 0
    BY DEF PrefetchDone, PoolInv
  <2> QED
    BY <2>1, <2>2, FS_EmptySet DEF PrefetchDone, Active, Outstanding, poolVars
<1>2. TypeOK'
  BY DEF PrefetchDone, TypeOK, unchangedByPool, poolVars, runVars
<1>3. PoolInv'
  BY <1>1 DEF PrefetchDone, PoolInv, poolVars
<1>4. FetchInv'
  BY DEF PrefetchDone, FetchInv, Running, TypeOK, unchangedByPool, poolVars, runVars
<1> QED
  BY <1>2, <1>3, <1>4

-----------------------------------------------------------------------------
(* The scoring loop. *)

\* What all iterations have in common.
LEMMA IterationTyped ==
  ASSUME Inv, NEW nd \in Nodes, Iteration(nd)
  PROVE  /\ cache' \in Cache
         /\ \A n \in Names : cache[n] # NoEntry /\ cache[n].at >= began =>
              cache'[n] # NoEntry /\ cache'[n].at >= began
         /\ dirty' \in BOOLEAN
<1>1. began <= clock
  BY DEF Inv, FetchInv
<1> QED
  BY <1>1, CacheAfterCVEsTyped DEF Inv, Iteration, TypeOK

\* A node that is scored without a request.
LEMMA ScoredAtOnce ==
  ASSUME Inv, NEW nd \in Nodes, SkipDownloads(nd) \/ ScoreFromCache(nd) \/ ScoreFromInflight(nd)
  PROVE  Inv'
<1> USE DEF Inv
<1>1. /\ Iteration(nd)
      /\ UNCHANGED <<current, inflight, fetches>>
      /\ \E downloads \in {0, 5, 10, 15, 20}, skipped \in BOOLEAN :
           Record(nd, CVEPoints(nd), downloads, skipped)
  BY DownloadPoints, FallbackPoints DEF SkipDownloads, ScoreFromCache, ScoreFromInflight
<1>2. /\ scores' \in [Nodes -> Score \cup {NoScore}]
      /\ violations' \in SUBSET (Nodes \X {"require_hash", "min_score"})
      /\ queue' \in SUBSET Nodes
  BY <1>1, RecordTyped
<1>3. TypeOK'
  BY <1>1, <1>2, IterationTyped DEF Iteration, TypeOK, poolVars, runVars
<1>4. PoolInv'
  BY <1>1, PoolUndisturbed DEF Iteration
<1>5. FetchInv'
  BY <1>1, IterationTyped DEF Iteration, FetchInv, Running, TypeOK, poolVars, runVars
<1> QED
  BY <1>3, <1>4, <1>5

\* A name that was prefetched has an entry of this run, which is fresh: only a
\* name that was not is asked for.
LEMMA StartStep ==
  ASSUME Inv, NEW nd \in Nodes, StartInflight(nd)
  PROVE  Inv'
<1> USE DEF Inv
<1> DEFINE n == NameOf(nd)
<1>1. n \in Names
  BY NodesAssumption DEF NameOf
<1>2. worker[n] = "none"
  <2>1. worker[n] \in {"none", "gone"}
    <3>1. Outstanding = {}
      BY DEF StartInflight, Iteration, PoolInv
    <3> QED
      BY <1>1, <3>1 DEF Outstanding, TypeOK
  <2>2. ASSUME worker[n] = "gone" PROVE FALSE
    <3>1. cache'[n] # NoEntry /\ cache'[n].at >= began
      BY <1>1, <2>2, IterationTyped DEF StartInflight, FetchInv
    <3>2. cache'[n].at \in Nat
      BY <1>1, <3>1, IterationTyped DEF StartInflight, Cache, Entry
    <3>3. clock <= began + MaxRun /\ clock \in Nat /\ began \in Nat
      BY DEF StartInflight, Iteration, FetchInv, Running, TypeOK
    <3>4. ~(clock > cache'[n].at + TTL)
      BY <3>1, <3>2, <3>3, MaxRunAssumption, TimeAssumption
    <3>5. Fresh(cache', n, clock)
      BY <3>1, <3>4 DEF Fresh, IsExpired
    <3>6. ~Fresh(cache', n, clock)
      BY DEF StartInflight, Iteration
    <3> QED
      BY <3>5, <3>6
  <2> QED
    BY <2>1, <2>2
<1>3. /\ phase = "score" /\ current = NoNode
      /\ inflight[n] = "none" /\ fetches[n] = 0
      /\ current' = nd
      /\ inflight' = [inflight EXCEPT ![n] = "pending"]
      /\ fetches' = [fetches EXCEPT ![n] = fetches[n] + 1]
      /\ UNCHANGED <<queue, scores, violations>>
      /\ UNCHANGED <<clock, disk, phase, runVars, cancelled, audit, poolVars, answered, outcome>>
  BY <1>1, <1>2 DEF StartInflight, Iteration, FetchInv
<1>4. TypeOK'
  BY <1>1, <1>3, IterationTyped DEF StartInflight, TypeOK, poolVars, runVars
<1>5. PoolInv'
  BY <1>3, PoolUndisturbed
<1>6. FetchInv'
  BY <1>1, <1>2, <1>3, IterationTyped
     DEF StartInflight, FetchInv, Running, TypeOK, poolVars, runVars
<1> QED
  BY <1>4, <1>5, <1>6

\* The request answered or failed.
LEMMA InflightStep ==
  ASSUME Inv, Inflight
  PROVE  Inv'
<1> USE DEF Inv
<1> DEFINE n == NameOf(current)
<1>1. /\ current \in Nodes /\ n \in Names /\ current # NoNode
      /\ phase = "score" /\ inflight[n] = "pending"
  <2>1. current # NoNode
    BY DEF Inflight, InflightAnswered, InflightFailed
  <2> QED
    BY <2>1, NodesAssumption DEF FetchInv, TypeOK, NameOf
<1>2. worker[n] = "none"
  BY <1>1 DEF FetchInv, TypeOK
<1>3. /\ \E s \in {"ok", "failed"} : inflight' = [inflight EXCEPT ![n] = s]
      /\ current' = NoNode
      /\ answered' \in SUBSET Names
      /\ dirty' \in BOOLEAN
      /\ UNCHANGED <<clock, disk, phase, runVars, cancelled, audit, poolVars, fetches, outcome>>
  BY <1>1 DEF Inflight, InflightAnswered, InflightFailed, TypeOK
<1>4. /\ scores' \in [Nodes -> Score \cup {NoScore}]
      /\ violations' \in SUBSET (Nodes \X {"require_hash", "min_score"})
      /\ queue' \in SUBSET Nodes
  <2>1. \E downloads \in {0, 5, 10, 15, 20} : Record(current, CVEPoints(current), downloads, FALSE)
    BY DownloadPoints, FallbackPoints DEF Inflight, InflightAnswered, InflightFailed
  <2> QED
    BY <1>1, <2>1, RecordTyped
<1>5. /\ cache' \in Cache
      /\ \A m \in Names : m # n => cache'[m] = cache[m]
  <2>1. CASE InflightFailed
    BY <2>1 DEF InflightFailed, TypeOK
  <2>2. CASE \E count \in Counts : InflightAnswered(count)
    <3>1. PICK count \in Counts : cache' = SetDownloads(cache, n, count, clock, clock)
      BY <2>2 DEF InflightAnswered
    <3>2. count \in Counts \cup {0} /\ clock \in 0..MaxTime
      BY <3>1 DEF TypeOK
    <3> QED
      BY <1>1, <3>1, <3>2, SetDownloadsTyped DEF TypeOK
  <2> QED
    BY <2>1, <2>2 DEF Inflight
<1>6. TypeOK'
  BY <1>1, <1>3, <1>4, <1>5 DEF TypeOK, poolVars, runVars
<1>7. PoolInv'
  BY <1>3, PoolUndisturbed
<1>8. FetchInv'
  BY <1>1, <1>2, <1>3, <1>5 DEF FetchInv, Running, TypeOK, poolVars, runVars
<1> QED
  BY <1>6, <1>7, <1>8

\* The end of the run.
LEMMA SaveStep ==
  ASSUME Inv, SaveCache
  PROVE  Inv'
<1> USE DEF Inv
<1>1. TypeOK'
  BY DEF SaveCache, Return, TypeOK, poolVars, runVars
<1>2. PoolInv'
  BY PoolUndisturbed DEF SaveCache, Return
<1>3. FetchInv'
  BY DEF SaveCache, Return, FetchInv, Running, TypeOK, poolVars, runVars
<1> QED
  BY <1>1, <1>2, <1>3

-----------------------------------------------------------------------------
(* The environment, and the theorems. *)

\* Cancellation, the next process and time.
LEMMA EnvironmentStep ==
  ASSUME Inv, Cancel \/ NextProcess \/ Tick
  PROVE  Inv'
<1> USE DEF Inv
<1>1. CASE Cancel
  <2>1. TypeOK'
    BY <1>1 DEF Cancel, TypeOK, poolVars, runVars
  <2>2. PoolInv'
    BY <1>1, PoolUndisturbed DEF Cancel
  <2>3. FetchInv'
    BY <1>1 DEF Cancel, FetchInv, Running, poolVars, runVars
  <2> QED
    BY <2>1, <2>2, <2>3
<1>2. CASE NextProcess
  <2>1. EmptyCache \in Cache
    BY DEF EmptyCache, Cache
  <2>2. TypeOK'
    <3>1. /\ inflight' \in [Names -> {"none", "pending", "ok", "failed"}]
          /\ worker' \in [Names -> {"none", "fetch", "release", "finish", "gone"}]
          /\ fetches' \in [Names -> Nat]
          /\ scores' \in [Nodes -> Score \cup {NoScore}]
      BY <1>2 DEF NextProcess
    <3>2. began' \in 0..MaxTime /\ sem' \in 0..Concurrency /\ wg' \in Nat
      BY <1>2, TimeAssumption, PoolAssumption DEF NextProcess
    <3> QED
      BY <1>2, <2>1, <3>1, <3>2 DEF NextProcess, TypeOK
  <2>3. Active' = {} /\ Outstanding' = {}
    BY <1>2 DEF NextProcess, Active, Outstanding
  <2>4. PoolInv'
    BY <1>2, <2>3, FS_EmptySet DEF NextProcess, PoolInv
  <2>5. FetchInv'
    BY <1>2 DEF NextProcess, FetchInv, Running, TypeOK
  <2> QED
    BY <2>2, <2>4, <2>5
<1>3. CASE Tick
  <2>1. TypeOK'
    BY <1>3, TimeAssumption DEF Tick, TypeOK, poolVars, runVars
  <2>2. PoolInv'
    BY <1>3, PoolUndisturbed DEF Tick
  <2>3. FetchInv'
    <3>1. clock \in Nat /\ began \in Nat /\ MaxRun \in Nat /\ clock' = clock + 1
      BY <1>3, MaxRunAssumption DEF Tick, TypeOK
    <3>2. began <= clock' /\ (Running => clock' <= began + MaxRun)
      BY <1>3, <3>1 DEF Tick, FetchInv
    <3> QED
      BY <1>3, <3>2 DEF Tick, FetchInv, Running, poolVars, runVars
  <2> QED
    BY <2>1, <2>2, <2>3
<1> QED
  BY <1>1, <1>2, <1>3

\* Every step preserves the invariant.
LEMMA StepInv == Inv /\ [Next]_vars => Inv'
<1> SUFFICES ASSUME Inv, [Next]_vars PROVE Inv'
  OBVIOUS
<1>1. CASE Main
  BY <1>1, BeforePrefetch, AuditStep, DispatchStep, PrefetchDoneStep, ScoredAtOnce,
     StartStep, SaveStep DEF Main
<1>2. CASE Inflight
  BY <1>2, InflightStep
<1>3. CASE \E n \in Names : Worker(n)
  BY <1>3, FetchEnds, ReleaseStep, DoneStep DEF Worker
<1>4. CASE Cancel \/ NextProcess \/ Tick
  BY <1>4, EnvironmentStep
<1>5. CASE UNCHANGED vars
  <2>1. Active' = Active /\ Outstanding' = Outstanding
    BY <1>5 DEF vars, poolVars, Active, Outstanding
  <2>2. TypeOK'
    BY <1>5 DEF Inv, TypeOK, vars, poolVars, runVars
  <2>3. PoolInv'
    BY <1>5, <2>1 DEF Inv, PoolInv, vars, poolVars
  <2>4. FetchInv'
    BY <1>5 DEF Inv, FetchInv, Running, vars, poolVars, runVars
  <2> QED
    BY <2>2, <2>3, <2>4 DEF Inv
<1> QED
  BY <1>1, <1>2, <1>3, <1>4, <1>5 DEF Next

\* Every variable of the scorer keeps its type; in particular the pool's channel
\* never holds more than Concurrency tokens and its counters never go below 0.
THEOREM ScorerTypeCorrect == Spec => []TypeOK
<1>1. Inv => TypeOK
  BY DEF Inv
<1> QED
  BY <1>1, InitInv, StepInv, PTL DEF Spec

\* The channel and the wait group count the goroutines of prefetchDownloads,
\* and none is left when Evaluate goes on to score the packages.
THEOREM PoolSafe == Spec => []PoolInv
<1>1. Inv => PoolInv
  BY DEF Inv
<1> QED
  BY <1>1, InitInv, StepInv, PTL DEF Spec

\* The reason why the registry is asked at most once per package and run.
THEOREM FetchSafe == Spec => []FetchInv
<1>1. Inv => FetchInv
  BY DEF Inv
<1> QED
  BY <1>1, InitInv, StepInv, PTL DEF Spec

\* Evaluate sends at most one request per package and run: what the prefetch
\* asked for, scoreDownloadsCached does not ask for again.
THEOREM OncePerRun == Spec => []FetchedOncePerRun
<1>1. Inv => FetchedOncePerRun
  <2> SUFFICES ASSUME Inv, NEW n \in Names PROVE fetches[n] <= 1
    BY DEF FetchedOncePerRun
  <2>1. CASE worker[n] = "none"
    BY <2>1 DEF Inv, FetchInv
  <2>2. CASE worker[n] # "none"
    <3>1. fetches[n] = 1
      BY <2>2 DEF Inv, FetchInv
    <3> QED
      BY <3>1
  <2> QED
    BY <2>1, <2>2
<1> QED
  BY <1>1, InitInv, StepInv, PTL DEF Spec

-----------------------------------------------------------------------------
(* The cache file. *)

\* No entry is from the future, and while Evaluate runs, the cache in memory
\* has what the file has, or a later entry.
Covers(c, d) ==
  \A n \in Names : d[n] # NoEntry => c[n] # NoEntry /\ c[n].at >= d[n].at

\* No entry is of a later moment than now.
NotLater(c) == \A n \in Names : c[n] # NoEntry => c[n].at <= clock

\* What is in memory covers what is on disk while a run goes on, and nothing is of
\* a later moment than now.
GrowInv ==
  /\ NotLater(cache)
  /\ disk # Corrupt => NotLater(disk)
  /\ Running => disk # Corrupt /\ Covers(cache, disk)

\* The cache changes in these steps only, and by storing an answer of now.
CacheStep ==
  \/ UNCHANGED cache
  \/ \E n \in Names : /\ cache'[n] # NoEntry /\ cache'[n].at = clock
                      /\ \A m \in Names : m # n => cache'[m] = cache[m]

\* What a step does to the cache: it renews entries, or loads or saves it.
LEMMA CacheSteps ==
  ASSUME Inv, [Next]_vars
  PROVE  \/ CacheStep /\ UNCHANGED <<clock, disk>> /\ (Running' => Running)
         \/ EvaluateLoadsCache \/ SaveCache \/ NextProcess \/ Tick
<1>1. ASSUME NEW nd \in Nodes, Iteration(nd) PROVE CacheStep /\ UNCHANGED <<clock, disk, phase>>
  <2>1. NameOf(nd) \in Names /\ VersionOf(nd) \in Versions
    BY NodesAssumption DEF NameOf, VersionOf
  <2>2. CASE audit = NoAudit
    BY <1>1, <2>2 DEF Iteration, CacheAfterCVEs, CacheStep
  <2>3. CASE audit # NoAudit
    <3> DEFINE d == SetVersionCVEs(cache, NameOf(nd), VersionOf(nd),
                                   NameOf(nd) \in audit, clock)
    <3>1. /\ d[NameOf(nd)] # NoEntry /\ d[NameOf(nd)].at = clock
          /\ \A m \in Names : m # NameOf(nd) => d[m] = cache[m]
      <4>1. cache \in Cache /\ clock \in 0..MaxTime
        BY DEF Inv, TypeOK
      <4> QED
        BY <2>1, <4>1, SetVersionCVEsTyped
    <3>2. cache' = d
      BY <1>1, <2>3 DEF Iteration, CacheAfterCVEs
    <3> HIDE DEF d
    <3> QED
      BY <1>1, <2>1, <3>1, <3>2 DEF CacheStep, Iteration
  <2> QED
    BY <2>2, <2>3
<1>2. ASSUME NEW n \in Names, NEW count \in Counts \cup {0},
             NEW asOf \in (0..MaxTime) \cup {Never},
             cache' = SetDownloads(cache, n, count, asOf, clock)
      PROVE  CacheStep
  <2> DEFINE d == SetDownloads(cache, n, count, asOf, clock)
  <2>1. d[n] # NoEntry /\ d[n].at = clock /\ \A m \in Names : m # n => d[m] = cache[m]
    <3>1. cache \in Cache /\ clock \in 0..MaxTime
      BY DEF Inv, TypeOK
    <3> QED
      BY <3>1, SetDownloadsTyped
  <2>2. cache' = d
    BY <1>2
  <2> HIDE DEF d
  <2> QED
    BY <2>1, <2>2 DEF CacheStep
<1>3. CASE Main
  <2>1. CASE \E nd \in Nodes : \/ SkipDownloads(nd) \/ ScoreFromCache(nd)
                               \/ ScoreFromInflight(nd) \/ StartInflight(nd)
    BY <1>1, <2>1 DEF SkipDownloads, ScoreFromCache, ScoreFromInflight, StartInflight,
                      Iteration, Running
  <2>2. CASE EvaluateReturnsEarly
    BY <2>2 DEF EvaluateReturnsEarly, Return, CacheStep, Running
  <2>3. CASE FetchAuditCVEs
    BY <2>3 DEF FetchAuditCVEs, CacheStep, Running
  <2>4. CASE \E n \in Names : Dispatch(n)
    BY <2>4 DEF Dispatch, unchangedByPool, CacheStep, Running
  <2>5. CASE PrefetchDone
    BY <2>5 DEF PrefetchDone, unchangedByPool, CacheStep, Running
  <2> QED
    BY <1>3, <2>1, <2>2, <2>3, <2>4, <2>5 DEF Main
<1>4. CASE \E n \in Names : Worker(n)
  <2> PICK n \in Names : Worker(n)
    BY <1>4
  <2>1. CASE (\E c \in Counts : WorkerAnswered(n, c)) \/ WorkerFailed(n)
    <3>1. UNCHANGED <<clock, disk, phase>>
      BY <2>1 DEF WorkerAnswered, WorkerFailed, unchangedByPool
    <3>2. PICK count \in Counts \cup {0}, asOf \in (0..MaxTime) \cup {Never} :
            cache' = SetDownloads(cache, n, count, asOf, clock)
      BY <2>1 DEF WorkerAnswered, WorkerFailed, Inv, TypeOK
    <3> QED
      BY <1>2, <3>1, <3>2 DEF Running
  <2>2. CASE WorkerReleases(n) \/ WorkerDone(n)
    BY <2>2 DEF WorkerReleases, WorkerDone, unchangedByPool, CacheStep, Running
  <2> QED
    BY <2>1, <2>2 DEF Worker
<1>5. CASE Inflight
  <2>1. UNCHANGED <<clock, disk, phase>>
    BY <1>5 DEF Inflight, InflightAnswered, InflightFailed
  <2>2. CASE InflightFailed
    BY <2>1, <2>2 DEF InflightFailed, CacheStep, Running
  <2>3. CASE \E count \in Counts : InflightAnswered(count)
    <3>1. NameOf(current) \in Names
      BY <2>3, NodesAssumption DEF InflightAnswered, Inv, TypeOK, NameOf
    <3>2. PICK count \in Counts :
            cache' = SetDownloads(cache, NameOf(current), count, clock, clock)
      BY <2>3 DEF InflightAnswered
    <3>3. count \in Counts \cup {0} /\ clock \in (0..MaxTime) \cup {Never}
      BY <3>2 DEF Inv, TypeOK
    <3> QED
      BY <1>2, <2>1, <3>1, <3>2, <3>3 DEF Running
  <2> QED
    BY <1>5, <2>2, <2>3 DEF Inflight
<1>6. CASE Cancel \/ UNCHANGED vars
  BY <1>6 DEF Cancel, vars, CacheStep, Running
<1> QED
  BY <1>3, <1>4, <1>5, <1>6 DEF Next

\* It holds at first,
LEMMA GrowInit == Init => GrowInv
<1>1. EmptyCache \in Cache /\ \A n \in Names : EmptyCache[n] = NoEntry
  BY DEF EmptyCache, Cache
<1> QED
  BY <1>1, OldCacheTyped DEF Init, GrowInv, NotLater, Running

\* and every step keeps it and loses nothing of the file.
LEMMA GrowStep ==
  ASSUME Inv, Inv', GrowInv, [Next]_vars
  PROVE  /\ GrowInv'
         /\ disk # Corrupt => /\ disk' # Corrupt
                              /\ \A n \in Names : disk[n] # NoEntry =>
                                   disk'[n] # NoEntry /\ disk'[n].at >= disk[n].at
<1>1. /\ cache \in Cache /\ cache' \in Cache /\ clock \in 0..MaxTime /\ clock \in Nat
      /\ disk \in Cache \cup {Corrupt}
      /\ \A n \in Names : cache[n] # NoEntry => cache[n].at \in Nat
      /\ disk # Corrupt => \A n \in Names : disk[n] # NoEntry => disk[n].at \in Nat
  BY DEF Inv, TypeOK, Cache, Entry
<1>2. UNCHANGED disk => (disk # Corrupt => /\ disk' # Corrupt
                              /\ \A n \in Names : disk[n] # NoEntry =>
                                   disk'[n] # NoEntry /\ disk'[n].at >= disk[n].at)
  BY <1>1
<1>3. CASE CacheStep /\ UNCHANGED <<clock, disk>> /\ (Running' => Running)
  <2>1. CASE UNCHANGED cache
    BY <1>2, <1>3, <2>1 DEF GrowInv, NotLater, Covers
  <2>2. CASE ~UNCHANGED cache
    <3>1. PICK n \in Names : /\ cache'[n] # NoEntry /\ cache'[n].at = clock
                             /\ \A m \in Names : m # n => cache'[m] = cache[m]
      BY <1>3, <2>2 DEF CacheStep
    <3>2. NotLater(cache)
      BY DEF GrowInv
    <3>3. \A m \in Names : cache'[m] # NoEntry => cache'[m].at <= clock
      BY <1>1, <3>1, <3>2 DEF NotLater
    <3>4. Running => Covers(cache', disk)
      BY <1>1, <3>1 DEF GrowInv, NotLater, Covers
    <3> QED
      BY <1>2, <1>3, <3>3, <3>4 DEF GrowInv, NotLater
  <2> QED
    BY <2>1, <2>2
<1>4. CASE EvaluateLoadsCache
  BY <1>1, <1>2, <1>4 DEF EvaluateLoadsCache, GrowInv, NotLater, Covers
<1>5. CASE SaveCache
  <2>1. Running /\ ~Running' /\ UNCHANGED <<clock, cache>> /\ disk' \in {disk, cache}
    BY <1>5 DEF SaveCache, Return, Running
  <2>2. disk # Corrupt /\ Covers(cache, disk) /\ cache # Corrupt
    BY <1>1, <2>1, CorruptAssumption DEF GrowInv
  <2> QED
    BY <1>1, <1>2, <2>1, <2>2 DEF GrowInv, NotLater, Covers
<1>6. CASE NextProcess
  <2>1. \A n \in Names : cache'[n] = NoEntry
    BY <1>6 DEF NextProcess, EmptyCache
  <2>2. UNCHANGED <<clock, disk>> /\ ~Running'
    BY <1>6 DEF NextProcess, Running
  <2> QED
    BY <1>2, <2>1, <2>2 DEF GrowInv, NotLater
<1>7. CASE Tick
  <2>1. clock' = clock + 1 /\ UNCHANGED <<disk, phase, cache>>
    BY <1>7 DEF Tick
  <2> QED
    BY <1>1, <1>2, <2>1 DEF GrowInv, NotLater, Covers, Running
<1> QED
  BY <1>3, <1>4, <1>5, <1>6, <1>7, CacheSteps

\* Whatever fails, is cancelled or is killed, the cache file never loses a
\* package nor goes back to an older entry.
THEOREM FileOnlyGrows == Spec => CacheFileOnlyGrows
<1>1. Spec => []GrowInv
  BY InitInv, StepInv, GrowInit, GrowStep, PTL DEF Spec
<1>2. Inv /\ Inv' /\ GrowInv /\ [Next]_vars
        => [disk # Corrupt =>
              /\ disk' # Corrupt
              /\ \A n \in Names : disk[n] # NoEntry =>
                   disk'[n] # NoEntry /\ disk'[n].at >= disk[n].at]_vars
  BY GrowStep
<1> QED
  BY <1>1, <1>2, InitInv, StepInv, PTL DEF Spec, CacheFileOnlyGrows

-----------------------------------------------------------------------------
(* The verdict can be recomputed from the cache file that is saved with it.   *)
(* The proof rests on Inv: no fetch is under way while packages are scored.   *)

\* The nodes that a run scores, under a policy and with the lockfile entries has.
ToScore(pol, has) == {nd \in Nodes : pol.requireHash => nd \in has}

\* Evaluate has run to its end, and did score.
Saved ==
  /\ phase = "done" /\ outcome = "ok"
  /\ ~policy.auditOnly /\ policy.minScore > 0

\* What cache c and lockfile entries has say of node nd whose score is sc.
Told(c, sc, nd) == sc.cves = 0 <=> SaysCVEs(c, nd)

\* The points of a node but for its downloads,
Total(has, nd, cves) ==
  (IF nd \in has THEN ptsHashVerified ELSE 0)
    + (IF VersionOf(nd) \in Mature THEN ptsMaturity ELSE 0)
    + cves

\* and whether with those that cache c counts it is below min.
TooLow(c, cves, has, min, nd) ==
  Total(has, nd, cves) + ScoreDownloadsByCount(c[NameOf(nd)].dl) < min

\* What is not dirty is on disk.
CleanIsSaved == Running /\ ~dirty => cache = disk

\* Before it is scored a node has an entry, or a fetch will make one.
Prefetched ==
  /\ phase \in {"audit", "prefetch"} => queue = ToScore(policy, hashed)
  /\ phase = "prefetch" =>
       \A nd \in queue : LET n == NameOf(nd) IN
         cache[n] # NoEntry \/ n \in todo \/ worker[n] = "fetch"

\* The cache explains the verdict on every node that was scored.
Verdicts ==
  phase = "score" \/ Saved =>
    \A nd \in ToScore(policy, hashed) :
      /\ cache[NameOf(nd)] # NoEntry
      /\ nd \notin queue => Told(cache, scores[nd], nd)
      /\ nd \notin queue /\ inflight[NameOf(nd)] # "ok" =>
           (<<nd, "min_score">> \in violations <=>
              TooLow(cache, scores[nd].cves, hashed, policy.minScore, nd))

\* No verdict yet on the others; the audit of the current one is stored.
Waiting ==
  /\ Running => \A nd \in queue :
       nd \in ToScore(policy, hashed) /\ <<nd, "min_score">> \notin violations
  /\ current # NoNode =>
       /\ current \in queue
       /\ audit # NoAudit =>
            (NameOf(current) \in audit <=>
               VersionOf(current) \in cache[NameOf(current)].bad)

\* At the end the file has what the cache has.
SavedAll == Saved /\ ToScore(policy, hashed) # {} => disk = cache /\ queue = {}

\* The invariant of the verdict.
VInv == CleanIsSaved /\ Prefetched /\ Verdicts /\ Waiting /\ SavedAll

-----------------------------------------------------------------------------
(* Helpers. *)

\* Two nodes of one name are two versions.
LEMMA NodeIsPair ==
  ASSUME NEW nd \in Nodes
  PROVE  /\ NameOf(nd) \in Names /\ VersionOf(nd) \in Versions
         /\ \A m \in Nodes : NameOf(m) = NameOf(nd) /\ VersionOf(m) = VersionOf(nd) => m = nd
BY NodesAssumption DEF NameOf, VersionOf

\* These are the nodes of the run.
LEMMA ScoreNodesAre == ScoreNodes = ToScore(policy, hashed)
BY DEF ScoreNodes, Unhashed, ToScore

\* What the cache's two setters keep of an entry.
LEMMA SetDownloadsKeeps ==
  ASSUME NEW c \in Cache, NEW n \in Names, NEW count, NEW asOf, NEW now
  PROVE  LET e == SetDownloads(c, n, count, asOf, now)[n] IN
         /\ e.dl = count /\ e.asOf = asOf
         /\ e.bad = EntryOf(c, n).bad /\ e.old = EntryOf(c, n).old
<1> DEFINE old == EntryOf(c, n)
<1>1. old \in Entry
  BY EntryOfTyped
<1>2. SetDownloads(c, n, count, asOf, now)[n] = [old EXCEPT !.at = now, !.dl = count, !.asOf = asOf]
  BY DEF SetDownloads, Cache
<1> HIDE DEF old
<1>3. LET e == [old EXCEPT !.at = now, !.dl = count, !.asOf = asOf] IN
      e.dl = count /\ e.asOf = asOf /\ e.bad = old.bad /\ e.old = old.old
  BY <1>1 DEF Entry
<1> QED
  BY <1>2, <1>3 DEF old

\* A version is bad after an audit exactly when the audit names its package; what
\* the entry says of other versions stays.
LEMMA SetVersionCVEsKeeps ==
  ASSUME NEW c \in Cache, NEW n \in Names, NEW v, NEW names, NEW now
  PROVE  LET e == SetVersionCVEs(c, n, v, n \in names, now)[n] IN
         /\ e.dl = EntryOf(c, n).dl /\ e.asOf = EntryOf(c, n).asOf /\ e.old = EntryOf(c, n).old
         /\ v \in e.bad <=> n \in names
         /\ \A w : w # v => (w \in e.bad <=> w \in EntryOf(c, n).bad)
<1> DEFINE old == EntryOf(c, n)
           e == [old EXCEPT !.at = now, !.audited = @ \cup {v},
                            !.bad = IF n \in names THEN @ \cup {v} ELSE @ \ {v}]
<1>1. old \in Entry
  BY EntryOfTyped
<1>2. SetVersionCVEs(c, n, v, n \in names, now)[n] = e
  BY DEF SetVersionCVEs, Cache
<1> HIDE DEF old
<1>3. /\ e.dl = old.dl /\ e.asOf = old.asOf /\ e.old = old.old
      /\ e.bad = IF n \in names THEN old.bad \cup {v} ELSE old.bad \ {v}
  BY <1>1 DEF Entry
<1> HIDE DEF e
<1> QED
  BY <1>2, <1>3 DEF old

\* What an iteration does to the entries: the node's own CVEs are the audit's.
LEMMA CacheAfterCVEsKeeps ==
  ASSUME TypeOK, NEW nd \in Nodes
  PROVE  LET d == CacheAfterCVEs(nd)
             n == NameOf(nd) IN
         /\ d \in Cache
         /\ \A m \in Names : m # n => d[m] = cache[m]
         /\ cache[n] # NoEntry \/ audit # NoAudit => d[n] # NoEntry
         /\ d[n] # NoEntry => d[n].dl = EntryOf(cache, n).dl /\ d[n].asOf = EntryOf(cache, n).asOf
         /\ cache[n] # NoEntry =>
              /\ d[n].old = cache[n].old
              /\ \A w : w # VersionOf(nd) => (w \in d[n].bad <=> w \in cache[n].bad)
         /\ audit # NoAudit => (VersionOf(nd) \in d[n].bad <=> n \in audit)
         /\ audit = NoAudit => d = cache
<1> DEFINE n == NameOf(nd)
           d == SetVersionCVEs(cache, n, VersionOf(nd), n \in audit, clock)
<1>1. n \in Names /\ VersionOf(nd) \in Versions /\ cache \in Cache /\ clock \in 0..MaxTime
  BY NodeIsPair DEF TypeOK
<1>2. CASE audit = NoAudit
  <2>1. CacheAfterCVEs(nd) = cache
    BY <1>2 DEF CacheAfterCVEs
  <2>2. cache[n] # NoEntry => EntryOf(cache, n) = cache[n]
    BY DEF EntryOf
  <2> QED
    BY <1>1, <1>2, <2>1, <2>2
<1>3. CASE audit # NoAudit
  <2>1. CacheAfterCVEs(nd) = d
    BY <1>3 DEF CacheAfterCVEs
  <2>2. d \in Cache /\ d[n] # NoEntry /\ \A m \in Names : m # n => d[m] = cache[m]
    <3> HIDE DEF n
    <3> QED
      BY <1>1, SetVersionCVEsTyped
  <2>3. /\ d[n].dl = EntryOf(cache, n).dl /\ d[n].asOf = EntryOf(cache, n).asOf
        /\ d[n].old = EntryOf(cache, n).old
        /\ VersionOf(nd) \in d[n].bad <=> n \in audit
        /\ \A w : w # VersionOf(nd) => (w \in d[n].bad <=> w \in EntryOf(cache, n).bad)
    <3> HIDE DEF n
    <3> QED
      BY <1>1, SetVersionCVEsKeeps
  <2>4. cache[n] # NoEntry => EntryOf(cache, n) = cache[n]
    BY DEF EntryOf
  <2> HIDE DEF d
  <2> QED
    BY <1>3, <2>1, <2>2, <2>3, <2>4
<1> QED
  BY <1>2, <1>3

\* The points for CVEs are 0 exactly where the cache says so.
LEMMA CVEPointsTold ==
  ASSUME NEW nd \in Nodes, cache[NameOf(nd)] # NoEntry,
         NEW d, (audit # NoAudit => (VersionOf(nd) \in d[NameOf(nd)].bad <=> NameOf(nd) \in audit)),
         (audit = NoAudit => (SaysCVEs(d, nd) <=> SaysCVEs(cache, nd)))
  PROVE  /\ CVEPoints(nd) \in {0, 7, 15}
         /\ CVEPoints(nd) = 0 <=> SaysCVEs(d, nd)
BY DEF CVEPoints, HasVersionCVEs, HasCVEs, SaysCVEs, ptsNoCVEs

\* Recording the score of a node: the verdicts on the others stand if what the
\* cache says of them stands, unless their count was fetched.
LEMMA RecordTells ==
  ASSUME Verdicts, phase = "score", phase' = "score", UNCHANGED <<policy, hashed, audit>>,
         scores \in [Nodes -> Score \cup {NoScore}],
         NEW nd \in Nodes, NEW cves, NEW downloads, NEW skipped,
         Record(nd, cves, downloads, skipped),
         cache'[NameOf(nd)] # NoEntry,
         cves = 0 <=> SaysCVEs(cache', nd),
         inflight'[NameOf(nd)] # "ok" =>
           (Base(nd, cves) + downloads < policy.minScore <=>
              TooLow(cache', cves, hashed, policy.minScore, nd)),
         <<nd, "min_score">> \notin violations,
         \A m \in Nodes : m # nd /\ cache[NameOf(m)] # NoEntry =>
           /\ cache'[NameOf(m)] # NoEntry
           /\ SaysCVEs(cache', m) <=> SaysCVEs(cache, m)
           /\ inflight'[NameOf(m)] # "ok" =>
                /\ inflight[NameOf(m)] # "ok"
                /\ cache'[NameOf(m)].dl = cache[NameOf(m)].dl
  PROVE  Verdicts'
<1> DEFINE r == [cves |-> cves, downloads |-> downloads, skipped |-> skipped]
           low == Base(nd, cves) + downloads < policy.minScore
<1>1. /\ scores' = [scores EXCEPT ![nd] = r] /\ queue' = queue \ {nd}
      /\ violations' = violations \cup IF low THEN {<<nd, "min_score">>} ELSE {}
  BY DEF Record
<1>2. r.cves = cves
  OBVIOUS
<1> HIDE DEF r, low
<1>3. ASSUME NEW m \in ToScore(policy, hashed)
      PROVE  /\ cache'[NameOf(m)] # NoEntry
             /\ m \notin queue' => Told(cache', scores'[m], m)
             /\ m \notin queue' /\ inflight'[NameOf(m)] # "ok" =>
                  (<<m, "min_score">> \in violations' <=>
                     TooLow(cache', scores'[m].cves, hashed, policy.minScore, m))
  <2>1. m \in Nodes
    BY DEF ToScore
  <2>2. CASE m = nd
    <3>1. scores'[m] = r
      BY <1>1, <2>2
    <3>2. <<m, "min_score">> \in violations' <=> low
      BY <1>1, <2>2
    <3> QED
      BY <1>2, <2>2, <3>1, <3>2 DEF Told, low
  <2>3. CASE m # nd
    <3>1. scores'[m] = scores[m] /\ (m \in queue' <=> m \in queue)
      BY <1>1, <2>1, <2>3
    <3>2. <<m, "min_score">> \in violations' <=> <<m, "min_score">> \in violations
      BY <1>1, <2>3
    <3>3. /\ cache[NameOf(m)] # NoEntry
          /\ m \notin queue => Told(cache, scores[m], m)
          /\ m \notin queue /\ inflight[NameOf(m)] # "ok" =>
               (<<m, "min_score">> \in violations <=>
                  TooLow(cache, scores[m].cves, hashed, policy.minScore, m))
      BY DEF Verdicts
    <3>4. cache'[NameOf(m)] # NoEntry /\ (m \notin queue' => Told(cache', scores'[m], m))
      BY <2>1, <2>3, <3>1, <3>3 DEF Told
    <3>5. ASSUME m \notin queue', inflight'[NameOf(m)] # "ok"
          PROVE  <<m, "min_score">> \in violations' <=>
                   TooLow(cache', scores'[m].cves, hashed, policy.minScore, m)
      BY <2>1, <2>3, <3>1, <3>2, <3>3, <3>5 DEF TooLow
    <3> QED
      BY <3>4, <3>5
  <2> QED
    BY <2>2, <2>3
<1> QED
  BY <1>3 DEF Verdicts, Told, SaysCVEs

-----------------------------------------------------------------------------
(* Each action preserves the invariant. *)

\* Before the scoring there is no verdict.
LEMMA VerdictBefore ==
  ASSUME Inv, VInv, EvaluateReturnsEarly \/ EvaluateLoadsCache \/ FetchAuditCVEs
  PROVE  VInv'
<1> USE DEF VInv, CleanIsSaved, Prefetched, Waiting, SavedAll, Running, Saved, poolVars, runVars
<1>1. CASE EvaluateReturnsEarly
  <2>1. phase = "idle" /\ phase' = "done" /\ UNCHANGED <<policy, hashed, queue, current, cache, audit>>
    BY <1>1 DEF EvaluateReturnsEarly, Return
  <2>2. Saved' => ToScore(policy, hashed) = {}
    <3>1. policy.minScore \in 0..80
      BY PoliciesAssumption DEF Inv, TypeOK, PolicyType
    <3> QED
      BY <1>1, <3>1, ScoreNodesAre DEF EvaluateReturnsEarly, Return, Disabled
  <2>3. Verdicts'
    BY <2>1, <2>2 DEF Verdicts
  <2> QED
    BY <2>1, <2>2, <2>3
<1>2. CASE EvaluateLoadsCache
  <2>1. /\ phase' = "audit" /\ cache' = disk /\ queue' = ToScore(policy, hashed)
        /\ UNCHANGED <<policy, hashed, current, disk, audit>>
    BY <1>2, ScoreNodesAre DEF EvaluateLoadsCache
  <2>2. ASSUME NEW nd \in queue' PROVE <<nd, "min_score">> \notin violations'
    BY <1>2 DEF EvaluateLoadsCache, HashViolations
  <2>3. current = NoNode
    BY <1>2 DEF EvaluateLoadsCache, Inv, FetchInv
  <2> QED
    BY <2>1, <2>2, <2>3 DEF Verdicts
<1>3. CASE FetchAuditCVEs
  <2>1. /\ phase = "audit" /\ phase' \in {"prefetch", "score"}
        /\ UNCHANGED <<policy, hashed, current, queue, cache, disk, dirty, violations, scores,
                       inflight, worker>>
    BY <1>3 DEF FetchAuditCVEs
  <2>2. current = NoNode
    BY <2>1 DEF Inv, FetchInv
  <2>3. ASSUME NEW nd \in queue
        PROVE  cache[NameOf(nd)] # NoEntry \/ (NameOf(nd) \in todo' /\ phase' = "prefetch")
    BY <1>3 DEF FetchAuditCVEs, Fresh
  <2>4. Verdicts'
    <3>1. phase' = "score" => \A nd \in queue : cache[NameOf(nd)] # NoEntry
      BY <2>1, <2>3
    <3>2. ~Saved' /\ queue = ToScore(policy, hashed)
      BY <2>1
    <3> QED
      BY <2>1, <3>1, <3>2 DEF Verdicts
  <2>5. Prefetched'
    BY <2>1, <2>3
  <2> QED
    BY <2>1, <2>2, <2>4, <2>5
<1> QED
  BY <1>1, <1>2, <1>3

\* While the pool runs nothing is scored; a goroutine leaves an entry.
LEMMA VerdictPool ==
  ASSUME Inv, VInv, (\E n \in Names : Dispatch(n) \/ Worker(n)) \/ PrefetchDone
  PROVE  VInv'
<1> USE DEF VInv, CleanIsSaved, Prefetched, Waiting, SavedAll, Running, Saved
<1>1. phase = "prefetch" /\ current = NoNode
  <2>1. phase = "prefetch"
    BY DEF Dispatch, Worker, WorkerAnswered, WorkerFailed, WorkerReleases, WorkerDone,
           PrefetchDone, Inv, PoolInv, Outstanding
  <2> QED
    BY <2>1 DEF Inv, FetchInv
<1>2. /\ UNCHANGED <<policy, hashed, queue, current, violations, disk>>
      /\ phase' \in {"prefetch", "score"}
  BY <1>1 DEF Dispatch, Worker, WorkerAnswered, WorkerFailed, WorkerReleases, WorkerDone,
              PrefetchDone, unchangedByPool, runVars
<1>3. ~dirty' => ~dirty /\ cache' = cache
  BY DEF Dispatch, Worker, WorkerAnswered, WorkerFailed, WorkerReleases, WorkerDone,
         PrefetchDone
<1>4. ASSUME NEW nd \in queue
      PROVE  LET n == NameOf(nd) IN
             /\ phase' = "prefetch" => cache'[n] # NoEntry \/ n \in todo' \/ worker'[n] = "fetch"
             /\ phase' = "score" => cache'[n] # NoEntry
  <2> DEFINE m == NameOf(nd)
  <2>1. m \in Names /\ nd \in Nodes
    BY NodeIsPair DEF Inv, TypeOK
  <2>2. cache[m] # NoEntry \/ m \in todo \/ worker[m] = "fetch"
    BY <1>1
  <2>3. ASSUME NEW n \in Names, Dispatch(n)
        PROVE  phase' = "prefetch" /\ (cache'[m] # NoEntry \/ m \in todo' \/ worker'[m] = "fetch")
    BY <2>1, <2>2, <2>3 DEF Dispatch, Inv, TypeOK
  <2>4. ASSUME NEW n \in Names, Worker(n)
        PROVE  phase' = "prefetch" /\ (cache'[m] # NoEntry \/ m \in todo' \/ worker'[m] = "fetch")
    <3>1. CASE (\E c \in Counts : WorkerAnswered(n, c)) \/ WorkerFailed(n)
      <4>1. /\ worker' = [worker EXCEPT ![n] = "release"] /\ UNCHANGED <<phase, todo>>
            /\ \E c \in Counts \cup {0}, asOf \in (0..MaxTime) \cup {Never} :
                 cache' = SetDownloads(cache, n, c, asOf, clock)
        BY <3>1 DEF WorkerAnswered, WorkerFailed, Inv, TypeOK
      <4>2. cache'[n] # NoEntry /\ \A k \in Names : k # n => cache'[k] = cache[k]
        BY <4>1, SetDownloadsTyped DEF Inv, TypeOK
      <4> QED
        BY <1>1, <2>1, <2>2, <4>1, <4>2 DEF Inv, TypeOK
    <3>2. CASE WorkerReleases(n) \/ WorkerDone(n)
      BY <1>1, <2>1, <2>2, <3>2 DEF WorkerReleases, WorkerDone, Inv, TypeOK
    <3> QED
      BY <2>4, <3>1, <3>2 DEF Worker
  <2>5. CASE PrefetchDone
    <3>1. todo = {} /\ wg = 0 /\ Outstanding \in SUBSET Names /\ wg = Cardinality(Outstanding)
      BY <2>5 DEF PrefetchDone, Inv, PoolInv, Outstanding
    <3>2. Outstanding = {}
      BY <3>1, NamesFinite, FS_EmptySet
    <3>3. worker[m] # "fetch"
      BY <2>1, <3>2 DEF Outstanding
    <3> QED
      BY <2>2, <2>5, <3>1, <3>3 DEF PrefetchDone
  <2> QED
    BY <2>3, <2>4, <2>5
<1>5. Verdicts'
  BY <1>1, <1>2, <1>4 DEF Verdicts
<1> QED
  BY <1>1, <1>2, <1>3, <1>4, <1>5

\* What an iteration keeps of the entries of the nodes that were scored.
LEMMA IterationKeeps ==
  ASSUME Inv, VInv, NEW nd \in Nodes, Iteration(nd)
  PROVE  /\ nd \in ToScore(policy, hashed) /\ cache[NameOf(nd)] # NoEntry
         /\ cache'[NameOf(nd)] # NoEntry
         /\ CVEPoints(nd) \in {0, 7, 15}
         /\ CVEPoints(nd) = 0 <=> SaysCVEs(cache', nd)
         /\ audit # NoAudit => (VersionOf(nd) \in cache'[NameOf(nd)].bad <=> NameOf(nd) \in audit)
         /\ ~dirty' => ~dirty /\ cache' = cache
         /\ <<nd, "min_score">> \notin violations
         /\ \A m \in Nodes : m # nd /\ cache[NameOf(m)] # NoEntry =>
              /\ cache'[NameOf(m)] # NoEntry
              /\ SaysCVEs(cache', m) <=> SaysCVEs(cache, m)
              /\ cache'[NameOf(m)].dl = cache[NameOf(m)].dl
<1>1. phase = "score" /\ nd \in queue /\ cache' = CacheAfterCVEs(nd)
  BY DEF Iteration
<1>2. nd \in ToScore(policy, hashed) /\ <<nd, "min_score">> \notin violations
  BY <1>1 DEF VInv, Waiting, Running
<1>3. cache[NameOf(nd)] # NoEntry
  BY <1>1, <1>2 DEF VInv, Verdicts
<1>4. /\ \A m \in Names : m # NameOf(nd) => cache'[m] = cache[m]
      /\ cache'[NameOf(nd)] # NoEntry
      /\ cache'[NameOf(nd)].dl = cache[NameOf(nd)].dl
      /\ cache'[NameOf(nd)].old = cache[NameOf(nd)].old
      /\ \A w : w # VersionOf(nd) =>
           (w \in cache'[NameOf(nd)].bad <=> w \in cache[NameOf(nd)].bad)
      /\ audit # NoAudit => (VersionOf(nd) \in cache'[NameOf(nd)].bad <=> NameOf(nd) \in audit)
      /\ audit = NoAudit => cache' = cache
  BY <1>1, <1>3, CacheAfterCVEsKeeps DEF Inv, EntryOf
<1>5. /\ CVEPoints(nd) \in {0, 7, 15}
      /\ CVEPoints(nd) = 0 <=> SaysCVEs(cache', nd)
  <2>1. audit = NoAudit => (SaysCVEs(cache', nd) <=> SaysCVEs(cache, nd))
    BY <1>4
  <2> QED
    BY <1>3, <1>4, <2>1, CVEPointsTold
<1>6. ~dirty' => ~dirty /\ cache' = cache
  BY <1>4 DEF Iteration
<1>7. ASSUME NEW m \in Nodes, m # nd, cache[NameOf(m)] # NoEntry
      PROVE  /\ cache'[NameOf(m)] # NoEntry
             /\ SaysCVEs(cache', m) <=> SaysCVEs(cache, m)
             /\ cache'[NameOf(m)].dl = cache[NameOf(m)].dl
  <2>1. NameOf(m) \in Names /\ (NameOf(m) = NameOf(nd) => VersionOf(m) # VersionOf(nd))
    BY <1>7, NodeIsPair
  <2> QED
    BY <1>4, <1>7, <2>1 DEF SaysCVEs
<1> QED
  BY <1>2, <1>3, <1>4, <1>5, <1>6, <1>7

\* The points for downloads are at most ptsMaxDownloads.
LEMMA TotalIsBase ==
  ASSUME Inv, NEW nd \in Nodes, NEW cves \in {0, 7, 15}
  PROVE  Base(nd, cves) = Total(hashed, nd, cves) /\ Base(nd, cves) \in Nat
BY DEF Base, Total, ptsHashVerified, ptsMaturity

\* A node that needs no request is scored with what its entry says then.
LEMMA VerdictAtOnce ==
  ASSUME Inv, VInv, NEW nd \in Nodes, SkipDownloads(nd) \/ ScoreFromCache(nd) \/ ScoreFromInflight(nd)
  PROVE  VInv'
<1> DEFINE n == NameOf(nd)
           cves == CVEPoints(nd)
<1>1. Iteration(nd) /\ UNCHANGED <<current, inflight, fetches>>
  BY DEF SkipDownloads, ScoreFromCache, ScoreFromInflight
<1>2. /\ phase = "score" /\ phase' = "score" /\ current = NoNode /\ queue' = queue \ {nd}
      /\ cache' = CacheAfterCVEs(nd)
      /\ UNCHANGED <<disk, policy, hashed, audit>>
  BY DEF SkipDownloads, ScoreFromCache, ScoreFromInflight, Record, Iteration, runVars
<1>3. policy.minScore \in Nat /\ Base(nd, cves) = Total(hashed, nd, cves) /\ Base(nd, cves) \in Nat
  <2>1. policy.minScore \in 0..80
    BY PoliciesAssumption DEF Inv, TypeOK, PolicyType
  <2>2. CVEPoints(nd) \in {0, 7, 15}
    BY <1>1, IterationKeeps
  <2> QED
    BY <2>1, <2>2, TotalIsBase
<1>4. PICK downloads, skipped :
        /\ Record(nd, cves, downloads, skipped)
        /\ Base(nd, cves) + downloads < policy.minScore <=>
             TooLow(cache', cves, hashed, policy.minScore, nd)
  <2> DEFINE points == ScoreDownloadsByCount(cache'[n].dl)
  <2>1. points \in {0, 5, 10, 15, 20}
    BY DownloadPoints
  <2>2. CASE SkipDownloads(nd)
    <3>1. Record(nd, cves, 0, TRUE) /\ Base(nd, cves) + 20 < policy.minScore
      <4>1. Record(nd, cves, 0, TRUE) /\ ~(Base(nd, cves) + 20 >= policy.minScore)
        BY <2>2 DEF SkipDownloads, Reaches, ptsMaxDownloads
      <4>2. \A b, m \in Nat : ~(b + 20 >= m) => b + 20 < m
        OBVIOUS
      <4>3. policy.minScore \in Nat /\ Base(nd, cves) \in Nat
        BY <1>3
      <4> HIDE DEF cves
      <4> QED
        BY <4>1, <4>2, <4>3
    <3>2. Base(nd, cves) + 0 < policy.minScore /\ Base(nd, cves) + points < policy.minScore
      <4>1. \A b, m \in Nat, x \in {0, 5, 10, 15, 20} : b + 20 < m => b + 0 < m /\ b + x < m
        OBVIOUS
      <4> HIDE DEF points, cves
      <4> QED
        BY <1>3, <2>1, <3>1, <4>1
    <3> QED
      BY <1>3, <3>1, <3>2 DEF TooLow
  <2>3. CASE ScoreFromCache(nd)
    <3>1. Record(nd, cves, points, FALSE)
      BY <1>2, <2>3 DEF ScoreFromCache
    <3> QED
      BY <1>3, <3>1 DEF TooLow
  <2>4. CASE ScoreFromInflight(nd)
    <3>1. cache'[n] # NoEntry
      BY <1>1, IterationKeeps
    <3>2. Record(nd, cves, points, FALSE)
      BY <1>2, <2>4, <3>1 DEF ScoreFromInflight, Fallback
    <3> QED
      BY <1>3, <3>2 DEF TooLow
  <2> QED
    BY <2>2, <2>3, <2>4
<1>5. Verdicts'
  BY <1>1, <1>2, <1>4, IterationKeeps, RecordTells DEF Inv, TypeOK, VInv
<1>6. Waiting'
  <2>1. ASSUME NEW m \in queue' PROVE <<m, "min_score">> \notin violations'
    BY <1>2, <1>4, <2>1 DEF Record, VInv, Waiting, Running
  <2> QED
    BY <1>1, <1>2, <2>1 DEF VInv, Waiting, Running
<1>7. CleanIsSaved' /\ Prefetched' /\ SavedAll'
  BY <1>1, <1>2, IterationKeeps DEF VInv, CleanIsSaved, Prefetched, SavedAll, Saved, Running
<1> QED
  BY <1>5, <1>6, <1>7 DEF VInv

\* A node whose downloads are asked for keeps its place in the queue.
LEMMA VerdictStart ==
  ASSUME Inv, VInv, NEW nd \in Nodes, StartInflight(nd)
  PROVE  VInv'
<1>1. /\ Iteration(nd) /\ phase = "score" /\ phase' = "score" /\ nd \in queue
      /\ UNCHANGED <<disk, policy, hashed, audit, queue, scores, violations>>
      /\ current' = nd
      /\ inflight' = [inflight EXCEPT ![NameOf(nd)] = "pending"]
      /\ inflight[NameOf(nd)] = "none"
  BY DEF StartInflight, Iteration, runVars
<1>2. Verdicts'
  <2> SUFFICES ASSUME NEW m \in ToScore(policy, hashed)
               PROVE  /\ cache'[NameOf(m)] # NoEntry
                      /\ m \notin queue => Told(cache', scores[m], m)
                      /\ m \notin queue /\ inflight'[NameOf(m)] # "ok" =>
                           (<<m, "min_score">> \in violations <=>
                              TooLow(cache', scores[m].cves, hashed, policy.minScore, m))
    BY <1>1 DEF Verdicts, Told, SaysCVEs
  <2>1. m \in Nodes /\ NameOf(m) \in Names /\ NameOf(nd) \in Names
    BY NodeIsPair DEF ToScore
  <2>2. inflight'[NameOf(m)] # "ok" => inflight[NameOf(m)] # "ok"
    BY <1>1, <2>1 DEF Inv, TypeOK
  <2>3. /\ cache[NameOf(m)] # NoEntry
        /\ m \notin queue => Told(cache, scores[m], m)
        /\ m \notin queue /\ inflight[NameOf(m)] # "ok" =>
             (<<m, "min_score">> \in violations <=>
                TooLow(cache, scores[m].cves, hashed, policy.minScore, m))
    BY <1>1 DEF VInv, Verdicts
  <2>4. CASE m = nd
    BY <1>1, <2>4, IterationKeeps
  <2>5. CASE m # nd
    BY <1>1, <2>1, <2>2, <2>3, <2>5, IterationKeeps DEF Told, TooLow
  <2> QED
    BY <2>4, <2>5
<1>3. Waiting'
  BY <1>1, IterationKeeps DEF VInv, Waiting, Running
<1>4. CleanIsSaved' /\ Prefetched' /\ SavedAll'
  BY <1>1, IterationKeeps DEF VInv, CleanIsSaved, Prefetched, SavedAll, Saved, Running
<1> QED
  BY <1>2, <1>3, <1>4 DEF VInv

\* When the answer comes, or none, the node is scored with what is stored then.
LEMMA VerdictInflight ==
  ASSUME Inv, VInv, Inflight
  PROVE  VInv'
<1> DEFINE nd == current
           n == NameOf(nd)
           cves == CVEPoints(nd)
<1>1. /\ nd \in Nodes /\ n \in Names /\ current # NoNode /\ nd \in queue
      /\ phase = "score" /\ phase' = "score" /\ current' = NoNode /\ queue' = queue \ {nd}
      /\ UNCHANGED <<disk, policy, hashed, audit>>
  <2>1. current # NoNode
    BY DEF Inflight, InflightAnswered, InflightFailed
  <2> QED
    BY <2>1, NodeIsPair
       DEF Inflight, InflightAnswered, InflightFailed, Record, Inv, FetchInv, TypeOK, VInv,
           Waiting, runVars
<1>2. cache[n] # NoEntry /\ nd \in ToScore(policy, hashed) /\ <<nd, "min_score">> \notin violations
  BY <1>1 DEF VInv, Verdicts, Waiting, Running
<1>3. /\ cves \in {0, 7, 15}
      /\ cves = 0 <=> SaysCVEs(cache, nd)
  <2>1. audit # NoAudit => (n \in audit <=> VersionOf(nd) \in cache[n].bad)
    BY <1>1 DEF VInv, Waiting
  <2> QED
    BY <1>1, <1>2, <2>1, CVEPointsTold
<1>4. /\ cache'[n] # NoEntry
      /\ cache'[n].bad = cache[n].bad /\ cache'[n].old = cache[n].old
      /\ \A m \in Names : m # n => cache'[m] = cache[m] /\ inflight'[m] = inflight[m]
      /\ inflight'[n] # "ok" => cache' = cache /\ inflight[n] # "ok"
      /\ ~dirty' => ~dirty /\ cache' = cache
  <2>1. CASE InflightFailed
    BY <1>1, <1>2, <2>1 DEF InflightFailed, Inv, TypeOK, FetchInv
  <2>2. ASSUME NEW count \in Counts, InflightAnswered(count)
        PROVE  /\ cache'[n] # NoEntry
               /\ cache'[n].bad = cache[n].bad /\ cache'[n].old = cache[n].old
               /\ \A m \in Names : m # n => cache'[m] = cache[m] /\ inflight'[m] = inflight[m]
               /\ inflight'[n] = "ok"
               /\ dirty'
    <3>1. /\ cache' = SetDownloads(cache, n, count, clock, clock) /\ dirty'
          /\ inflight' = [inflight EXCEPT ![n] = "ok"]
      BY <2>2 DEF InflightAnswered
    <3>2. cache \in Cache /\ clock \in 0..MaxTime /\ count \in Counts \cup {0}
      BY DEF Inv, TypeOK
    <3>3. cache'[n] # NoEntry /\ (\A m \in Names : m # n => cache'[m] = cache[m])
      <4> HIDE DEF n
      <4> QED
        BY <1>1, <3>1, <3>2, SetDownloadsTyped
    <3>4. cache'[n].bad = cache[n].bad /\ cache'[n].old = cache[n].old
      <4>1. EntryOf(cache, n) = cache[n]
        BY <1>2 DEF EntryOf
      <4> HIDE DEF n
      <4> QED
        BY <1>1, <3>1, <3>2, <4>1, SetDownloadsKeeps
    <3> QED
      BY <1>1, <3>1, <3>3, <3>4 DEF Inv, TypeOK
  <2> QED
    BY <2>1, <2>2 DEF Inflight
<1>5. PICK downloads, skipped :
        /\ Record(nd, cves, downloads, skipped)
        /\ inflight'[n] # "ok" =>
             (Base(nd, cves) + downloads < policy.minScore <=>
                TooLow(cache', cves, hashed, policy.minScore, nd))
  <2>1. CASE InflightFailed
    <3>1. Record(nd, cves, ScoreDownloadsByCount(cache[n].dl), FALSE) /\ cache' = cache
      BY <1>2, <2>1 DEF InflightFailed, Fallback
    <3>2. Base(nd, cves) = Total(hashed, nd, cves)
      BY <1>1, <1>3, TotalIsBase
    <3> QED
      BY <3>1, <3>2 DEF TooLow
  <2>2. CASE \E count \in Counts : InflightAnswered(count)
    <3>1. inflight'[n] = "ok"
      BY <1>1, <2>2 DEF InflightAnswered, Inv, TypeOK
    <3> QED
      BY <2>2, <3>1 DEF InflightAnswered
  <2> QED
    BY <2>1, <2>2 DEF Inflight
<1>6. ASSUME NEW m \in Nodes, m # nd, cache[NameOf(m)] # NoEntry
      PROVE  /\ cache'[NameOf(m)] # NoEntry
             /\ SaysCVEs(cache', m) <=> SaysCVEs(cache, m)
             /\ inflight'[NameOf(m)] # "ok" =>
                  /\ inflight[NameOf(m)] # "ok"
                  /\ cache'[NameOf(m)].dl = cache[NameOf(m)].dl
  <2>1. NameOf(m) \in Names
    BY NodeIsPair
  <2> QED
    BY <1>4, <1>6, <2>1 DEF SaysCVEs
<1>7. Verdicts'
  <2>1. cves = 0 <=> SaysCVEs(cache', nd)
    BY <1>3, <1>4 DEF SaysCVEs
  <2>2. /\ Verdicts /\ scores \in [Nodes -> Score \cup {NoScore}]
        /\ UNCHANGED <<policy, hashed, audit>>
    BY <1>1 DEF VInv, Inv, TypeOK
  <2> HIDE DEF nd, cves
  <2> QED
    BY <1>1, <1>2, <1>4, <1>5, <1>6, <2>1, <2>2, RecordTells DEF n
<1>8. Waiting'
  <2>1. ASSUME NEW m \in queue' PROVE <<m, "min_score">> \notin violations'
    BY <1>1, <1>5, <2>1 DEF Record, VInv, Waiting, Running
  <2> QED
    BY <1>1, <2>1 DEF VInv, Waiting, Running
<1>9. CleanIsSaved' /\ Prefetched' /\ SavedAll'
  BY <1>1, <1>4 DEF VInv, CleanIsSaved, Prefetched, SavedAll, Saved, Running
<1> QED
  BY <1>7, <1>8, <1>9 DEF VInv

\* The end saves the cache as it was used.
LEMMA VerdictEnd ==
  ASSUME Inv, VInv, SaveCache \/ Cancel \/ NextProcess \/ Tick \/ UNCHANGED vars
  PROVE  VInv'
<1> USE DEF VInv, CleanIsSaved, Prefetched, Verdicts, Waiting, SavedAll, Running, Saved,
    Told, SaysCVEs, poolVars, runVars
<1>1. CASE SaveCache
  <2>1. /\ phase = "score" /\ phase' = "done" /\ queue = {} /\ current = NoNode
        /\ UNCHANGED <<policy, hashed, queue, current, cache, scores, inflight, audit>>
        /\ outcome' = "ok" => disk' = cache /\ violations' = violations
    BY <1>1 DEF SaveCache, Return
  <2> QED
    BY <2>1
<1>2. CASE Cancel
  BY <1>2 DEF Cancel
<1>3. CASE NextProcess
  BY <1>3 DEF NextProcess
<1>4. CASE Tick
  BY <1>4 DEF Tick
<1>5. CASE UNCHANGED vars
  BY <1>5 DEF vars
<1> QED
  BY <1>1, <1>2, <1>3, <1>4, <1>5

\* It holds at first,
LEMMA InitVInv == Init => VInv
BY DEF Init, VInv, CleanIsSaved, Prefetched, Verdicts, Waiting, SavedAll, Running, Saved

\* and every step keeps it.
LEMMA StepVInv == Inv /\ VInv /\ [Next]_vars => VInv'
BY VerdictBefore, VerdictPool, VerdictAtOnce, VerdictStart, VerdictInflight, VerdictEnd
   DEF Next, Main

\* Whatever was fetched, failed or skipped, the saved cache explains the verdict.
THEOREM VerdictSound == Spec => []SavedCacheExplainsVerdict
<1>1. Inv /\ VInv => SavedCacheExplainsVerdict
  <2> SUFFICES ASSUME Inv, VInv, phase = "done", outcome = "ok", ~Disabled, policy.minScore > 0,
                      NEW nd \in ScoreNodes
               PROVE  LET n == NameOf(nd) IN
                      /\ disk[n] # NoEntry
                      /\ scores[nd].cves = 0 <=> SaysCVEs(disk, nd)
                      /\ inflight[n] # "ok" =>
                           (<<nd, "min_score">> \in violations <=>
                              Base(nd, scores[nd].cves) + ScoreDownloadsByCount(disk[n].dl)
                                < policy.minScore)
    BY DEF SavedCacheExplainsVerdict
  <2>1. Saved /\ nd \in ToScore(policy, hashed)
    BY ScoreNodesAre DEF Saved, Disabled
  <2>2. disk = cache /\ nd \notin queue
    BY <2>1 DEF VInv, SavedAll
  <2>3. Base(nd, scores[nd].cves) = Total(hashed, nd, scores[nd].cves)
    BY DEF Base, Total
  <2> QED
    BY <2>1, <2>2, <2>3 DEF VInv, Verdicts, Told, TooLow
<1> QED
  BY <1>1, InitInv, StepInv, InitVInv, StepVInv, PTL DEF Spec

-----------------------------------------------------------------------------
(* Fail closed. *)

\* A count that earns points is one the registry answered.
Backed(c) ==
  \A n \in Names :
    c[n] # NoEntry /\ ScoreDownloadsByCount(c[n].dl) > 0 => c[n].asOf # Never

\* In memory and on disk every such count is backed; no node has a score before
\* the scoring.
BackedInv ==
  /\ Backed(cache)
  /\ disk # Corrupt => Backed(disk)
  /\ phase \in {"idle", "audit", "prefetch"} => \A nd \in Nodes : scores[nd] = NoScore
  /\ FailClosedEarnsNothing

\* A count that is stored is 0 or comes with the time of its answer,
LEMMA SetDownloadsBacked ==
  ASSUME NEW c \in Cache, Backed(c), NEW n \in Names, NEW count \in Counts \cup {0},
         NEW asOf \in (0..MaxTime) \cup {Never}, count = 0 \/ asOf # Never,
         NEW now \in 0..MaxTime
  PROVE  Backed(SetDownloads(c, n, count, asOf, now))
<1> DEFINE d == SetDownloads(c, n, count, asOf, now)
<1>1. d[n].dl = count /\ d[n].asOf = asOf
  BY SetDownloadsKeeps
<1>2. \A m \in Names : m # n => d[m] = c[m]
  BY DEF SetDownloads, Cache
<1>3. ~(ScoreDownloadsByCount(0) > 0)
  BY DEF ScoreDownloadsByCount
<1> HIDE DEF d
<1>4. Backed(d)
  BY <1>1, <1>2, <1>3 DEF Backed
<1> QED
  BY <1>4 DEF d

\* and storing an audit keeps the counts.
LEMMA CacheAfterCVEsBacked ==
  ASSUME TypeOK, Backed(cache), NEW nd \in Nodes
  PROVE  /\ Backed(CacheAfterCVEs(nd))
         /\ \A m \in Names : EntryOf(CacheAfterCVEs(nd), m).asOf = EntryOf(cache, m).asOf
<1> DEFINE n == NameOf(nd)
           d == CacheAfterCVEs(nd)
<1>1. n \in Names
  BY NodeIsPair
<1>2. /\ \A m \in Names : m # n => d[m] = cache[m]
      /\ d[n] # NoEntry => d[n].dl = EntryOf(cache, n).dl /\ d[n].asOf = EntryOf(cache, n).asOf
      /\ cache[n] # NoEntry => d[n] # NoEntry
  BY CacheAfterCVEsKeeps
<1>3. ~(ScoreDownloadsByCount(0) > 0)
  BY DEF ScoreDownloadsByCount
<1> HIDE DEF d, n
<1>4. /\ cache[n] # NoEntry => EntryOf(cache, n) = cache[n]
      /\ cache[n] = NoEntry => EntryOf(cache, n).dl = 0 /\ EntryOf(cache, n).asOf = Never
  BY DEF EntryOf, ZeroEntry
<1>5. Backed(d)
  BY <1>2, <1>3, <1>4 DEF Backed
<1>6. ASSUME NEW m \in Names PROVE EntryOf(d, m).asOf = EntryOf(cache, m).asOf
  <2>1. CASE m = n
    BY <1>2, <1>4, <2>1 DEF EntryOf, ZeroEntry
  <2>2. CASE m # n
    BY <1>2, <2>2 DEF EntryOf
  <2> QED
    BY <2>1, <2>2
<1> QED
  BY <1>5, <1>6 DEF d

\* A new score under fail_closed; what was answered before stays answered.
LEMMA RecordEarns ==
  ASSUME FailClosedEarnsNothing, UNCHANGED policy,
         scores \in [Nodes -> Score \cup {NoScore}],
         NEW nd \in Nodes, NEW cves, NEW downloads, NEW skipped,
         Record(nd, cves, downloads, skipped),
         policy.failClosed /\ downloads > 0 => EntryOf(cache', NameOf(nd)).asOf # Never,
         \A m \in Names :
           EntryOf(cache, m).asOf # Never => EntryOf(cache', m).asOf # Never
  PROVE  FailClosedEarnsNothing'
<1> DEFINE r == [cves |-> cves, downloads |-> downloads, skipped |-> skipped]
<1>1. scores' = [scores EXCEPT ![nd] = r]
  BY DEF Record
<1>2. r.downloads = downloads
  OBVIOUS
<1> HIDE DEF r
<1>3. ASSUME policy.failClosed, NEW m \in Nodes, scores'[m] # NoScore, scores'[m].downloads > 0
      PROVE  EntryOf(cache', NameOf(m)).asOf # Never
  <2>1. CASE m = nd
    BY <1>1, <1>2, <1>3, <2>1
  <2>2. CASE m # nd
    <3>1. scores'[m] = scores[m] /\ NameOf(m) \in Names
      BY <1>1, <2>2, NodeIsPair
    <3>2. EntryOf(cache, NameOf(m)).asOf # Never
      BY <1>3, <3>1 DEF FailClosedEarnsNothing
    <3> QED
      BY <3>1, <3>2
  <2> QED
    BY <2>1, <2>2
<1> QED
  BY <1>3 DEF FailClosedEarnsNothing

\* The points of an entry that is backed are earned.
LEMMA BackedEarns ==
  ASSUME NEW c, Backed(c), NEW n \in Names, c[n] # NoEntry,
         ScoreDownloadsByCount(c[n].dl) > 0
  PROVE  EntryOf(c, n).asOf # Never
BY DEF Backed, EntryOf

\* The pool stores answers, and 0 for a failure.
LEMMA BackedPool ==
  ASSUME Inv, BackedInv, (\E n \in Names : Dispatch(n) \/ Worker(n)) \/ PrefetchDone
  PROVE  BackedInv'
<1> USE DEF BackedInv
<1>1. phase = "prefetch"
  BY DEF Dispatch, Worker, WorkerAnswered, WorkerFailed, WorkerReleases, WorkerDone,
         PrefetchDone, Inv, PoolInv, Outstanding
<1>2. UNCHANGED <<policy, scores, disk>> /\ \A nd \in Nodes : scores[nd] = NoScore
  BY <1>1 DEF Dispatch, Worker, WorkerAnswered, WorkerFailed, WorkerReleases, WorkerDone,
              PrefetchDone, unchangedByPool, runVars
<1>3. Backed(cache')
  <2>1. ASSUME NEW n \in Names, NEW count \in Counts, WorkerAnswered(n, count)
        PROVE  Backed(cache')
    <3>1. clock \in 0..MaxTime /\ clock # Never /\ cache \in Cache
      BY TimeAssumption, NoEntryAssumption DEF Inv, TypeOK
    <3> QED
      BY <2>1, <3>1, SetDownloadsBacked DEF WorkerAnswered
  <2>2. ASSUME NEW n \in Names, WorkerFailed(n)
        PROVE  Backed(cache')
    <3>1. clock \in 0..MaxTime /\ cache \in Cache
      BY DEF Inv, TypeOK
    <3> QED
      BY <2>2, <3>1, SetDownloadsBacked DEF WorkerFailed
  <2>3. CASE UNCHANGED cache
    BY <2>3
  <2> QED
    BY <2>1, <2>2, <2>3 DEF Dispatch, Worker, WorkerReleases, WorkerDone, PrefetchDone
<1>4. FailClosedEarnsNothing'
  BY <1>2 DEF FailClosedEarnsNothing
<1>5. Backed(cache') => Backed(cache)' /\ (disk # Corrupt => Backed(disk))'
  BY <1>2
<1> QED
  BY <1>2, <1>3, <1>4, <1>5

\* A node that is scored from its entry,
LEMMA BackedIteration ==
  ASSUME Inv, BackedInv, NEW nd \in Nodes,
         SkipDownloads(nd) \/ ScoreFromCache(nd) \/ ScoreFromInflight(nd) \/ StartInflight(nd)
  PROVE  BackedInv'
<1> DEFINE n == NameOf(nd)
           cves == CVEPoints(nd)
<1>1. /\ phase' = "score" /\ cache' = CacheAfterCVEs(nd) /\ n \in Names
      /\ UNCHANGED <<disk, policy>>
  BY NodeIsPair DEF SkipDownloads, ScoreFromCache, ScoreFromInflight, StartInflight, Iteration,
     runVars
<1>2. /\ Backed(cache')
      /\ \A m \in Names : EntryOf(cache', m).asOf = EntryOf(cache, m).asOf
  BY <1>1, CacheAfterCVEsBacked DEF Inv, BackedInv
<1>3. FailClosedEarnsNothing'
  <2>1. CASE StartInflight(nd)
    <3>1. UNCHANGED scores /\ \A m \in Nodes : NameOf(m) \in Names
      BY <2>1, NodeIsPair DEF StartInflight
    <3> QED
      BY <1>1, <1>2, <3>1 DEF BackedInv, FailClosedEarnsNothing
  <2>2. ASSUME NEW downloads, NEW skipped, Record(nd, cves, downloads, skipped),
               policy.failClosed /\ downloads > 0 => EntryOf(cache', n).asOf # Never
        PROVE  FailClosedEarnsNothing'
    BY <1>1, <1>2, <2>2, RecordEarns DEF Inv, TypeOK, BackedInv
  <2>3. CASE SkipDownloads(nd)
    <3>1. Record(nd, cves, 0, TRUE)
      BY <2>3 DEF SkipDownloads
    <3>2. ~(0 > 0)
      OBVIOUS
    <3> QED
      BY <2>2, <3>1, <3>2
  <2>4. CASE ScoreFromCache(nd)
    <3>1. /\ Record(nd, cves, ScoreDownloadsByCount(cache'[n].dl), FALSE)
          /\ cache'[n] # NoEntry
      BY <1>1, <2>4 DEF ScoreFromCache, Fresh
    <3> QED
      BY <1>1, <1>2, <2>2, <3>1, BackedEarns
  <2>5. CASE ScoreFromInflight(nd)
    <3>1. Record(nd, cves, Fallback(cache', n), FALSE)
      BY <1>1, <2>5 DEF ScoreFromInflight
    <3>2. policy.failClosed /\ Fallback(cache', n) > 0 =>
            cache'[n] # NoEntry /\ ScoreDownloadsByCount(cache'[n].dl) > 0
      BY DEF Fallback
    <3> QED
      BY <1>1, <1>2, <2>2, <3>1, <3>2, BackedEarns
  <2> QED
    BY <2>1, <2>3, <2>4, <2>5
<1> QED
  BY <1>1, <1>2, <1>3 DEF BackedInv

\* after a request of its own,
LEMMA BackedInflight ==
  ASSUME Inv, BackedInv, Inflight
  PROVE  BackedInv'
<1> DEFINE nd == current
           n == NameOf(nd)
           cves == CVEPoints(nd)
<1>1. /\ nd \in Nodes /\ n \in Names /\ phase' = "score" /\ UNCHANGED <<disk, policy>>
      /\ scores \in [Nodes -> Score \cup {NoScore}] /\ cache \in Cache
  <2>1. current # NoNode
    BY DEF Inflight, InflightAnswered, InflightFailed
  <2> QED
    BY <2>1, NodeIsPair
       DEF Inflight, InflightAnswered, InflightFailed, Inv, FetchInv, TypeOK, runVars
<1>2. CASE InflightFailed
  <2>1. Record(nd, cves, Fallback(cache, n), FALSE) /\ cache' = cache
    BY <1>2 DEF InflightFailed
  <2>2. policy.failClosed /\ Fallback(cache, n) > 0 =>
          cache[n] # NoEntry /\ ScoreDownloadsByCount(cache[n].dl) > 0
    BY DEF Fallback
  <2>3. policy.failClosed /\ Fallback(cache, n) > 0 => EntryOf(cache', n).asOf # Never
    BY <1>1, <2>1, <2>2, BackedEarns DEF BackedInv
  <2>4. FailClosedEarnsNothing'
    <3>1. FailClosedEarnsNothing
      BY DEF BackedInv
    <3> HIDE DEF nd, cves
    <3> QED
      BY <1>1, <2>1, <2>3, <3>1, RecordEarns DEF n
  <2> QED
    BY <1>1, <2>1, <2>4 DEF BackedInv
<1>3. ASSUME NEW count \in Counts, InflightAnswered(count)
      PROVE  BackedInv'
  <2>1. /\ Record(nd, cves, ScoreDownloadsByCount(count), FALSE)
        /\ cache' = SetDownloads(cache, n, count, clock, clock)
    BY <1>3 DEF InflightAnswered
  <2>2. clock \in 0..MaxTime /\ clock # Never
    BY TimeAssumption, NoEntryAssumption DEF Inv, TypeOK
  <2>3. Backed(cache')
    <3> HIDE DEF n
    <3> QED
      BY <1>1, <2>1, <2>2, SetDownloadsBacked DEF BackedInv
  <2>4. /\ EntryOf(cache', n).asOf # Never
        /\ \A m \in Names : m # n => cache'[m] = cache[m]
    <3> HIDE DEF n
    <3>1. cache'[n] # NoEntry /\ \A m \in Names : m # n => cache'[m] = cache[m]
      BY <1>1, <2>1, <2>2, SetDownloadsTyped
    <3>2. cache'[n].asOf = clock
      BY <1>1, <2>1, SetDownloadsKeeps
    <3> QED
      BY <2>2, <3>1, <3>2 DEF EntryOf
  <2>5. FailClosedEarnsNothing'
    <3>1. FailClosedEarnsNothing /\ \A m \in Names :
            EntryOf(cache, m).asOf # Never => EntryOf(cache', m).asOf # Never
      BY <2>4 DEF BackedInv, EntryOf
    <3> HIDE DEF nd, cves
    <3> QED
      BY <1>1, <2>1, <2>4, <3>1, RecordEarns DEF n
  <2> QED
    BY <1>1, <2>3, <2>5 DEF BackedInv
<1> QED
  BY <1>2, <1>3 DEF Inflight

\* and all that happens besides.
LEMMA BackedOther ==
  ASSUME Inv, BackedInv,
         \/ EvaluateReturnsEarly \/ EvaluateLoadsCache \/ FetchAuditCVEs \/ SaveCache
         \/ Cancel \/ NextProcess \/ Tick \/ UNCHANGED vars
  PROVE  BackedInv'
<1> USE DEF BackedInv, FailClosedEarnsNothing, runVars
<1>1. CASE EvaluateReturnsEarly
  BY <1>1 DEF EvaluateReturnsEarly, Return
<1>2. CASE EvaluateLoadsCache
  BY <1>2 DEF EvaluateLoadsCache
<1>3. CASE FetchAuditCVEs
  BY <1>3 DEF FetchAuditCVEs
<1>4. CASE SaveCache
  <2>1. /\ phase' = "done" /\ UNCHANGED <<policy, cache, scores>>
        /\ disk' = cache \/ disk' = disk
    BY <1>4 DEF SaveCache, Return
  <2> QED
    BY <2>1
<1>5. CASE Cancel
  BY <1>5 DEF Cancel
<1>6. CASE NextProcess
  <2>1. Backed(EmptyCache)
    BY DEF Backed, EmptyCache
  <2> QED
    BY <1>6, <2>1 DEF NextProcess
<1>7. CASE Tick
  BY <1>7 DEF Tick
<1>8. CASE UNCHANGED vars
  BY <1>8 DEF vars
<1> QED
  BY <1>1, <1>2, <1>3, <1>4, <1>5, <1>6, <1>7, <1>8

\* It holds at first,
LEMMA InitBackedInv == Init => BackedInv
<1>1. Backed(EmptyCache) /\ Backed(OldCache)
  BY OldCacheTyped DEF Backed, EmptyCache, ScoreDownloadsByCount
<1> QED
  BY <1>1 DEF Init, BackedInv, FailClosedEarnsNothing

\* and every step keeps it.
LEMMA StepBackedInv == Inv /\ BackedInv /\ [Next]_vars => BackedInv'
BY BackedPool, BackedIteration, BackedInflight, BackedOther DEF Next, Main

\* Under fail_closed neither a stand-in count nor a missing entry earns points.
THEOREM FailClosedSound == Spec => []FailClosedEarnsNothing
<1>1. BackedInv => FailClosedEarnsNothing
  BY DEF BackedInv
<1> QED
  BY <1>1, InitInv, StepInv, InitBackedInv, StepBackedInv, PTL DEF Spec
=============================================================================
