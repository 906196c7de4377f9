----------------------------- MODULE TrustCache -----------------------------
(***************************************************************************)
(* trust.TrustCache: the map from package name to CacheEntry that          *)
(* LoadCache reads from .scalp/cache/trust.json and Save writes back.      *)
(* Its methods are operators here; each runs under the cache's mutex.      *)
(*                                                                         *)
(* An entry has one timestamp for two kinds of data, the download count of *)
(* the package and the audit result of its versions.  A version audited    *)
(* clean is stored with no CVEs, which is what the code gets for a version *)
(* it never audited, too: only "bad" versions can be told apart.           *)
(***************************************************************************)
EXTENDS Naturals

CONSTANTS
  Names,      \* package names
  Versions,   \* their versions
  Counts,     \* weekly download counts the registry may answer
  MaxTime,    \* bound of the clock
  TTL,        \* DefaultTTL, in ticks of the clock
  NoEntry,    \* what Get returns for a name that is not in the map
  Never       \* the stored count answers no request

ASSUME TimeAssumption == TTL \in Nat /\ MaxTime \in Nat
ASSUME CountsAssumption == Counts \subseteq Nat
ASSUME NoEntryAssumption == Never \notin Nat

Entry ==
  [at      : 0..MaxTime,          \* FetchedAt
   dl      : Counts \cup {0},     \* WeeklyDownloads
   audited : SUBSET Versions,     \* the keys of Versions
   bad     : SUBSET Versions,     \* those stored with CVEs
   old     : BOOLEAN,             \* CVEs of the package, which no method stores
   asOf    : (0..MaxTime) \cup {Never}]
                                  \* history: when the registry answered dl
ASSUME EntryAssumption == NoEntry \notin Entry

Cache == [Names -> Entry \cup {NoEntry}]
EmptyCache == [n \in Names |-> NoEntry]

\* The zero CacheEntry, what indexing the map with a new name yields.
ZeroEntry ==
  [at |-> 0, dl |-> 0, audited |-> {}, bad |-> {}, old |-> FALSE, asOf |-> Never]
EntryOf(cache, n) == IF cache[n] = NoEntry THEN ZeroEntry ELSE cache[n]

IsExpired(e, now) == now > e.at + TTL

Fresh(cache, n, now) == cache[n] # NoEntry /\ ~IsExpired(cache[n], now)

\* asOf is now for a count the registry answered, Never for a stand-in.
SetDownloads(cache, n, count, asOf, now) ==
  [cache EXCEPT ![n] =
     [EntryOf(cache, n) EXCEPT !.at = now, !.dl = count, !.asOf = asOf]]

SetVersionCVEs(cache, n, v, isBad, now) ==
  [cache EXCEPT ![n] =
     [EntryOf(cache, n) EXCEPT !.at = now,
                               !.audited = @ \cup {v},
                               !.bad = IF isBad THEN @ \cup {v} ELSE @ \ {v}]]

\* GetVersionCVEs returns a non-nil list only for a version stored with CVEs.
HasVersionCVEs(cache, n, v) == cache[n] # NoEntry /\ v \in cache[n].bad

\* The CVEs that an earlier scalp stored with the package, for all of its versions.
HasCVEs(cache, n) == cache[n] # NoEntry /\ cache[n].old

\* A cache of such entries.
OldEntry ==
  [at |-> 0, dl |-> 0, audited |-> {}, bad |-> {}, old |-> TRUE, asOf |-> Never]
OldCache == [n \in Names |-> OldEntry]

ScoreDownloadsByCount(count) ==
  IF count >= 100000 THEN 20
  ELSE IF count >= 10000 THEN 15
  ELSE IF count >= 1000 THEN 10
  ELSE IF count >= 100 THEN 5
  ELSE 0
=============================================================================
