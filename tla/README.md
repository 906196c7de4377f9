# A specification of SCAL-P

SCAL-P (`scalp`) stands before npm, pnpm, yarn and bun: it evaluates the packages
of a project against a policy and a trust score, lets the package manager install
them, records a hash of every installed package in `.scalp/lockfile.json`, and
checks that record later. This directory models the parts of it whose correctness
depends on the order of things: concurrent requests, failures, interruptions,
stale data and the sequence of the steps of a command. The modules are translated
from the Go source; the documents are used only for what they promise.

Run a model with `tlc -config X.cfg MCModule` and a proof with `tlapm Module.tla`.
`PROJECT.json` maps every definition to the lines it models, and lists the runs,
the mutants that break each property, the findings and the hazards.

## 1. Inventory

| Component (src/internal) | State | Operations | Hard behaviours | Correct when |
|---|---|---|---|---|
| `ioutil/atomic.go` | a file and its `.tmp` sibling | `WriteFileAtomic`; readers use `os.ReadFile` | two writers of one path, crash between write and rename, errors half way | a reader sees one whole version; failures leave the target alone |
| `trust/cache.go` | `.scalp/cache/trust.json`: counts, CVEs per version, one time stamp per package | `LoadCache`, `Get`, `IsExpired`, `SetDownloads`, `SetVersionCVEs`, `Save` | expiry, one time stamp for two facts | a used value is no older than its lifetime |
| `trust/score.go` | scores, violations, worker pool, in-flight requests | `Evaluate`, `prefetchDownloads`, `scoreDownloadsCached`, `fetchAuditCVEs`, `scoreCVEs` | pool and late answers, failures stored as answers, cancellation | every run ends, fetches a name once, and its verdict follows from what it saved |
| `lockfile`, `signing`, `hash` | `.scalp/lockfile.json` with signature, the signing key | `Load`, `SyncWithTree`, `Save`, `VerifyAgainstTree`, `LoadOrGenerate`, `Dir` | several copies of one package in random order, missing directories, changes while hashing, key half written | the saved lockfile describes what is installed; an audit is neither silent nor wrong |
| `cli` install, ci, audit | the project, the audit log, the ci report, the exit code | `runInstall`, `runCi`, `runAudit` | the order of evaluate, log, install, sync, verify, report, enforce; the failure of each | nothing rejected is installed; exit 0 is true; what is let through is logged |
| `yarn`, `pnpm`, `bun`, `npm` lockfiles | position in a lockfile that is read line by line, or entry by entry of its JSON | `ParseLockfile`, `sanitizeBunJSON` | values that arrive on a later line, unknown lines, key formats of several generations, commas in strings | the list has every package of the file, with its own name and values |
| `npm`, `pnpm`, `yarn`, `bun` adapters | a child process and what it prints | `Resolve`, `Install`, `GetTree` | output that is cut off, nesting read off a drawing, one map entry per name | what was shown is in the tree; a partial tree is noticed |
| `pkgmanager` | the walk over a tree; the lockfiles in the directory | `Flatten`, `Detect`, a registry | the node limit, random map order | the list is the tree |
| `policy` | `.scalp/policy.json` | `Load`, `Evaluate`, `ApplyEnforcement` | defaults, overlapping forms of globs, two matchers | a package is rejected exactly where a rule says so |
| `audit/logger.go` | `.scalp/audit.log` | `Log`, `Close` | partial appends, two processes | an event is logged once or the command fails |
| `cli` stage verify, verify, checksum, policy check | one artifact, the checksums file | `runStageVerify`, `runVerify`, `runChecksum`, `runPolicyCheck` | hashing while reading, a checksums file written in place, changes in between | what passes was compared |
| `reporter` | the three reports of a run | `RenderReport`, `RenderAuditMarkdown`, `RenderSarif` | counts and indices derived from two lists | a report says of the run what happened |
| `cli` init | policy, schema, lockfile, log | `runInit` | files written in place | a crash does not leave what a later run mistakes |
| `sanitize`; `version`; `ctxutil`; `cmd/scalp` | | | a signal cancels the context | |

How they interact: `cmd/scalp` makes a context that a signal cancels and calls
`cli.RunContext`, which picks the adapter and runs one command. A command calls the
adapter (child processes), `policy`, `trust` and `lockfile` one after the other in
one goroutine; the only goroutines are the workers of `prefetchDownloads`, which
share the cache (under its lock) with the main one. Everything durable is a file
in `.scalp/`, read as a whole and replaced by `WriteFileAtomic`, except the audit
log, which is appended to, and the signing key, which is written in place. Two
`scalp` processes share nothing but these files and take no lock.

## 2. Modules

| Module | Models | State and actions |
|---|---|---|
| `AtomicFile` | the promise of an atomic file | one register; writers and readers with a single step between call and return |
| `AtomicWrite` | `WriteFileAtomic` and its readers | inodes and two directory entries; one action per system call, and one for the failure of each; `Crash` |
| `TrustCache` | `cache.go` | an entry as a record, the operations as functions of the cache |
| `TrustScorer` | `Scorer.Evaluate` | `phase` of the main goroutine, `worker[n]`, the semaphore `sem` and wait group `wg`, the in-flight table, the cache in memory and on disk; `NextProcess` starts another run over the same file, `Tick` is the clock |
| `LockfileAudit` | `lockfile`, `signing`, and the part of init, install, ci and audit around them | directories and tree, the lockfile on disk and in memory, the loop over the nodes one at a time, key generation and the lockfile of init in two steps each; `Stop` interrupts, `Drift` is somebody else |
| `Commands` | `runInstall`, `runCi`, `runAudit` | one action per step, `Fails` for an error or a signal at any of them; policy and scorer are sets of rejected packages |
| `YarnLock`, `PnpmLock`, `BunLock`, `NpmLock` | the lockfile parsers | the lines, entries or paths read so far and the fields of the parser state; one action per branch of the loop |
| `LockfileParsers` | `Detect` and the parser it chooses | the lockfiles that are present, and the state of one of the four modules above, which it instantiates over common variables |
| `Flatten` | `pkgmanager.Flatten` | the queue, the children that are looked at, the list; one action per child, in any order |
| `PackageTree` | `GetTree` of the four adapters, composed with `Flatten` | a forest of installed packages; one action per adapter that turns what is shown of it into a tree |
| `PolicyRules` | the rules and both matchers, `Evaluate`, `ApplyEnforcement` | operators; no state |
| `Reports` | the counts, rules and results of the three reports | operators; no state |
| `Verification` | `runChecksum`, `runVerify`, `runStageVerify`, `runPolicyCheck`, `runAudit`, the end of `runCi` | the artifacts, the checksums file, the log, what is left of the tarball on standard input; `phase` as in `Commands`; it uses `PolicyRules` and `Reports` |
| `AtomicWriteProofs`, `TrustScorerProofs`, `LockfileAuditProofs`, `CommandsProofs`, `PackageTreeProofs`, `LockfileParsersProofs`, `VerificationProofs` | | the proofs, section 5 |
| `SequenceLemmas` | | lemmas on naturals and sequences that several of them need |
| `MC...` | | values of the constants for TLC |

`LockfileAudit`, `Commands` and `Verification` are three views of the same commands.
The first has the hashing loop in full and abstracts policy and scorer away; the
second has every step and abstracts the loop to a comparison of sets, which the
properties `SavedIsInstalled` and `NoFalseAlarm` of the first justify, and what the
adapters read to any sets (`nodes`, `got`), since lockfiles and trees may be read in part
and `PackageTree` and `LockfileParsers` say when; the third has
the rules, the events and the reports in full and takes what the lockfile check says
of each package from a set. Both use an atomic
replacement of the lockfile and `TrustScorer` one of the cache, which is the
register that `AtomicWrite` implements when calls do not overlap.

Abstractions that a reader should know:

- A package is a model value, `name@version` a key or a pair; a directory hash is
  the content of the directory; a signature is the content it was made over.
- A download count is one of two numbers, one on each side of a threshold. A cache of
  an earlier scalp has CVEs of a package and none of its versions (`OldCache`).
  Time is a small natural number; an entry's lifetime is `TTL` ticks and a run
  lasts at most `MaxRun`.
- A lockfile line is its indent, the word it begins with and whether a value
  follows; a value is known by the number of its line; a key is a sequence of
  tokens, cut where the code cuts the string. Entries of JSON are read in any order.
  A resolution of pnpm has an integrity, the address of a tarball, both or neither on its
  line; `extractInlineIntegrity` is what the code takes of them.
- A name, a pattern and a stage id are sequences of tokens, too; two of the words
  differ in case only. The tokens are a constant, of which `*`, `@`, `/`, `v` and `n` are.
- What a package manager has installed is a forest, written in the order in which it
  is printed: a package is at most one level below the one before it. A child process
  may print any part from the beginning.
- A tarball is the sequence of the reads that standard input answers; its hash is
  the reads that it was made of.
- What the scorer finds in `Verification` is a choice: a lack of a hash, a score that is
  too low, and the failures of its cache (`Scorings`); how it comes to it is `TrustScorer`.
  What the lockfile check finds of each package is one, too, of those that are not in the
  tree as well; how it comes to it is `LockfileAudit`.
- The limit of `Flatten` is in `PackageTree`, and not composed with the commands: there a
  tree is as long as it is.
- What a document says of a value is stated with history variables that no
  action reads (`asOf`, `answered`, `before`, `loaded`, `still`, `synced`, and `tree`, `hashed` and
  `kept` of `Verification`).

## 3. Runs

Passing runs:

| Run | Question | Bounds, and why they are enough |
|---|---|---|
| `AtomicWriteExclusive` | do writers and readers implement an atomic register when calls do not overlap? | 2 writers, 1 reader, 2 values, 2 blocks, 3 inodes: old target, new one and the one a reader holds; with a crash of each step |
| `TrustScorerPool` | is the pool bounded, nobody left when scoring starts, and does every evaluation end? | 3 names for 2 places, so that the dispatcher blocks; one run |
| `TrustScorerVersions` | that nothing prefetched expires in the run, saved cache explains the verdict, fail-closed, cache only grows | one package in two versions (they share an entry), 4 policies, 3 ticks with lifetime 1, so that entries expire between runs and inside one; no cache file, an old one or a corrupt one at first |
| `LockfileAudit` | does the saved lockfile describe what is installed, does the audit tell the truth, and is a signature that does not fit only left by a save without a whole key in hand? | 2 versions of a package and 2 directories: hoisted, nested, both, in two copies; 2 contents and 3 kinds of broken directory; one change by others at any point, commands without end |
| `Commands` | does the gate hold, is what it lets through logged, is exit 0 true of what was shown, and does the report agree? | 2 packages, of which the adapter may read any, 33 combinations of command, flags and policy, one change by others at any point, commands without end |
| `LockfileParsers` | which parser reads, what can a file of any lines do to the list, and is the list what the file says when the package manager wrote it? | every set of the 5 lockfiles. yarn: any 4 lines, or 7 that yarn writes; pnpm: any 5, or 8 that pnpm writes, or any 3 with every form of key: two keys, a value that is waited for and a line between. bun: 4 lines, 3 JSON entries, 2 of either with every form of key, 5 bytes: a string with an escaped quote and a comma. npm: any 4 of the paths, top-level, nested, in a workspace and malformed. 2 entries at most, so that the limit is met |
| `PackageTree` | what of an installed forest is listed, at which depth, and when is the list cut short? | 4 packages with 2 valid names and an invalid one: two levels with siblings, one name twice; any prefix shown; limit 3, so that it is met with and without a package left |
| `Verification` | do rules reject what they say, was what passes compared, does what was checksummed verify, and do the reports agree? | 12 policies, with each form of glob, one that sets no mode and one that requires hashes; 8 tarballs that go on after the package.json or have none; 3 artifacts in 2 directories, two of one base name, 2 contents, 3 commands and a change at any point, for what a checksum of before says; 2 packages in the tree and one that only the lockfile may have, each with every outcome of the check and of the scorer; 1.2 million states |

Four runs end in a violation. Each shows one place where the program does not do
what a document or comment of the repository says; `PROJECT.json` quotes it under
`findings`:

| Run | What the code does |
|---|---|
| `AtomicWriteShared` | two writers of one path share `path.tmp`: the target may be a mixture |
| `TrustScorerStale` | a failed request replaces the stale count, which was to be used, by a fresh 0 |
| `LockfileAuditCi` | ci overwrites the lockfile before it verifies it |
| `VerificationTarball` | stage verify hashes the tarball up to its package.json |

More disagreements are stated as properties in the modules (the last definitions of
each) and have no run of their own; some share their cause with one of the above.
Named as the only `INVARIANT` (`TmpCleanedOnFailure`: `PROPERTY`) in the
configuration given, each is violated:

| Property | Configuration | The text, and what the code does instead |
|---|---|---|
| `TmpCleanedOnFailure` | `AtomicWriteExclusive` | `ioutil/atomic.go:13-14` "On failure the temp file is cleaned up": only after a failed rename |
| `UnknownDownloadsEarnHalf` | `TrustScorerStale` | `docs/trust-score.md:111` 10 points after a failure without cache: 0, as for `StaleCountUsed` |
| `UnknownCVEsEarnHalf` | `TrustScorerStale` | `docs/trust-score.md:126` 7 points without data on the version: 15 when the package has an entry (`trust/score.go:398`), 0 when that has CVEs of an earlier scalp (`:394`) |
| `DownloadsExpire` | `TrustScorerStale` | `docs/trust-score.md:109` "for 7 days": storing CVEs renews the count's age (`trust/cache.go:104`) |
| `SavedSignatureValid` | `LockfileAudit` | `lockfile/lockfile.go:60` "signing it if a signing key is available": without one the old signature is kept on new content (`:79`) |
| `EveryCopyVerified` | `LockfileAudit` | `README.md:47` "hashes match `node_modules`": one copy of a `name@version` is hashed (`lockfile/sync.go:99`) |
| `CiScoresBeforeInstall` | `Commands` | `docs/scalp-ci.md:19-20` evaluates trust scores and never installs on violations: scores come after the install (`cli/ci.go:138`) |
| `ForkNeedsEntry` | `Commands` | `docs/scalp-ci.md:39` every package needs an entry: ci makes it first (`cli/ci.go:128`) |
| `PassedMeansNoIssue` | `Commands` | `docs/scalp-ci.md:94` passed only without issues: the lockfile check alone decides (`cli/ci.go:195`) |
| `ReportAlwaysWritten` | `Commands` | `docs/architecture.md:223` always a report: none after an error |
| `CiAlwaysBlocks` | `Commands` | `docs/scalp-ci.md:65` always blocks: not with `--enforcement` warn or log (`cli/ci.go:28`, `:105`) |
| `CiViolationsLogged` | `Commands` | `docs/RFC.md:142` every event is logged: ci opens no log |
| `HashIsRequired` | `Commands` | `docs/trust-score.md:67` automatic violation: dropped with a warning when the lockfile or the cache cannot be read (`cli/install.go:92`) |
| `ResolveOnlyResolves` | `Commands` with `ResolveInstalls = TRUE` | `pkgmanager/pkgmanager.go:40` "without installing": yarn and bun install (`bun/adapter.go:46`, `yarn/adapter.go:46`) |
| `AuditCoversInstalled` | `Commands` | `README.md:47` "hashes match `node_modules` on disk": a tree that is shown in part is accepted with a warning, and audit ends with 0 having looked at no more than it (`npm/npm.go:85`, `pnpm/adapter.go:113`, `bun/adapter.go:206`; yarn keeps one entry per name, `yarn/adapter.go:76`) |
| `NamesArePackages` | `LockfileParsers` | `docs/scalp-ci.md:19` evaluates every package: a key of yarn with two ranges is cut at the last protocol, "a@npm:^1, a" (`yarn/lockfile.go:170`) |
| `WorkspacesListed` | `LockfileParsers` | the same: what npm installs in the node_modules of a workspace is skipped (`npm/packagelock.go:57`) |
| `ScopedKeyUnderstood` | `LockfileParsers` | `pnpm/adapter.go:464` `/@scope/name@version`: cut in the middle of the name (`:462`) |
| `AbortsOnUnexpected` | `LockfileParsers` | `pnpm/adapter.go:232-233` "aborts with an error on unexpected input": a line without a colon at the indent of keys is skipped (`:298`) |
| `IntegrityExtracted` | `LockfileParsers` | `pnpm/adapter.go:499` "extracts integrity": of `{integrity: X, tarball: Y}` it takes `X, tarball: Y` (`:522`) |
| `BunListsEveryVersion` | `PackageTree` | `bun/adapter.go:83` "handles multiple versions of the same package": below a last sibling there is no bar to count, and of two versions there one is lost |
| `ScopedIsDenied` | `Verification` | `README.md:123` deny rules are checked: the name in the tarball is cut at its last @ again, which a scope has (`cli/stage.go:211`) |
| `DenyOnlyInDenylistMode` | `Verification` | `docs/policy.md:140` deny is "Used in `denylist` mode", `:59` audit-only "Never blocks based on trust rules": stage verify applies deny rules in every mode (`cli/stage.go:198`) |
| `DenyRuleRejects` | `Verification` | `docs/RFC.md:23-41` and `docs/policy.md:262-279` show deny rules that reject in a policy without a mode: the mode is then audit-only, which rejects nothing (`policy/policy.go:115`, `policy/evaluate.go:19`) |
| `JsonTellsAll` | `Verification` | `docs/scalp-ci.md:79-85` shows a violation of min_score, `:145` "report has the details": at the end of ci the JSON report has those of the lockfile check alone, none of the scorer or of `--checksum` (`cli/ci.go:197`) |
| `CountsArePackages` | `Verification` | `docs/scalp-ci.md:101` mismatched is "differs from lockfile": what sync skipped counts, too, and verified counts a package twice (`reporter/json.go:47`) |

Some disagreements were only read, since a model would restate one line of code.
The rule fields `versions` and `checksum`, which `docs/policy.md` documents, are never
looked at. Nodes from the lockfiles of pnpm, yarn and bun have depth 0, so that
`max_depth` rejects nothing before an install. Globs look at the case of letters in a
policy, and not in stage verify. A stage verify that passes, and a verify that ends
before it has compared, log no event, and init empties the log, which `README.md:247`
calls append-only with an event of every such command. The SARIF report of ci says
passed when only scores were too low. A bun.lockb alone selects bun, whose parser then
reads bun.lock.

Deadlock is checked in all but `LockfileParsers` and `PackageTree`, which stop at the
end of a file and of a list; `Verification` has an action for the end of its last
command alone, so that none gets stuck.

## 4. Fairness

Only `Terminates` in `TrustScorerPool` needs any. `FairSpec` assumes weak fairness of the main
goroutine, of each worker and of the in-flight request. The Go scheduler runs a
goroutine that can run; a request ends because the HTTP client has a timeout of ten
seconds (`score.go:305-314`), an audit because it is a child process, which a
cancelled context kills. No fairness is assumed of a signal, the clock, another
process, or of an answer being a success.

## 5. Proofs

Eight modules hold theorems, one for each component and one, `SequenceLemmas`, with
lemmas that several need. Every theorem is for any values of the constants that
satisfy the assumptions of the modules, which are named `...Assumption` there and
evaluated by TLC in every run. `PROJECT.json` lists the theorems with the properties
they state. Each invariant below was also checked by TLC on the run of its component
before it was proved; an invariant that is used by the proof alone stays out of the
configurations, which have what a reader of the code would ask.

`AtomicWriteProofs`, for any number of processes, readers, values, inodes and
blocks, with failures and crashes:

- `TypeCorrect`: `Spec => []TypeOK`.
- `ExclusiveSafe`: `Spec => []ExclusiveInv` if calls do not overlap (`Exclusive`).
  This is the inductive invariant: besides "the target and everything read is
  whole" it says where the inodes are (the temporary one is neither the target nor
  open in a reader; at most one writer has it open), and how many blocks of it are
  written at each point of a call. Without the first part a reader's buffer could
  change under it, without the second the rename could publish half a file.
- `TargetAlwaysWhole`: what follows from it for the target, the property that the
  run `AtomicWriteShared` shows to fail when calls overlap.
- `ImplementsRegister`: every step of the file system is a step of `AtomicFile` or
  a stutter under the mapping that takes the target's content for the register. The
  rename is where a write takes effect, the open where a read does.

`TrustScorerProofs`, for any packages, policies, pool size and lifetime, with
every answer, failure, cancellation and kill:

- `ScorerTypeCorrect` and `PoolSafe`: `Spec => []TypeOK`, `Spec => []PoolInv`. They
  need each other: that the semaphore stays between 0 and `Concurrency` follows from
  its counting the goroutines that hold a place, and the count changes by one because
  a name is only dispatched when it has no goroutine yet.
- `FetchSafe`: `Spec => []FetchInv`, from which it follows that no name is fetched twice
  (`OncePerRun`). Counting requests is not inductive. `FetchInv` adds why no second one is sent: whatever the prefetch
  asked for, answered or not, left an entry of this run, and an entry of this run is
  fresh until the run ends, so that `scoreDownloadsCached` returns before it fetches.
- `FileOnlyGrows`: `Spec => CacheFileOnlyGrows`, an action property. `GrowInv` says
  that the cache in memory covers the file it was loaded from from then on.
- `VerdictSound`: `Spec => []SavedCacheExplainsVerdict`, from `VInv`. The property is
  about the end of a run; the invariant has it for the nodes that are scored so far
  (`Verdicts`), against the cache in memory. A later step changes the entry of a
  package that has its verdict already, when another version of it is scored. That
  this does no harm rests on the prefetch (`Prefetched`: every name that is scored has
  an entry by then, so that the count is not asked for again) and on what is stored of
  an audit being about the version alone. `SavedAll` carries it to the file.
- `FailClosedSound`: `Spec => []FailClosedEarnsNothing`, from `BackedInv`: in memory
  and in the file, a count that earns points has the time of an answer.

Assumptions: `MaxRunAssumption` (a run takes no longer than the seven days of an
entry), finite `Names`, the types of the other constants, and that the stand-ins
`NoEntry` and `Corrupt` are no entry and no cache.

`LockfileAuditProofs`, for any packages, directories and finite trees, with every
interruption and any number of changes by others:

- `LockfileTypeCorrect`, `SavedLockfileSound` (`SavedIsInstalled`),
  `AuditRaisesNoFalseAlarm`, `CleanAuditSound`, `StaleSignatureSound`.

The properties are about a command that has ended, and say nothing of the loop over
the nodes, which goes through them in any order. `IInv` relates the entries in memory
to the nodes that the loop has passed. For `SyncWithTree` (`Synced`), the entry of a
package of which no node is left is one of its copies on disk, or the old one of which
nothing can be found; which of several copies is left open, as the order of the loop
leaves it open. For `VerifyAgainstTree`, whatever was reported is a difference of
copies (`Alarms`), and while nothing was reported the packages passed are as they are
locked, and the signature was looked at with the first (`Clean`). `Signed` says what
is about to be written carries a signature of its own or was not signed, because no whole
key was in hand (`keyRead`): a key that is there may be cut off, or impossible to read. A change by
others ends the promises: it clears `still` and `synced`, which are the history
variables the properties begin with.

Assumptions: trees are finite; an unreadable directory is neither a missing one, nor
one outside of the project, nor no entry; contents are none of these.

`CommandsProofs`, for any packages, configurations and verdicts:

- `CommandsTypeCorrect`, `GreenRunSound` and `ReportSound`, with any adapter.
- `GateSafe` and `LetThroughLogged` where resolving does not install
  (`~ResolveInstalls`, npm and pnpm). That they need it is the point: yarn and bun
  install when they resolve, which `ResolveOnlyResolves` states and TLC refutes.

`IInv` says what the properties need of the past of a command: before the package
manager was told to install nothing is new (`NothingYet`); a guarded install behind
its gate installs what it evaluated, with its violations logged, none if it blocks
(`Gate`, and `CiGate` for ci); what was compared against the lockfile is what is
installed while nobody changes it (`Checked`). Each is about what the adapter has read:
`nodes` of the package manager's lockfile, `got` of what is installed, any subsets. What
is left out (`Unlisted`, `Untold`) passes the gate and the audit unseen; that it is not
locked either is part of `GreenRunIsTrue`, and that nobody is told is `AuditCoversInstalled`. The one assumption besides types is
that `NoReport` is no report.

`PackageTreeProofs`, of `Flatten` for any tree, with any number of packages, and any
limit:

- `FlattenTypeCorrect`, `FlattenItemsHang`: what is listed hangs from something listed
  before, once, and in the order of depths.
- `FlattenComplete`: a list that was not cut short has all it should.
- `FlattenTruncates`: it is cut short only when it is full and something is left.

The invariant `IInv` says what the walk holds between two steps. A child that is not
listed yet is among the children that are looked at, or below an entry in the queue
(`Pending`), which gives completeness when both are empty. No child of either is
listed (`Fresh`), since the children of two entries are disjoint, and no entry is
queued twice: so none is listed twice. The depths in the queue are the one that is
looked at and then the next (`Ordered`), so that the list's never decrease. The only
assumption is `FlattenAssumption`: the root is no entry, and the limit is a number.

and of the adapters, for any forest that is installed, of any size and depth, and any
part of it that is shown:

- `AdaptersCallFlatten`: `Spec => FlattenSpec`. `GetTree` of each adapter is the first
  step of a walk of `Flatten`, so that the four theorems above hold of
  every list of packages. For this every adapter's tree has to be one: an entry hangs
  from one before it.
- `NothingLost` (`EveryPackageListed`), `BunLosesNoUniqueName` (`BunListsUniqueNames`),
  `DepthSound` (`DepthIsNesting`). The invariant besides that of `Flatten` is
  `TreeIsRead`: the tree that is walked is the one that the adapter made of what it was
  shown. The rest is about that tree: a package is listed when what it hangs from is
  (`ListIsComplete`), by induction on its place in the print; its depth is
  that of what it hangs from plus one; the bars before a line of bun's are never more
  than the packages it is nested in.

Assumption: `NodeAssumption`, an entry of the tree is the place of a package.

`LockfileParsersProofs`, for any file of any length, whoever wrote it:

- `ParsersTypeCorrect`, with the detection: the parser is the one of every lockfile in
  the directory.
- `AcceptedListed` (`AcceptedIsListed`): what is accepted is listed, package by package,
  with values from its own block, and of bun what it says last. npm packages outside of the
  project's node_modules are not (`WorkspacesListed`), nor what is no key to pnpm
  (`AbortsOnUnexpected`).
- `KeysUnderstoodSound` (`KeysUnderstood`): a key of a known form gives its name and
  version, and no file is refused for one.
- `WrittenFilesListed` (`ListsWhatIsWritten`): of a file that pnpm or yarn wrote, the list
  has every package, with the integrity and the address of its "resolved" that its block
  states. Of pnpm that is the integrity and no more, unless a tarball stands behind it in
  the same braces: then the text has both (`IntegrityExtracted`).

The properties are about the list and an accepted file; a parser also has an entry that
it is still reading and a limit on the list that it has not yet compared. Each invariant
(`NpmInv`, `PnpmInv`, `YarnInv`, `BunInv`) is therefore about the list with the open
entry at its end: its lines are the packages of the file so far, in order (`Ordered`);
what is listed for a line is what stands there; the values of an entry come from its
block (`Own`), which for the open entry reaches to the end of what is read
(`StillOpen`). For yarn the lines are not all the packages; for one that is missing a
text follows in its block (`TextIn`). For the text of bun, the last line of a block that
gives a property is a maximum (`BunLast`), which a line after the block does not change.
A refused file says what its last line was, unless the limit was passed. `ParsersInv` is
the invariant of the parser that was chosen, and that the choice stands. The lemmas
before them are about keys: where a parser cuts one, and what that makes of each form.

`WrittenFilesListed` needs a second invariant, `WrittenInv`, proved over the first. The
parsers keep what they wait for in flags (`resolutionPending`, `checksumPending`) and
clear one only where the value is found, so the flags have to be tied to the lines:
`PnpmOpen` and `YarnOpen` say what a flag is at the end of the open block: up after a
property whose value is to come below it, down after one that the parser does not know,
and never up with the value already there. `PnpmSays` and `YarnSays` are the other half:
the value of an entry is on the only line of its block that states one; `Closed` says that earlier blocks have ended, so a new line is of the open one. Of
what the writer does they use that a property stands in a block once and that what is
below one comes next to it; that a package of yarn is missing only where a text stands
(`AcceptedListed`) gives that none is, since yarn writes no such line.
Assumptions: paths and keys are of the forms that the modules list, the limit is a
number, and `Nil` is no entry.

`VerificationProofs`, for any project, artifacts, tarballs and commands:

- `VerificationTypeCorrect`.
- `ChecksumsSound` (`ChecksumsVerify`), both ways. What `checksum` has hashed and nobody
  changed since verifies, unless a later file of the same command has its name; and what
  verifies is the content of the last line of its name. A write that fails leaves some of
  the lines and part of the next, which may be an entry of a shorter name.
- `StagePassSound` (`StagePassMeansChecked`) and `RulesSound` (`RulesMeanWhatTheySay`)
  for policies without the pattern of two stars (`PlainPolicies`). The code has a form
  for `*part*` from three characters on; two stars fall through to the form for a suffix
  and match a name that ends in a star, that is, none. No document says what they mean,
  so this is the hypothesis, and `PROJECT.json` has it among the hazards; with any other
  pattern, in any alphabet, the two matchers do what the rule says (`GlobMeans`).
- `ReportsSound` (`ReportsTell`) for artifacts whose file names have no `@`
  (`PlainArtifacts`): the SARIF report cuts the name of an artifact at its last `@`, as
  it cuts the id of a package, and locates the file under what is left. No document
  says where it should be; the packages may have any names. Of the JSON report it says
  what the code puts in: the violations of the policy, or those of the lockfile check, and
  `passed` when there are none. That it should have all of them is `JsonTellsAll`, which
  fails.

The first half is about operators: that the tests of the code, in their order, are
the meaning of a glob; that cutting a stage id at its last `@` gives the name that the id
was made of; that `Evaluate` reports a rule exactly where it matches; which events
`audit` makes of an artifact. The second is the invariant: `Staged` (what was read and
what is left are the tarball; the violations are those of the id and the name found),
`Verified` and `Audited` (the event of an artifact is how it compares with the last
line of its name; a mismatch is a violation), `Ruled`, and `Kept`: the checksums file has,
for every artifact that was checksummed and not changed, its content in the last line of
its name.

The reports are a third part. What they list and count is made of two lists that
different steps have made, so the lemmas say of every heading which outcomes of the
check are under it (`TreeEventCounted`, `TreeCounts`), that a count of a concatenation is
the sum (`CountConcat`), and that the rules which a SARIF report has so far are indexed
by what was seen, each once (`Indexed`, kept by `NextRule`). Three more invariants are
proved with the first one: `Fresh` (there is no report before the end of a command, and
no tree before it is looked at), `AuditFound` (the events and violations of an audit are
those of the tree, of the scorer and of the artifact, in this order) and `Told`, which
is `ReportsTell` a report each. For this the scorer's outcomes are looked at as a whole
(`Scorings`): what it adds is under its own rules, whichever packages it rejects and
whether or not its cache can be read and saved. Assumptions: names are sequences
of tokens, whatever the tokens are, as long as `*`, `@`, `/`, `v`, `n` are among them; projects
and commands are of their types; the tree is not empty; a checksums file that is not
there is none of lines (`NoFileAssumption`).

`SequenceLemmas` has what the library cannot give here: it states induction with an
operator for the property, which the provers do not instantiate. `LeastNatural` and
`Induction` have a set in its place; the descent into a forest and the concatenation of
many lists (`FlattenSeq`, a recursive function of the community modules) are reached
from there.

Only model-checked: what `sanitizeBunJSON` leaves out (`OnlyTrailingCommasGo`, a parity
of backslashes), and liveness (`Terminates`).
Liveness under fairness and `ENABLED` are out of the prover's reach,
and so is any module that declares a `RECURSIVE` operator.

## 6. Not modelled

Parsing of flags and of JSON, YAML and HTTP answers, the walk of `hash.Dir` over
the files of a package, ed25519 and SHA-512, the layout of reports, annotations for
GitHub Actions, the policies that init writes, the registry of adapters, the checks of
`ValidatePMArgs`. They are data, layout or libraries. A power loss is not modelled
either: files are not synced, and what survives is the file system's choice.

## 7. Plan

The order is that of the damage a fault would do.

1. Done: files (`AtomicWrite`), scorer, lockfile and audit with init, the commands,
   the four lockfile parsers behind detection, the adapters' trees and `Flatten`, the
   policy rules, the commands that verify, and the reports.
2. Two commands at once: `Load` ... `Save` of the lockfile and of the cache as
   transactions of two processes over `AtomicFile` (lost updates), and their
   appends to one audit log. Abstract specification: a sequence of commands.
3. The parsers as implementations of one abstract list of blocks.
4. The map of npm audit results with its two formats, by tree and by name
   (`trust/score.go:373`).
5. Proofs: `OnlyTrailingCommasGo`, with an invariant on runs of backslashes.
