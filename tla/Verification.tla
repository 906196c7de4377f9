---------------------------- MODULE Verification ----------------------------
(***************************************************************************)
(* The commands that check something and install nothing: scalp checksum,  *)
(* verify, stage verify, policy check and audit, and what scalp ci says at *)
(* its end.  They are run one after the other in a project; meanwhile the  *)
(* artifacts may change, and every call that can fail may fail.            *)
(*                                                                         *)
(* A hash is the content that it was made of.  A tarball is the sequence   *)
(* of the reads that standard input answers: "data" before the             *)
(* package.json, the "package" that has it, the "end" of the archive, or   *)
(* "bad" for what gzip, tar or JSON cannot read.                           *)
(***************************************************************************)
EXTENDS Reports, FiniteSets

CONSTANTS
  Projects,    \* the files of a project at first, the commands that may be given
               \* in it and how many of them
  Paths,       \* artifacts: pairs of a directory and a name
  Contents,    \* what is in them
  Packages,    \* names of the packages: those in the tree, then those that only
  TreeLen,     \* the lockfile has; and how many are in the tree
  NoFile,      \* a file that is not there, or cannot be read
  NoReport,    \* no report written by this run
  Missing, Invalid,  \* a policy that is not there, and one that cannot be read
  MaxChanges   \* bound on the changes of artifacts

Read == {"data", "package", "end", "bad"} \X Name
Line == [kind : {"entry"}, hash : Contents, name : Name]
          \cup [kind : {"malformed", "comment"}]
Installed == [name : Name, depth : Nat]

\* The word "v" stands for a version, which follows an @ sign.
Id == {id \in Name :
         id # <<>> /\ Last(id) = "v" => Len(id) > 1 /\ id[Len(id) - 1] = "@"}

Command ==
  [cmd : {"stage verify"}, id : Id, tarball : Seq(Read), checksum : Seq(Read), ci : BOOLEAN]
    \cup [cmd : {"checksum"}, paths : Seq(Paths)]
    \cup [cmd : {"verify"}, path : Paths, ci : BOOLEAN]
    \cup [cmd : {"audit"}, path : Paths, format : {"md", "sarif"}, ci : BOOLEAN]
    \cup [cmd : {"policy check"}, nodes : Seq(Installed), ci : BOOLEAN]
    \cup [cmd : {"ci"}, nodes : Seq(Installed), enforcement : STRING, fork : BOOLEAN]

ASSUME ProjectsAssumption ==
  \A p \in Projects :
    /\ p.policy \in {Missing, Invalid} \/ IsPolicy(p.policy)
    /\ p.files \in [Paths -> Contents \cup {NoFile}]
    /\ p.sums \in Seq(Line) \cup {NoFile}
    /\ p.commands \subseteq Command /\ p.commands # {}
    /\ p.runs \in Nat
ASSUME NoFileAssumption == NoFile \notin Seq(Line)
ASSUME PathsAssumption == \A path \in Paths : path[2] \in Name
ASSUME TreeAssumption == Packages \in Seq(Name) /\ TreeLen \in 1..Len(Packages)
ASSUME BoundAssumption == MaxChanges \in Nat

VARIABLES
  project,     \* the project, with what .scalp/policy.json says: a policy, or
               \* Missing or Invalid
  files,       \* the artifacts
  sums,        \* the lines of the checksums file
  log,         \* the audit log
  cmd,         \* the command that is run
  phase,       \* where it is
  pol,         \* the policy it has loaded
  lines,       \* checksum: the lines so far
  piped,       \* stage verify: what standard input still holds
  read,        \* what was read of it, which is what is hashed
  found,       \* the package name in the tarball
  violations, events,
  sarif, json, markdown,  \* the reports of this run
  exit,        \* "running", "ok" or "failed"
  scores,      \* the packages that the scorer has a score of
  tree,        \* history: what VerifyAgainstTree saw
  hashed,      \* history: the artifacts that this checksum has hashed, as they are
  kept,        \* history: those that the checksums file has the line of, as they are
  still,       \* history: no artifact was changed during the run
  runs, changes

disk == <<project, files, sums, kept>>
listing == <<lines, hashed>>
stage == <<piped, read, found>>
reports == <<sarif, json, markdown>>
compared == <<scores, tree>>
bounds == <<still, runs, changes>>
vars == <<disk, log, cmd, phase, pol, listing, stage, violations, events, reports,
          exit, compared, bounds>>

policyFile == project.policy
IsRead == policyFile \notin {Missing, Invalid}

DefaultPolicy ==
  [mode |-> "audit-only", allow |-> <<>>, deny |-> <<>>, maxDepth |-> 0,
   minScore |-> FALSE, requireHash |-> FALSE, onViolation |-> "warn"]

\* What the file does not set; the empty mode and the empty enforcement are none.
applyPolicyDefaults(p) ==
  [mode         |-> IF p.mode = "" THEN "audit-only" ELSE p.mode,
   allow        |-> p.allow,
   deny         |-> p.deny,
   maxDepth     |-> p.maxDepth,
   minScore     |-> p.minScore,
   requireHash  |-> p.requireHash,
   onViolation  |-> IF p.onViolation = "" THEN "warn" ELSE p.onViolation]

Base(path) == path[2]
is(c) == cmd.cmd = c

Init ==
  /\ project \in Projects
  /\ files = project.files
  /\ sums = project.sums
  /\ log = <<>>
  /\ cmd = [cmd |-> "none"]
  /\ phase = "idle"
  /\ pol = DefaultPolicy
  /\ lines = <<>>
  /\ piped = <<>> /\ read = <<>> /\ found = <<>>
  /\ violations = <<>> /\ events = <<>>
  /\ sarif = NoReport /\ json = NoReport /\ markdown = NoReport
  /\ exit = "running"
  /\ scores = <<>> /\ tree = <<>>
  /\ hashed = {} /\ kept = {}
  /\ still = TRUE /\ runs = 0 /\ changes = 0

-----------------------------------------------------------------------------
Exit(code) == phase' = "idle" /\ exit' = code
Continue(to) == phase' = to /\ UNCHANGED exit

\* Logger.Log appends all events, or some of them and fails.
Log(new, ok) ==
  \/ ok /\ log' = log \o new
  \/ ~ok /\ new # <<>> /\ \E k \in 0..Len(new) : log' = log \o SubSeq(new, 1, k)

\* reporter.WriteFile: its error is a warning.
Written(report, r) == report' \in {r, NoReport}

Enforcement == IF cmd.ci THEN "block" ELSE pol.onViolation

Begin(c) ==
  /\ phase = "idle"
  /\ runs < project.runs
  /\ runs' = runs + 1
  /\ cmd' = c
  /\ phase' = IF c.cmd = "checksum" THEN "hash" ELSE "load"
  /\ exit' = "running"
  /\ pol' = DefaultPolicy
  /\ lines' = <<>> /\ hashed' = {}
  /\ piped' = IF c.cmd = "stage verify" THEN c.tarball ELSE <<>>
  /\ read' = <<>> /\ found' = <<>>
  /\ violations' = <<>> /\ events' = <<>>
  /\ sarif' = NoReport /\ json' = NoReport /\ markdown' = NoReport
  /\ scores' = <<>> /\ tree' = <<>>
  /\ still' = TRUE
  /\ UNCHANGED <<disk, log, changes>>

Loaded(to) ==
  /\ pol' = IF policyFile = Missing THEN DefaultPolicy ELSE applyPolicyDefaults(policyFile)
  /\ Continue(to)

\* policy.Load.  A missing policy is an event of audit, whose log must succeed,
\* and of stage verify, whose log need not.
LoadPolicy ==
  /\ phase = "load"
  /\ LET to == CASE is("stage verify") -> "read"
                 [] is("verify") -> "artifact"
                 [] is("audit") -> "tree"
                 [] OTHER -> "evaluate"
         logs == policyFile = Missing /\ (is("stage verify") \/ is("audit"))
     IN  \/ policyFile = Invalid /\ Exit("failed") /\ UNCHANGED <<pol, log>>
         \/ policyFile # Invalid /\ ~logs /\ Loaded(to) /\ UNCHANGED log
         \/ /\ logs
            /\ \E ok \in BOOLEAN :
                 /\ Log(<<policyMissingEvent>>, ok)
                 /\ IF ok \/ is("stage verify") THEN Loaded(to)
                    ELSE Exit("failed") /\ UNCHANGED pol
  /\ UNCHANGED <<disk, cmd, listing, stage, violations, events, reports, compared, bounds>>

-----------------------------------------------------------------------------
(* scalp stage verify *)

\* Mutant: what is read at the end of the archive is not hashed.
ReadTarballUnhashed ==
  /\ phase = "read"
  /\ piped # <<>>
  /\ read' = IF Head(piped)[1] = "end" THEN read ELSE Append(read, Head(piped))
  /\ piped' = Tail(piped)
  /\ LET kind == Head(piped)[1]
     IN  /\ found' = IF kind = "package" THEN Head(piped)[2] ELSE <<>>
         /\ CASE kind = "data" -> Continue("read")
              [] kind = "bad" -> Exit("failed")
              [] OTHER -> Continue("check")
  /\ UNCHANGED <<disk, log, cmd, pol, listing, violations, events, reports, compared, bounds>>

\* extractPkgNameFromTarball returns when it has the package.json, or at the end
\* of the archive; what follows is not read.
ReadTarball ==
  /\ phase = "read"
  /\ \/ /\ piped = <<>>
        /\ Exit("failed")
        /\ UNCHANGED stage
     \/ /\ piped # <<>>
        /\ read' = Append(read, Head(piped))
        /\ piped' = Tail(piped)
        /\ LET kind == Head(piped)[1]
           IN  /\ found' = IF kind = "package" THEN Head(piped)[2] ELSE <<>>
               /\ CASE kind = "data" -> Continue("read")
                    [] kind = "bad" -> Exit("failed")
                    [] OTHER -> Continue("check")
  /\ UNCHANGED <<disk, log, cmd, pol, listing, violations, events, reports, compared, bounds>>

\* Mutant: a tarball with the right checksum may have another name.
StageViolationsTrusting(id, name) ==
  If(cmd.checksum # <<>> /\ read # cmd.checksum,
     Violation(id, "hash_mismatch", <<"stage_verify">>))
  \o If(cmd.checksum # read /\ name # <<>> /\ ~EqualFold(name, stagePkgName(id)),
        Violation(id, "stage_id_mismatch", <<"stage_verify">>))
  \o If(denylistCheck(pol, IF name # <<>> THEN name ELSE id),
        Violation(id, "package matched deny rule", <<"denylist">>))

\* The checksum is optional.  Without a name in the tarball the stage id stands
\* for it; denylistCheck cuts a version off either.
StageViolations(id, name) ==
  If(cmd.checksum # <<>> /\ read # cmd.checksum,
     Violation(id, "hash_mismatch", <<"stage_verify">>))
  \o If(name # <<>> /\ ~EqualFold(name, stagePkgName(id)),
        Violation(id, "stage_id_mismatch", <<"stage_verify">>))
  \o If(denylistCheck(pol, IF name # <<>> THEN name ELSE id),
        Violation(id, "package matched deny rule", <<"denylist">>))

\* A violation is logged; that the log failed is a warning.
CheckStage ==
  /\ phase = "check"
  /\ violations' = StageViolations(cmd.id, found)
  /\ \E ok \in BOOLEAN : Log(policyViolationEvents(violations'), ok)
  /\ Continue("report")
  /\ UNCHANGED <<disk, cmd, pol, listing, stage, events, reports, compared, bounds>>

\* Without --sarif no report is written, as when its write fails.
ReportStage ==
  /\ phase = "report"
  /\ is("stage verify")
  /\ Written(sarif, RenderSarif(violations = <<>>, violations, cmd.id))
  /\ Exit(ApplyEnforcement(Enforcement, violations))
  /\ UNCHANGED <<disk, log, cmd, pol, listing, stage, violations, events, json, markdown,
                 compared, bounds>>

-----------------------------------------------------------------------------
(* scalp checksum and scalp verify *)

Entry(hash, name) == [kind |-> "entry", hash |-> hash, name |-> name]
Malformed == [kind |-> "malformed"]

\* Mutant: every line has the hash of the first file.
HashFileFirst ==
  /\ phase = "hash"
  /\ Len(lines) < Len(cmd.paths)
  /\ LET path == cmd.paths[Len(lines) + 1]
     IN  IF files[path] = NoFile
           THEN Exit("failed") /\ UNCHANGED listing
           ELSE /\ lines' = Append(lines, Entry(IF lines = <<>> THEN files[path]
                                                ELSE lines[1].hash, Base(path)))
                /\ hashed' = hashed \cup {path}
                /\ Continue("hash")
  /\ UNCHANGED <<disk, log, cmd, pol, stage, violations, events, reports, compared, bounds>>

\* One line per file; the first that cannot be read ends the run.
HashFile ==
  /\ phase = "hash"
  /\ Len(lines) < Len(cmd.paths)
  /\ LET path == cmd.paths[Len(lines) + 1]
     IN  IF files[path] = NoFile
           THEN Exit("failed") /\ UNCHANGED listing
           ELSE /\ lines' = Append(lines, Entry(files[path], Base(path)))
                /\ hashed' = hashed \cup {path}
                /\ Continue("hash")
  /\ UNCHANGED <<disk, log, cmd, pol, stage, violations, events, reports, compared, bounds>>

\* What is left of a line that is cut: nothing, what has no name after two blanks, or
\* an entry of as much of its name as was written.
Cuts(line) ==
  {<<>>, <<Malformed>>}
    \cup {<<Entry(line.hash, SubSeq(line.name, 1, k))>> : k \in 1..Len(line.name)}

\* The path is that of the last line of its name.
LastOfName(path) ==
  \E i \in DOMAIN cmd.paths :
    /\ cmd.paths[i] = path
    /\ \A j \in (i + 1)..Len(cmd.paths) : Base(cmd.paths[j]) # Base(path)

\* The file is opened, cut to nothing, and written in place: an error leaves it as
\* it was, or has the lines so far and part of the next in it.
WriteChecksums ==
  /\ phase = "hash"
  /\ Len(lines) = Len(cmd.paths)
  /\ \/ /\ sums' = lines
        /\ kept' = {path \in hashed : LastOfName(path)}
        /\ Exit("ok")
     \/ \E k \in 0..(Len(lines) - 1) : \E cut \in Cuts(lines[k + 1]) :
          sums' = SubSeq(lines, 1, k) \o cut /\ kept' = {} /\ Exit("failed")
     \/ UNCHANGED <<sums, kept>> /\ Exit("failed")
  /\ UNCHANGED <<project, files, log, cmd, pol, listing, stage, violations, events,
                 reports, compared, bounds>>

\* Comments and lines of another form are skipped; the last line of a name counts.
parseChecksums(text) ==
  LET entries == {i \in DOMAIN text : text[i].kind = "entry"}
  IN  [name \in {text[i].name : i \in entries} |->
         text[Max({i \in entries : text[i].name = name})].hash]

\* Whether verifyArtifact gives a result.
Comparable(path) ==
  /\ sums # NoFile
  /\ Base(path) \in DOMAIN parseChecksums(sums)
  /\ files[path] # NoFile

matched(path) == parseChecksums(sums)[Base(path)] = files[path]

BinaryEvent(path) ==
  Event("binary_verify", Base(path), IF matched(path) THEN "verified" ELSE "mismatch",
        "", matched(path))

BinaryViolations(path) ==
  If(~matched(path), Violation(Base(path), "hash_mismatch", <<"binary_verify">>))

VerifyArtifact ==
  /\ phase = "artifact"
  /\ is("verify")
  /\ IF Comparable(cmd.path)
       THEN /\ events' = <<BinaryEvent(cmd.path)>>
            /\ violations' = BinaryViolations(cmd.path)
            /\ Continue("log")
       ELSE Exit("failed") /\ UNCHANGED <<violations, events>>
  /\ UNCHANGED <<disk, log, cmd, pol, listing, stage, reports, compared, bounds>>

\* What audit does of it: that there is no result is a warning.
AuditArtifact ==
  /\ phase = "artifact"
  /\ is("audit")
  /\ IF Comparable(cmd.path)
       THEN /\ events' = Append(events, BinaryEvent(cmd.path))
            /\ violations' = violations \o BinaryViolations(cmd.path)
       ELSE UNCHANGED <<violations, events>>
  /\ Continue("log")
  /\ UNCHANGED <<disk, log, cmd, pol, listing, stage, reports, compared, bounds>>

\* verify and audit end with an error when their events cannot be logged.
LogEvents ==
  /\ phase = "log"
  /\ \E ok \in BOOLEAN :
       /\ Log(events, ok)
       /\ IF ~ok THEN Exit("failed")
          ELSE IF is("audit") THEN Continue("report")
          ELSE Exit(ApplyEnforcement(Enforcement, violations))
  /\ UNCHANGED <<disk, cmd, pol, listing, stage, violations, events, reports, compared, bounds>>

-----------------------------------------------------------------------------
(* scalp policy check, scalp audit and the report of scalp ci *)

Named(node) == node.name

HashRequired(name) == Violation(Package(name), "hash_required", <<"require_hash", "true">>)
TooLow(name) == Violation(Package(name), "trust_score", <<"min_score", 50>>)

Each(names, chosen, Of(_)) ==
  FlattenSeq([i \in DOMAIN names |-> If(names[i] \in chosen, Of(names[i]))])

\* scalp ci sets it for a fork.
requireHash == pol.requireHash \/ (is("ci") /\ cmd.fork)

NoScoring == [violations |-> <<>>, scores |-> <<>>]

\* What Scorer.Evaluate may give for the packages `given` of `names`, of which those
\* in `bare` have no hash in the lockfile.  It rejects these, and gives the others a
\* score, `low` ones one that is too low.  When the cache cannot be loaded there is
\* neither, when it cannot be saved the scores are left.
Scorings(names, given, bare) ==
  LET refused == IF requireHash THEN given \cap bare ELSE {}
      scored == IF pol.minScore THEN given \ refused ELSE {}
      Scoring(vs) == [violations |-> vs, scores |-> Each(names, scored, Package)]
  IN  IF pol.mode = "audit-only" THEN {NoScoring}
      ELSE {Scoring(Each(names, refused, HashRequired) \o Each(names, low, TooLow)) :
              low \in SUBSET scored}
           \cup IF scored = {} THEN {} ELSE {NoScoring, Scoring(<<>>)}

\* A lockfile that cannot be read, an error of the package manager, or a package
\* that cannot be hashed ends the command before it has compared anything.
Fails ==
  /\ phase \in {"evaluate", "tree"}
  /\ Exit("failed")
  /\ UNCHANGED <<disk, log, cmd, pol, listing, stage, violations, events, reports,
                 compared, bounds>>

\* Nothing is scored when scalp's lockfile cannot be read.
PolicyCheck ==
  /\ phase = "evaluate"
  /\ is("policy check")
  /\ LET names == [i \in DOMAIN cmd.nodes |-> Named(cmd.nodes[i])]
     IN  \E bare \in SUBSET ToSet(names) :
         \E scoring \in Scorings(names, ToSet(names), bare) \cup {NoScoring} :
           violations' = Evaluate(pol, cmd.nodes) \o scoring.violations
  /\ Exit(ApplyEnforcement(Enforcement, violations'))
  /\ UNCHANGED <<disk, log, cmd, pol, listing, stage, events, reports, compared, bounds>>

\* scalp ci writes its reports when the policy rejects a package; it goes on to
\* install otherwise.
EvaluateCi ==
  /\ phase = "evaluate"
  /\ is("ci")
  /\ violations' = Evaluate(pol, cmd.nodes)
  /\ \/ /\ violations' # <<>>
        /\ Written(json, RenderReport(FALSE, violations', <<>>))
        /\ Written(sarif, RenderSarif(FALSE, violations', <<>>))
        /\ Exit(ApplyEnforcement(cmd.enforcement, violations'))
     \/ violations' = <<>> /\ Continue("tree") /\ UNCHANGED <<sarif, json>>
  /\ UNCHANGED <<disk, log, cmd, pol, listing, stage, events, markdown, compared, bounds>>

\* What VerifyAgainstTree finds of a package: whether it has an entry and a
\* directory, and whether they agree.  What is not in the tree is not installed if it
\* has an entry, whatever is on disk.
Outcome == {"match", "differs", "notInstalled", "noEntry", "neither"}
Outcomes ==
  {outcomes \in [DOMAIN Packages -> Outcome] :
     \A i \in DOMAIN Packages : i > TreeLen => outcomes[i] \in {"notInstalled", "neither"}}

\* What SyncWithTree does with it: entries of what is not in the tree are deleted.
SyncOutcome == {"hashed", "skipped", "pruned"}
SyncOutcomes ==
  {sync \in [DOMAIN Packages -> SyncOutcome] :
     \A i \in DOMAIN Packages : sync[i] = "pruned" <=> i > TreeLen}

TreeViolation(name, outcome) ==
  LET Is(reason) == <<Violation(Package(name), reason, <<"lockfile">>)>>
  IN  CASE outcome = "differs" -> Is("hash_mismatch")
        [] outcome = "notInstalled" -> Is("package_not_installed")
        [] outcome = "noEntry" -> Is("missing_lock_entry")
        [] OTHER -> <<>>

TreeEvent(name, outcome) ==
  LET Is(event, status, reason, match) ==
        <<Event(event, Package(name), status, reason, match)>>
  IN  CASE outcome = "match" -> Is("hash_check", "verified", "", TRUE)
        [] outcome = "differs" -> Is("hash_check", "mismatch", "", FALSE)
        [] outcome = "notInstalled" ->
             Is("hash_check", "missing", "package_not_installed", FALSE)
        [] outcome = "noEntry" -> Is("hash_missing", "warn", "missing_lock_entry", FALSE)
        [] outcome = "hashed" -> Is("hash_verified", "verified", "", TRUE)
        [] outcome = "skipped" ->
             Is("hash_skipped", "warn", "package_dir_not_found", FALSE)
        [] OTHER -> <<>>

OfTree(Of(_, _), outcomes) ==
  FlattenSeq([i \in DOMAIN Packages |-> Of(Packages[i], outcomes[i])])

\* A bad signature is found with the first package.
TreeViolations(signed, outcomes) ==
  If(~signed, Violation(Package(Packages[1]), "lockfile signature verification failed",
                        <<"lockfile_signature">>))
  \o OfTree(TreeViolation, outcomes)

With(outcomes, kinds) ==
  {Packages[i] : i \in {i \in DOMAIN Packages : outcomes[i] \in kinds}}

\* Only packages with a directory are scored.  An entry that differs may be one
\* without a hash, unless it was just made.
TreeScorings(outcomes, made) ==
  UNION {Scorings(Packages, With(outcomes, {"match", "differs", "noEntry"}),
                  With(outcomes, {"noEntry"}) \cup bare) :
           bare \in SUBSET (With(outcomes, {"differs"}) \ made)}

AuditTree ==
  /\ phase = "tree"
  /\ is("audit")
  /\ \E outcomes \in Outcomes, signed \in BOOLEAN :
     \E scoring \in TreeScorings(outcomes, {}) :
       /\ violations' = TreeViolations(signed, outcomes) \o scoring.violations
       /\ events' = OfTree(TreeEvent, outcomes)
       /\ scores' = scoring.scores
       /\ tree' = outcomes
  /\ Continue("artifact")
  /\ UNCHANGED <<disk, log, cmd, pol, listing, stage, reports, bounds>>

\* The format is that of the report's file name.
ReportAudit ==
  /\ phase = "report"
  /\ is("audit")
  /\ IF cmd.format = "sarif"
       THEN /\ Written(sarif, RenderSarif(violations = <<>>, violations, <<>>))
            /\ UNCHANGED markdown
       ELSE /\ Written(markdown, RenderAuditMarkdown(violations, events, scores))
            /\ UNCHANGED sarif
  /\ Exit(ApplyEnforcement(Enforcement, violations))
  /\ UNCHANGED <<disk, log, cmd, pol, listing, stage, violations, events, json, compared, bounds>>

\* The install, the sync and the check of scalp ci, in which a package without
\* an entry after the sync had no directory then.  The JSON report, which must
\* be written, has the violations of the lockfile check, the SARIF report all;
\* that it passed is said of the lockfile check in both.
ReportCi ==
  /\ phase = "tree"
  /\ is("ci")
  /\ \E sync \in SyncOutcomes, outcomes \in Outcomes, signed, intact \in BOOLEAN :
     \E scoring \in TreeScorings(outcomes, With(sync, {"hashed"})) :
       /\ \A i \in DOMAIN Packages :
            /\ sync[i] = "hashed" => outcomes[i] \notin {"noEntry", "neither"}
            /\ sync[i] = "pruned" => outcomes[i] = "neither"
       /\ LET audit == TreeViolations(signed, outcomes)
              found_ == scoring.violations \o If(~intact, Violation(<<"lockfile">>,
                          "lockfile_checksum_mismatch", <<"lockfile_integrity">>))
              passed == audit = <<>>
          IN  /\ violations' = found_ \o audit
              /\ events' = OfTree(TreeEvent, sync) \o OfTree(TreeEvent, outcomes)
              /\ tree' = outcomes
              /\ \/ /\ json' = RenderReport(passed, audit, events')
                    /\ Written(sarif, RenderSarif(passed, violations', <<>>))
                    /\ Exit(ApplyEnforcement(cmd.enforcement, violations'))
                 \/ UNCHANGED <<sarif, json>> /\ Exit("failed")
  /\ UNCHANGED <<disk, log, cmd, pol, listing, stage, markdown, scores, bounds>>

-----------------------------------------------------------------------------
\* An artifact is built again, or removed.
ChangeArtifact(path, content) ==
  /\ changes < MaxChanges
  /\ changes' = changes + 1
  /\ still' = FALSE
  /\ files[path] # content
  /\ files' = [files EXCEPT ![path] = content]
  /\ hashed' = hashed \ {path} /\ kept' = kept \ {path}
  /\ UNCHANGED <<project, sums, log, cmd, phase, pol, lines, stage, violations, events,
                 reports, exit, compared, runs>>

Step ==
  \/ LoadPolicy
  \/ ReadTarball \/ CheckStage \/ ReportStage
  \/ HashFile \/ WriteChecksums
  \/ VerifyArtifact \/ LogEvents
  \/ Fails
  \/ PolicyCheck
  \/ AuditTree \/ AuditArtifact \/ ReportAudit
  \/ EvaluateCi \/ ReportCi

\* Only here may nothing happen: a command that was begun can end.
AllDone ==
  /\ phase = "idle"
  /\ runs = project.runs
  /\ UNCHANGED vars

Next ==
  \/ AllDone
  \/ \E c \in project.commands : Begin(c)
  \/ Step
  \/ \E path \in Paths, content \in Contents \cup {NoFile} : ChangeArtifact(path, content)

Spec == Init /\ [][Next]_vars

-----------------------------------------------------------------------------
(* Properties. *)

Done(c) == phase = "idle" /\ is(c) /\ exit # "running"

\* The run keeps to its types.  What stage verify has hashed and what is left on
\* its input are the tarball; its name comes from the last read.
TypeOK ==
  /\ project \in Projects
  /\ files \in [Paths -> Contents \cup {NoFile}]
  /\ phase \in {"idle", "load", "read", "check", "hash", "artifact", "tree", "log",
                "evaluate", "report"}
  /\ exit \in {"running", "ok", "failed"}
  /\ pol = DefaultPolicy \/ (IsRead /\ pol = applyPolicyDefaults(policyFile))
  /\ hashed \subseteq Paths /\ kept \subseteq Paths
  /\ runs \in 0..project.runs /\ changes \in 0..MaxChanges /\ still \in BOOLEAN
  /\ is("stage verify") => read \o piped = cmd.tarball
  /\ found # <<>> => Last(read) = <<"package", found>>
  /\ is("checksum") => Len(lines) <= Len(cmd.paths)

\* What a rule says, in other words than the code's: a star at either end stands
\* for any tokens.
WithoutStars(p) ==
  SubSeq(p, IF Opens(p) THEN 2 ELSE 1, IF Closes(p) THEN Len(p) - 1 ELSE Len(p))

Means(p, name) ==
  \E j \in 0..Len(name), i \in 0..Len(name) :
    /\ i <= j
    /\ SubSeq(name, i + 1, j) = WithoutStars(p)
    /\ Opens(p) \/ i = 0
    /\ Closes(p) \/ j = Len(name)

Says(rules, name, Case(_)) ==
  \E i \in DOMAIN rules :
    LET p == rules[i].pattern
    IN  \/ rules[i].name # <<>> /\ Fold(rules[i].name) = Fold(name)
        \/ p # <<>> /\ ~IsGlob(p) /\ Fold(p) = Fold(name)
        \/ IsGlob(p) /\ Means(Case(p), Case(name))

AsWritten(s) == s

Found(vs, reason, rules) ==
  \E i \in DOMAIN vs : vs[i].reason = reason /\ vs[i].rule[1] \in rules

\* The two matchers of the code reject a package for its name exactly where a rule
\* says so, whatever the form of the rule.  That of policy.Evaluate, seen here in
\* policy check, looks at the case of a glob, applies deny rules in denylist mode
\* alone and allow rules in allowlist mode alone.  That of stage verify looks at
\* the case of nothing, and applies deny rules in every mode and no others; it is
\* held to that of packages without a scope (see ScopedIsDenied).  The
\* documentation differs on both: DenyRuleRejects, DenyOnlyInDenylistMode.
RulesMeanWhatTheySay ==
  /\ Done("policy check") /\ (exit = "ok" \/ violations # <<>>) =>
       \A i \in DOMAIN cmd.nodes :
         LET name == cmd.nodes[i].name
             reasons == {violations[k].reason :
                           k \in {k \in DOMAIN violations :
                                    violations[k].pkg = Package(name)}}
         IN  /\ "denylist_match" \in reasons <=>
                   pol.mode = "denylist" /\ Says(pol.deny, name, AsWritten)
             /\ "not_in_allowlist" \in reasons <=>
                   pol.mode = "allowlist" /\ ~Says(pol.allow, name, AsWritten)
  /\ Done("stage verify") /\ found # <<>> /\ "@" \notin ToSet(found) =>
       (Found(violations, "package matched deny rule", {"denylist"})
          <=> Says(pol.deny, found, Fold))

\* The name in a stage id, in other words than the code's.
Names(id, name) ==
  \E k \in 0..Len(id) :
    /\ Fold(SubSeq(id, 1, k)) = Fold(name)
    /\ k = Len(id) \/ (id[k + 1] = "@" /\ \A j \in (k + 2)..Len(id) : id[j] # "@")

\* A staged package that a blocking run lets through is the package that the
\* stage id names, begins with the content of the checksum if one was given,
\* could be read to its package.json or to its end, and, if it has no scope, is in
\* no deny rule, by its own name; without a package.json, the name in the stage id
\* is in none.
StagePassMeansChecked ==
  Done("stage verify") /\ exit = "ok" /\ Enforcement = "block" =>
    /\ read # <<>> /\ Last(read)[1] \in {"package", "end"}
    /\ IsPrefix(cmd.checksum, cmd.tarball)
    /\ found # <<>> => Names(cmd.id, found)
    /\ found # <<>> /\ "@" \notin ToSet(found) => ~Says(pol.deny, found, Fold)
    /\ found = <<>> /\ cmd.id # <<>> /\ Last(cmd.id) = "v" =>
         ~Says(pol.deny, SubSeq(cmd.id, 1, Len(cmd.id) - 2), Fold)

\* A verify that ends well has logged what it found; if it blocks, a match.
VerifyIsLogged ==
  Done("verify") /\ exit = "ok" =>
    /\ log # <<>>
    /\ Last(log).event = "binary_verify" /\ Last(log).pkg = Base(cmd.path)
    /\ Enforcement = "block" => Last(log).match

\* What verify and audit log of an artifact is how it compares with the last
\* line of its name.
VerifiedIsListed ==
  \A e \in ToSet(IF Done("verify") /\ exit = "ok" THEN <<Last(log)>>
                 ELSE IF Done("audit") /\ exit = "ok" THEN events ELSE <<>>) :
    e.event = "binary_verify" /\ still =>
      \E i \in DOMAIN sums :
        /\ sums[i].kind = "entry" /\ sums[i].name = e.pkg
        /\ \A j \in (i + 1)..Len(sums) : sums[j].kind = "entry" => sums[j].name # e.pkg
        /\ e.match = (sums[i].hash = files[cmd.path])
        /\ Enforcement = "block" => e.match

\* An artifact that checksum has put into the file, as it is now, verifies: the
\* command finds a match, logs that and reports no violation, whichever other
\* artifacts were checksummed with it, unless a later one has the same name.
RoundTrip ==
  is("verify") /\ cmd.path \in kept /\ policyFile # Invalid /\ (phase = "log" \/ Done("verify")) =>
    /\ violations = <<>>
    /\ Len(events) = 1 /\ events[1].match /\ events[1].pkg = Base(cmd.path)

\* The checksums file works both ways: what has been checksummed and is unchanged
\* is verified, and what verifies is the content of the last line of its name.
ChecksumsVerify == VerifyIsLogged /\ VerifiedIsListed /\ RoundTrip

Number(outcomes, kinds) == Cardinality({i \in DOMAIN outcomes : outcomes[i] \in kinds})

\* The reports agree with the run.  The SARIF and the Markdown report have every
\* violation, the SARIF report under its own rule, each rule listed once, and at its
\* own package.  The JSON report has those of the policy when ci ends with them, and
\* those of the lockfile check, no others, when it comes that far (see
\* JsonTellsAll); it says passed when it has none.  And the counts of the lockfile
\* check are those of the packages: mismatched and missing ones in the JSON report
\* (which counts what was skipped, too), verified, mismatched and uninstalled ones,
\* and a mismatched artifact, in the Markdown report.
ReportsTell ==
  /\ sarif # NoReport =>
       /\ Len(sarif.results) = Len(violations)
       /\ \A i \in DOMAIN violations :
            LET r == sarif.results[i]
                name == violations[i].pkg
            IN  /\ r.ruleId = violations[i].rule[1]
                /\ r.ruleIndex + 1 \in DOMAIN sarif.rules
                /\ sarif.rules[r.ruleIndex + 1] = r.ruleId
                /\ is("audit") \/ is("ci") =>
                     \E k \in 0..Len(name) :
                       /\ r.uri = <<"node_modules", "/">> \o SubSeq(name, 1, k)
                       /\ k = Len(name) \/ SubSeq(name, k + 1, Len(name)) = <<"@", "v">>
       /\ Cardinality(ToSet(sarif.rules)) = Len(sarif.rules)
       /\ ~is("ci") => (sarif.executionSuccessful <=> violations = <<>>)
  /\ json # NoReport =>
       /\ json.passed <=> json.violations = <<>>
       /\ ToSet(json.violations) =
            IF tree = <<>> THEN ToSet(violations)
            ELSE {v \in ToSet(violations) : v.rule[1] \in {"lockfile", "lockfile_signature"}}
  /\ json # NoReport /\ tree # <<>> =>
       /\ json.audit.mismatched >= Number(tree, {"differs"})
       /\ json.audit.missing = Number(tree, {"noEntry", "notInstalled"})
       /\ json.passed => Number(tree, {"match", "neither"}) = Len(tree)
  /\ markdown # NoReport =>
       /\ markdown.summary.verified = Number(tree, {"match"})
       /\ markdown.summary.mismatched =
            Number(tree, {"differs"})
              + Count(violations, LAMBDA v : v.rule[1] = "binary_verify")
       /\ markdown.summary.missing = Number(tree, {"notInstalled"})
       /\ Len(markdown.hashes) = Number(tree, Outcome \ {"neither"})
       /\ markdown.violations = violations
       /\ markdown.failed <=> violations # <<>>
       /\ markdown.trust = Cardinality({i \in DOMAIN markdown.scores :
                                          markdown.scores[i].verdict = "fail"})

-----------------------------------------------------------------------------
(* What the documentation says, and the code does not do. *)

\* stage verify "Computes SHA-512 of the piped tarball" (README.md:121): a
\* tarball that can be read, with its own checksum and name, has no mismatch.
GenuineTarballMatches ==
  Done("stage verify") /\ cmd.checksum = cmd.tarball =>
    ~Found(violations, "hash_mismatch", {"stage_verify"})

\* It "Checks the extracted package name against policy deny rules"
\* (README.md:123).
ScopedIsDenied ==
  Done("stage verify") /\ found # <<>> /\ Says(pol.deny, found, Fold) =>
    Found(violations, "package matched deny rule", {"denylist"})

\* packages.deny is "Used in `denylist` mode" (policy.md:140), and audit-only
\* "Never blocks based on trust rules" (policy.md:59).
DenyOnlyInDenylistMode ==
  Done("stage verify") /\ Found(violations, "package matched deny rule", {"denylist"}) =>
    pol.mode = "denylist"

\* Deny rules without a mode reject (RFC.md:23-41, policy.md:262-279, "CI pipeline -
\* denylist + trust"): a blocking check lets no package through that one names.
DenyRuleRejects ==
  Done("policy check") /\ exit = "ok" /\ Enforcement = "block" /\ IsRead
    /\ policyFile.mode = "" =>
      \A i \in DOMAIN cmd.nodes : ~Says(policyFile.deny, cmd.nodes[i].name, AsWritten)

\* The JSON report of ci shows a violation of min_score (scalp-ci.md:79-85), and
\* exit code 1 is "Violations found - report has the details" (scalp-ci.md:145).
JsonTellsAll == json # NoReport => ToSet(violations) \subseteq ToSet(json.violations)

\* The JSON report counts as mismatched what "differs from lockfile"
\* (scalp-ci.md:101), and as verified the packages (getting-started.md:72).
CountsArePackages ==
  json # NoReport /\ tree # <<>> =>
    /\ json.audit.mismatched = Number(tree, {"differs"})
    /\ json.audit.verified = Number(tree, {"match"})
=============================================================================
