--------------------------- MODULE LockfileAudit ----------------------------
(***************************************************************************)
(* How the lockfile follows node_modules: scalp install and scalp ci ask   *)
(* the package manager for the tree, hash every package (SyncWithTree) and *)
(* save the lockfile with a signature; scalp ci and scalp audit hash them  *)
(* again and compare (VerifyAgainstTree); scalp init replaces the lockfile *)
(* by an empty one, in place.  One command runs at a time, and may be      *)
(* stopped between any two steps; meanwhile a developer may change  *)
(* the directories, run the package manager, edit the lockfile or          *)
(* restore one without its signing key.                                    *)
(*                                                                         *)
(* A package is a key (name@version); the tree may hold several copies of  *)
(* a key.  A lockfile entry is the hash of a directory, that is to say the *)
(* directory's content.                                                    *)
(***************************************************************************)
EXTENDS Naturals, FiniteSets

CONSTANTS
  Keys,        \* name@version
  Dirs,        \* directories under node_modules
  LocalDir,    \* node_modules/<name> for each key
  Trees,       \* the trees the package manager may report: sets of <<key, dir>>
  Contents,    \* what a package directory may contain
  Missing,     \* a directory that does not exist
  Outside,     \* a symlink that leads out of node_modules
  Unreadable,  \* a directory whose files cannot all be read
  NoEntry,     \* no lockfile entry
  NoDir,       \* resolvePkgDir's ""
  Unsigned,    \* a lockfile without signature
  Truncated,   \* a lockfile.json that was cut off, no JSON
  MaxDrift     \* bound on the changes made by others

ASSUME LocalDirAssumption == LocalDir \in [Keys -> Dirs]
ASSUME TruncatedAssumption ==
  \A p \in [Keys -> Contents \cup {NoEntry}], sig \in [Keys -> Contents \cup {NoEntry}] \cup {Unsigned} :
    Truncated # [pkgs |-> p, sig |-> sig]
ASSUME TreesAssumption == \A t \in Trees : t \subseteq Keys \X Dirs /\ IsFiniteSet(t)
ASSUME ContentsAssumption ==
  /\ {Missing, Outside, Unreadable, NoEntry} \cap Contents = {}
  /\ Unreadable \notin {Missing, Outside, NoEntry}
  /\ NoDir \notin Dirs
  /\ Unsigned \notin [Keys -> Contents \cup {NoEntry}]
ASSUME MaxDriftAssumption == MaxDrift \in Nat

VARIABLES
  disk,        \* the state of every directory
  tree,        \* the tree the package manager would report now
  lockfile,    \* .scalp/lockfile.json
  keyFile,     \* the signing key: "absent", "short" (cut off) or "good"
  cmd,         \* the command that runs or ran last
  phase,       \* where it is
  lf,          \* its Lockfile in memory
  got,         \* the tree it was given
  left,        \* the nodes its loop has not reached
  sigVerified, \* VerifyAgainstTree has looked at the signature
  violations,  \* <<rule, key>>
  outcome,     \* "ok" when it ran to its end
  loaded,      \* history: the lockfile as it was loaded
  still,       \* history: nothing was changed by others since it began to read
  synced,      \* history: nothing was since the lockfile on disk was made
  keyRead,     \* history: the last Save, of what is installed now, had a whole key
  drifts       \* number of changes made by others

memory == <<lf, got, left, sigVerified, violations, loaded>>
project == <<disk, tree>>
vars == <<disk, tree, lockfile, keyFile, cmd, phase, lf, got, left, sigVerified,
          violations, outcome, loaded, still, synced, keyRead, drifts>>

DirState == Contents \cup {Missing, Outside, Unreadable}
Packages == [Keys -> Contents \cup {NoEntry}]
Lockfile == [pkgs : Packages, sig : Packages \cup {Unsigned}]
NoPackages == [k \in Keys |-> NoEntry]
EmptyLockfile == [pkgs |-> NoPackages, sig |-> Unsigned]
Rules == {"signature", "missing_entry", "not_installed", "hash_mismatch"}

KeysOf(t) == {nd[1] : nd \in t}
Locked(l) == {k \in Keys : l.pkgs[k] # NoEntry}

TypeOK ==
  /\ disk \in [Dirs -> DirState]
  /\ tree \in Trees
  /\ lockfile \in Lockfile \cup {Truncated}
  /\ keyFile \in {"absent", "short", "good"}
  /\ cmd \in {"none", "init", "install", "ci", "audit"}
  /\ phase \in {"idle", "init", "empty", "install", "tree", "load", "sync", "sign", "genkey",
                "write", "verify"}
  /\ lf \in Lockfile
  /\ got \in Trees \cup {{}}
  /\ left \subseteq got
  /\ sigVerified \in BOOLEAN
  /\ violations \subseteq Rules \X Keys
  /\ outcome \in {"none", "ok", "error"}
  /\ loaded \in Lockfile
  /\ still \in BOOLEAN
  /\ synced \in BOOLEAN
  /\ keyRead \in BOOLEAN
  /\ drifts \in 0..MaxDrift

\* Nothing is installed; the lockfile is one that was saved before and copied or
\* restored with its signing key or without, or there is none.
Init ==
  /\ disk = [d \in Dirs |-> Missing]
  /\ tree \in Trees
  /\ lockfile \in {EmptyLockfile} \cup {[pkgs |-> p, sig |-> p] : p \in Packages}
  /\ keyFile \in {"absent", "good"}
  /\ cmd = "none"
  /\ phase = "idle"
  /\ lf = EmptyLockfile
  /\ got = {}
  /\ left = {}
  /\ sigVerified = FALSE
  /\ violations = {}
  /\ outcome = "none"
  /\ loaded = EmptyLockfile
  /\ still = FALSE
  /\ synced = FALSE
  /\ keyRead = FALSE
  /\ drifts = 0

-----------------------------------------------------------------------------
(* Helpers of the lockfile package. *)

\* The directory hashed for a node: the one reported, else node_modules/<name>
\* (whatever version is there); "" when neither exists, and when the one chosen
\* leads out of node_modules.
resolvePkgDir(nd) ==
  LET path == IF disk[nd[2]] # Missing THEN nd[2] ELSE LocalDir[nd[1]]
  IN  IF disk[path] \in {Missing, Outside} THEN NoDir ELSE path

\* The signature covers the packages: it is absent or over these very ones.
SignatureValid(l) == l.sig \in {Unsigned, l.pkgs}

-----------------------------------------------------------------------------
(* Commands. *)

Begin(c) ==
  /\ phase = "idle"
  /\ cmd' = c
  /\ phase' = CASE c = "init" -> "init" [] c = "audit" -> "load"
              [] OTHER -> "install"
  /\ still' = TRUE
  /\ lf' = EmptyLockfile
  /\ got' = {}
  /\ left' = {}
  /\ sigVerified' = FALSE
  /\ violations' = {}
  /\ loaded' = EmptyLockfile
  /\ outcome' = "none"
  /\ UNCHANGED <<project, lockfile, keyFile, synced, keyRead, drifts>>

End(result) ==
  /\ phase' = "idle"
  /\ outcome' = result

\* scalp init writes "{}" over the lockfile that is there, without asking and
\* without a temporary file: os.WriteFile cuts it off and then writes.
TruncateLockfile ==
  /\ phase = "init"
  /\ \/ lockfile' = Truncated /\ synced' = FALSE /\ phase' = "empty" /\ UNCHANGED outcome
     \/ End("error") /\ UNCHANGED <<lockfile, synced>>
  /\ UNCHANGED <<project, keyFile, cmd, memory, still, keyRead, drifts>>

WriteEmptyLockfile ==
  /\ phase = "empty"
  /\ \/ lockfile' = EmptyLockfile /\ End("ok")
     \/ End("error") /\ UNCHANGED lockfile
  /\ UNCHANGED <<project, keyFile, cmd, memory, still, synced, keyRead, drifts>>

\* The package manager installs, or fails having installed some of it.
PMInstall ==
  /\ phase = "install"
  /\ tree' \in Trees
  /\ disk' \in [Dirs -> DirState]
  /\ synced' = FALSE
  /\ \/ phase' = "tree" /\ UNCHANGED outcome
     \/ End("error")
  /\ still' = TRUE
  /\ keyRead' = FALSE
  /\ UNCHANGED <<lockfile, keyFile, cmd, memory, drifts>>

GetTree ==
  /\ phase = "tree"
  /\ got' = tree
  /\ left' = tree
  /\ phase' = IF cmd = "audit" THEN "verify" ELSE "load"
  /\ UNCHANGED <<project, lockfile, keyFile, cmd, lf, sigVerified, violations,
                 outcome, loaded, still, synced, keyRead, drifts>>

\* A lockfile that was cut off is refused by every command.
Load ==
  /\ phase = "load"
  /\ \/ /\ lockfile # Truncated
        /\ lf' = lockfile
        /\ loaded' = lockfile
        /\ phase' = IF cmd = "audit" THEN "tree" ELSE "sync"
        /\ UNCHANGED outcome
     \/ /\ lockfile = Truncated
        /\ End("error")
        /\ UNCHANGED <<lf, loaded>>
  /\ UNCHANGED <<project, lockfile, keyFile, cmd, got, left, sigVerified,
                 violations, still, synced, keyRead, drifts>>

\* SyncWithTree, one node: the first copy of a key met, in an order that
\* depends on map iteration, stands for the others.  A package without a
\* directory is skipped and keeps the entry it had.
SyncNode(nd) ==
  /\ phase = "sync"
  /\ nd \in left
  /\ left' = {m \in left : m[1] # nd[1]}
  /\ LET dir == resolvePkgDir(nd) IN
       \/ dir = NoDir /\ UNCHANGED <<lf, phase, outcome>>
       \/ /\ dir # NoDir
          /\ disk[dir] # Unreadable
          /\ lf' = [lf EXCEPT !.pkgs[nd[1]] = disk[dir]]
          /\ UNCHANGED <<phase, outcome>>
       \/ /\ dir # NoDir
          /\ disk[dir] = Unreadable
          /\ End("error")
          /\ UNCHANGED lf
  /\ UNCHANGED <<project, lockfile, keyFile, cmd, got, sigVerified, violations,
                 loaded, still, synced, keyRead, drifts>>

\* Mutant: stale entries are kept.
PruneNothing ==
  /\ phase = "sync"
  /\ left = {}
  /\ phase' = "sign"
  /\ UNCHANGED <<project, lockfile, keyFile, cmd, memory, outcome, still, synced, keyRead, drifts>>

\* The end of SyncWithTree: entries of keys no longer in the tree go.
Prune ==
  /\ phase = "sync"
  /\ left = {}
  /\ lf' = [lf EXCEPT !.pkgs =
              [k \in Keys |-> IF k \in KeysOf(got) THEN lf.pkgs[k] ELSE NoEntry]]
  /\ phase' = "sign"
  /\ UNCHANGED <<project, lockfile, keyFile, cmd, got, left, sigVerified,
                 violations, outcome, loaded, still, synced, keyRead, drifts>>

-----------------------------------------------------------------------------
(* Save: signLockfile, then WriteFileAtomic. *)

Sign == lf' = [lf EXCEPT !.sig = lf.pkgs]

unchangedBySign ==
  <<project, lockfile, cmd, got, left, sigVerified, violations, outcome, loaded,
    still, synced, drifts>>

\* Mutant: a lockfile that carries a signature is not signed again.
SignLockfileOnce ==
  /\ phase = "sign"
  /\ \/ /\ keyFile = "good"
        /\ IF lf.sig = Unsigned THEN Sign ELSE UNCHANGED lf
        /\ keyRead' = TRUE
     \/ UNCHANGED lf /\ keyRead' = FALSE
  /\ phase' = "write"
  /\ UNCHANGED <<unchangedBySign, keyFile>>

\* A whole key that can be read signs.  Where the key is cut off, cannot be read
\* or cannot be made, the lockfile is left as it is, an older signature included.
SignLockfile ==
  /\ phase = "sign"
  /\ \/ keyFile = "good" /\ Sign /\ keyRead' = TRUE
     \/ UNCHANGED lf /\ keyRead' = FALSE
  /\ phase' = "write"
  /\ UNCHANGED <<unchangedBySign, keyFile>>

\* The key is written in place: the file exists before it is whole.
GenerateKey ==
  /\ phase = "sign"
  /\ keyFile = "absent"
  /\ keyFile' = "short"
  /\ phase' = "genkey"
  /\ UNCHANGED <<unchangedBySign, lf, keyRead>>

\* The write of the key may fail, also when it closes a file that is whole.
KeyWritten ==
  /\ phase = "genkey"
  /\ \/ keyFile' = "good" /\ Sign /\ keyRead' = TRUE
     \/ keyFile' \in {"short", "good"} /\ UNCHANGED lf /\ keyRead' = FALSE
  /\ phase' = "write"
  /\ UNCHANGED unchangedBySign

\* Mutant: scalp ci asks for the tree again before it verifies.
WriteLockfileNewTree ==
  /\ phase = "write"
  /\ \/ /\ lockfile' = lf
        /\ synced' = still
        /\ left' = IF cmd = "ci" THEN tree ELSE left
        /\ IF cmd = "ci" THEN phase' = "verify" /\ UNCHANGED outcome
                         ELSE End("ok")
     \/ /\ End("error")
        /\ UNCHANGED <<lockfile, synced, left>>
  /\ UNCHANGED <<project, keyFile, cmd, lf, got, sigVerified, violations, loaded,
                 still, keyRead, drifts>>

\* The rename of WriteFileAtomic (see AtomicWrite), which may fail.
WriteLockfile ==
  /\ phase = "write"
  /\ \/ /\ lockfile' = lf
        /\ synced' = still
        /\ left' = IF cmd = "ci" THEN got ELSE left
        /\ IF cmd = "ci" THEN phase' = "verify" /\ UNCHANGED outcome
                         ELSE End("ok")
     \/ /\ End("error")
        /\ UNCHANGED <<lockfile, synced, left>>
  /\ UNCHANGED <<project, keyFile, cmd, lf, got, sigVerified, violations, loaded,
                 still, keyRead, drifts>>

-----------------------------------------------------------------------------
(* VerifyAgainstTree. *)

\* The signature is looked at with the first node only.
SignatureFound(nd) ==
  IF ~sigVerified /\ ~SignatureValid(lf) THEN {<<"signature", nd[1]>>} ELSE {}

\* Mutant: a package without entry is reported whether it has a directory or not.
NodeFoundOptional(nd) ==
  LET k == nd[1]
      dir == resolvePkgDir(nd)
  IN  IF lf.pkgs[k] = NoEntry THEN {<<"missing_entry", k>>}
      ELSE IF dir = NoDir THEN {<<"not_installed", k>>}
      ELSE IF disk[dir] # lf.pkgs[k] THEN {<<"hash_mismatch", k>>}
      ELSE {}

\* What comparing one node with its entry finds.
NodeFound(nd) ==
  LET k == nd[1]
      dir == resolvePkgDir(nd)
  IN  IF lf.pkgs[k] = NoEntry
        THEN IF dir = NoDir THEN {} ELSE {<<"missing_entry", k>>}
      ELSE IF dir = NoDir THEN {<<"not_installed", k>>}
      ELSE IF disk[dir] # lf.pkgs[k] THEN {<<"hash_mismatch", k>>}
      ELSE {}

\* Hashing an unreadable directory fails, and the command with it; a package
\* without an entry is not hashed.
HashFails(nd) ==
  /\ lf.pkgs[nd[1]] # NoEntry
  /\ resolvePkgDir(nd) # NoDir
  /\ disk[resolvePkgDir(nd)] = Unreadable

VerifyNode(nd) ==
  /\ phase = "verify"
  /\ nd \in left
  /\ left' = {m \in left : m[1] # nd[1]}
  /\ sigVerified' = (sigVerified \/ lf.sig # Unsigned)
  /\ \/ /\ HashFails(nd)
        /\ End("error")
        /\ UNCHANGED violations
     \/ /\ ~HashFails(nd)
        /\ violations' = violations \cup SignatureFound(nd) \cup NodeFound(nd)
        /\ UNCHANGED <<phase, outcome>>
  /\ UNCHANGED <<project, lockfile, keyFile, cmd, lf, got, loaded, still, synced,
                 keyRead, drifts>>

\* Mutant: only the packages of the tree are checked.
VerifyTreeOnly ==
  /\ phase = "verify"
  /\ left = {}
  /\ End("ok")
  /\ UNCHANGED <<project, lockfile, keyFile, cmd, memory, still, synced, keyRead, drifts>>

\* The entries of keys that are not in the tree.
VerifyEntries ==
  /\ phase = "verify"
  /\ left = {}
  /\ violations' = violations \cup
       {<<"not_installed", k>> : k \in Locked(lf) \ KeysOf(got)}
  /\ End("ok")
  /\ UNCHANGED <<project, lockfile, keyFile, cmd, lf, got, left, sigVerified,
                 loaded, still, synced, keyRead, drifts>>

-----------------------------------------------------------------------------
(* The environment. *)

\* SIGINT or a kill between two steps.
Stop ==
  /\ phase # "idle"
  /\ End("error")
  /\ UNCHANGED <<project, lockfile, keyFile, cmd, memory, still, synced, keyRead, drifts>>

\* A developer or another tool changes a directory, the tree or the lockfile.
Drift ==
  /\ drifts < MaxDrift
  /\ drifts' = drifts + 1
  /\ \/ /\ \E d \in Dirs, s \in DirState : disk' = [disk EXCEPT ![d] = s]
        /\ UNCHANGED <<tree, lockfile>>
     \/ /\ tree' \in Trees
        /\ UNCHANGED <<disk, lockfile>>
     \/ /\ lockfile # Truncated
        /\ \E k \in Keys, c \in Contents \cup {NoEntry} :
             lockfile' = [lockfile EXCEPT !.pkgs[k] = c]
        /\ UNCHANGED project
  /\ still' = FALSE
  /\ synced' = FALSE
  /\ keyRead' = FALSE
  /\ UNCHANGED <<keyFile, cmd, phase, memory, outcome>>

Next ==
  \/ \E c \in {"init", "install", "ci", "audit"} : Begin(c)
  \/ TruncateLockfile \/ WriteEmptyLockfile
  \/ PMInstall \/ GetTree \/ Load
  \/ \E nd \in Keys \X Dirs : SyncNode(nd) \/ VerifyNode(nd)
  \/ Prune \/ SignLockfile \/ GenerateKey \/ KeyWritten \/ WriteLockfile
  \/ VerifyEntries
  \/ Stop \/ Drift

Spec == Init /\ [][Next]_vars

-----------------------------------------------------------------------------
(* Properties. *)

\* What an entry of key k may be if the lockfile is to describe the packages of
\* tree t: the content of one of k's copies, or none when one has no directory.
AsInstalled(t, k) ==
  IF k \in KeysOf(t)
    THEN {IF resolvePkgDir(nd) = NoDir THEN NoEntry ELSE disk[resolvePkgDir(nd)]
            : nd \in {m \in t : m[1] = k}}
    ELSE {NoEntry}

Finished(c) == phase = "idle" /\ cmd = c /\ outcome = "ok"

\* As long as nobody else touches the project, the saved lockfile describes what
\* is installed: every entry is the content of a copy of its package, and only
\* a package without a directory may keep the entry it had.
SavedIsInstalled ==
  synced => \A k \in Keys :
    \/ lockfile.pkgs[k] \in AsInstalled(tree, k)
    \/ NoEntry \in AsInstalled(tree, k) /\ k \in KeysOf(tree)

\* Then scalp audit and the check that ends scalp ci raise no false alarm about
\* a package with one directory: a mismatch means copies that differ, a missing
\* entry or package one that has no directory.  Nor do they blame the signature
\* unless the save that made the lockfile had no key.
NoFalseAlarm ==
  synced /\ (Finished("audit") \/ Finished("ci")) =>
    \A k \in Keys :
      /\ <<"hash_mismatch", k>> \in violations => Cardinality(AsInstalled(got, k)) > 1
      /\ <<"missing_entry", k>> \in violations => Cardinality(AsInstalled(got, k)) > 1
      /\ <<"not_installed", k>> \in violations =>
           NoEntry \in AsInstalled(got, k) /\ k \in KeysOf(got)
      /\ <<"signature", k>> \in violations => ~keyRead

\* A clean audit is true: when nothing changed while it ran, the lockfile it
\* read describes what is installed, and its signature covers it (the signature
\* of a lockfile is not looked at when the tree is empty).
CleanAuditIsTrue ==
  Finished("audit") /\ still /\ violations = {} =>
    /\ \A k \in Keys : loaded.pkgs[k] \in AsInstalled(got, k)
    /\ got # {} => SignatureValid(loaded)

\* A saved lockfile has a signature that does not cover it only where the save
\* that wrote it had no key in hand (none, one cut off, one that could not be read
\* or made), whatever was interrupted before: no save that has its key keeps an
\* old signature on new content, and none signs with a key that was cut off.
StaleSignatureMeansNoKey ==
  synced /\ ~SignatureValid(lockfile) => ~keyRead

\* "Save writes the lockfile to disk atomically, signing it if a signing key is
\* available" (lockfile.go:60): what it saves has a valid signature or none.
SavedSignatureValid == synced => SignatureValid(lockfile)

\* scalp ci "Audits the lockfile against node_modules (detects tampering,
\* missing packages)" (scalp-ci.md:23): an entry that was in the lockfile and
\* differs from what was installed is reported.
CiDetectsTampering ==
  Finished("ci") /\ still =>
    \A k \in Locked(loaded) \cap KeysOf(got) :
      loaded.pkgs[k] \notin AsInstalled(got, k) => violations # {}

\* scalp audit will "Verify .scalp/lockfile.json hashes match node_modules on
\* disk" (README.md:47): after a clean audit every copy of a package has the
\* content that is locked.
EveryCopyVerified ==
  Finished("audit") /\ still /\ violations = {} =>
    \A nd \in got : AsInstalled({nd}, nd[1]) = {loaded.pkgs[nd[1]]}
=============================================================================
