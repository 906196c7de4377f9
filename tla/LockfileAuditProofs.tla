-------------------------- MODULE LockfileAuditProofs -------------------------
(***************************************************************************)
(* Proofs about LockfileAudit, for any packages, directories and trees,    *)
(* with every interruption and any number of changes by others: what the   *)
(* saved lockfile says of node_modules, what an audit finds, and when a    *)
(* signature may not cover its lockfile.                                   *)
(***************************************************************************)
EXTENDS LockfileAudit, FiniteSetTheorems, TLAPS

\* The commands of the model.
Commands == {"init", "install", "ci", "audit"}

-----------------------------------------------------------------------------
(* What is installed, as functions of the disk. *)

\* The directory that stands for node nd on disk d: its own, or the one named
\* after its package; NoDir when there is none or it is outside.
DirOf(d, nd) ==
  LET path == IF d[nd[2]] # Missing THEN nd[2] ELSE LocalDir[nd[1]]
  IN  IF d[path] \in {Missing, Outside} THEN NoDir ELSE path

\* What can be hashed there.
Content(d, nd) == IF DirOf(d, nd) = NoDir THEN NoEntry ELSE d[DirOf(d, nd)]

\* What is installed of the package k in tree t; NoEntry for what is not.
Copies(d, t, k) ==
  IF k \in KeysOf(t) THEN {Content(d, nd) : nd \in {m \in t : m[1] = k}} ELSE {NoEntry}

\* The entry of k describes k in tree t.
Right(d, t, k, entry) ==
  entry \in Copies(d, t, k) \/ (NoEntry \in Copies(d, t, k) /\ k \in KeysOf(t))

\* These are what the model speaks of, on the disk of the state.
LEMMA CopiesAreInstalled ==
  /\ \A nd : resolvePkgDir(nd) = DirOf(disk, nd)
  /\ \A t, k : AsInstalled(t, k) = Copies(disk, t, k)
BY DEF resolvePkgDir, DirOf, Content, AsInstalled, Copies

-----------------------------------------------------------------------------
(* The inductive invariant. *)

\* The phases in which the lockfile in memory is made and signed.
Syncing == {"sync", "sign", "genkey", "write"}

\* Which command is in which phase.  While one makes a new lockfile nothing is
\* claimed of the one on disk; before it compares it has found nothing.
Order ==
  /\ phase \in {"init", "empty"} => cmd = "init"
  /\ phase \in Syncing \cup {"install"} => cmd \in {"install", "ci"}
  /\ phase \in {"tree", "load"} => cmd \in {"install", "ci", "audit"}
  /\ phase = "verify" => cmd \in {"ci", "audit"}
  /\ synced => still
  /\ phase \in Syncing \cup {"empty"} \/ (phase \in {"tree", "load"} /\ cmd # "audit") =>
       ~synced
  /\ phase \notin {"idle", "verify"} => ~sigVerified /\ violations = {}
  /\ phase = "load" /\ cmd # "audit" => left = got

\* The entries of the nodes that the loop has passed describe them, and so does
\* every entry when it ends; what is saved is the lockfile in memory.
Synced ==
  /\ still /\ (phase \in Syncing \cup {"verify"} \/ (phase = "load" /\ cmd # "audit")) =>
       got = tree
  /\ still /\ phase = "sync" =>
       \A k \in KeysOf(got) \ KeysOf(left) : Right(disk, got, k, lf.pkgs[k])
  /\ still /\ phase \in {"sign", "genkey", "write"} =>
       \A k \in Keys : Right(disk, got, k, lf.pkgs[k])
  /\ synced => lockfile # Truncated /\ \A k \in Keys : Right(disk, tree, k, lockfile.pkgs[k])
  /\ synced /\ (phase = "verify" \/ (phase = "tree" /\ cmd = "audit")) => lf = lockfile

\* What is about to be written carries a signature of its own, or had no key.
Signed ==
  /\ phase = "genkey" => keyFile = "short"
  /\ phase = "write" => SignatureValid(lf) \/ ~keyRead

\* The check of a saved lockfile has found nothing yet but what it may find.
Alarms ==
  synced /\ (phase = "verify" \/ Finished("audit") \/ Finished("ci")) =>
    \A k \in Keys :
      /\ <<"hash_mismatch", k>> \in violations => Cardinality(Copies(disk, got, k)) > 1
      /\ <<"missing_entry", k>> \in violations => Cardinality(Copies(disk, got, k)) > 1
      /\ <<"not_installed", k>> \in violations =>
           NoEntry \in Copies(disk, got, k) /\ k \in KeysOf(got)
      /\ <<"signature", k>> \in violations => ~keyRead

\* While an audit has found nothing the nodes it has passed are as they are
\* locked, and with the first of them it has looked at the signature.
Clean ==
  /\ cmd = "audit" /\ phase \in {"tree", "verify"} => lf = loaded
  /\ cmd = "audit" /\ phase = "verify" /\ still /\ violations = {} =>
       /\ \A k \in KeysOf(got) \ KeysOf(left) : loaded.pkgs[k] \in Copies(disk, got, k)
       /\ sigVerified \/ left # got => SignatureValid(loaded)
  /\ Finished("audit") /\ still /\ violations = {} =>
       /\ \A k \in Keys : loaded.pkgs[k] \in Copies(disk, got, k)
       /\ got # {} => SignatureValid(loaded)

\* With the property of stale signatures, which is inductive with Signed.
IInv == TypeOK /\ Order /\ Synced /\ Signed /\ Alarms /\ Clean /\ StaleSignatureMeansNoKey

-----------------------------------------------------------------------------
(* Helpers. *)

\* The directory that stands for a node is one of the project's and holds a
\* package that can be hashed or not.
LEMMA DirTyped ==
  ASSUME NEW d \in [Dirs -> DirState], NEW nd \in Keys \X Dirs
  PROVE  /\ DirOf(d, nd) \in Dirs \cup {NoDir}
         /\ DirOf(d, nd) # NoDir => d[DirOf(d, nd)] \in Contents \cup {Unreadable}
<1>1. nd[1] \in Keys /\ nd[2] \in Dirs /\ LocalDir[nd[1]] \in Dirs
  BY LocalDirAssumption
<1> QED
  BY <1>1 DEF DirOf, DirState

\* The content of a node is a copy of its package.
LEMMA NodeCopies ==
  ASSUME NEW d, NEW t, NEW nd \in t
  PROVE  nd[1] \in KeysOf(t) /\ Content(d, nd) \in Copies(d, t, nd[1])
BY DEF KeysOf, Copies

\* Of a package without node there is none.
LEMMA NoCopies ==
  ASSUME NEW d, NEW t, NEW k, k \notin KeysOf(t)
  PROVE  Copies(d, t, k) = {NoEntry}
BY DEF Copies

\* Two contents of one package are two copies.
LEMMA CopiesDiffer ==
  ASSUME NEW d, NEW t, IsFiniteSet(t), NEW k,
         NEW a \in Copies(d, t, k), NEW b \in Copies(d, t, k), a # b
  PROVE  Cardinality(Copies(d, t, k)) > 1
<1> DEFINE nodes == {m \in t : m[1] = k}
           contents == {Content(d, nd) : nd \in nodes}
<1>1. IsFiniteSet(Copies(d, t, k))
  <2>1. IsFiniteSet(nodes)
    BY FS_Subset
  <2>2. [nd \in nodes |-> Content(d, nd)] \in Surjection(nodes, contents)
    BY DEF Surjection
  <2>3. IsFiniteSet(contents)
    <3> HIDE DEF nodes, contents
    <3> QED
      BY <2>1, <2>2, FS_Surjection
  <2> QED
    BY <2>3, FS_Singleton DEF Copies
<1>2. Cardinality({a, b}) = 2
  <2>1. IsFiniteSet({a}) /\ Cardinality({a}) = 1
    BY FS_Singleton
  <2>2. Cardinality({a} \cup {b}) = Cardinality({a}) + 1
    BY <2>1, b \notin {a}, FS_AddElement
  <2>3. {a} \cup {b} = {a, b}
    OBVIOUS
  <2> QED
    BY <2>1, <2>2, <2>3
<1>3. {a, b} \in SUBSET Copies(d, t, k)
  OBVIOUS
<1>4. Cardinality({a, b}) <= Cardinality(Copies(d, t, k))
  BY <1>1, <1>3, FS_Subset
<1> QED
  BY <1>1, <1>2, <1>4, FS_CardinalityType

\* A lockfile that was not cut off is none that was.
LEMMA NotTruncated == \A l \in Lockfile : l # Truncated
<1> SUFFICES ASSUME NEW l \in Lockfile PROVE l # Truncated
  OBVIOUS
<1>1. l = [pkgs |-> l.pkgs, sig |-> l.sig] /\ l.pkgs \in Packages /\ l.sig \in Packages \cup {Unsigned}
  BY DEF Lockfile
<1> QED
  BY <1>1, TruncatedAssumption DEF Packages

\* Signing leaves the packages and covers them.
LEMMA SignedCovers ==
  ASSUME NEW l \in Lockfile, NEW m, m = [l EXCEPT !.sig = l.pkgs]
  PROVE  m \in Lockfile /\ m.pkgs = l.pkgs /\ m.sig = l.pkgs /\ SignatureValid(m)
BY DEF Lockfile, SignatureValid

\* Types.
LEMMA TypeNext ==
  ASSUME TypeOK, [Next]_vars PROVE TypeOK'
<1> USE ContentsAssumption, TreesAssumption DEF TypeOK, Lockfile, project, memory,
    unchangedBySign, End
<1>1. ASSUME NEW c \in Commands, Begin(c) PROVE TypeOK'
  BY <1>1 DEF Begin, EmptyLockfile, NoPackages, Packages, Commands
<1>2. CASE TruncateLockfile
  <2>1. lockfile' \in Lockfile \cup {Truncated}
    BY <1>2 DEF TruncateLockfile
  <2>2. synced' \in BOOLEAN /\ phase' \in {"idle", "empty"} /\ outcome' \in {"none", "ok", "error"}
    BY <1>2 DEF TruncateLockfile
  <2> QED
    BY <1>2, <2>1, <2>2 DEF TruncateLockfile
<1>3. CASE WriteEmptyLockfile
  BY <1>3 DEF WriteEmptyLockfile, EmptyLockfile, NoPackages, Packages
<1>4. CASE PMInstall
  <2>1. phase' \in {"idle", "tree"} /\ outcome' \in {"none", "ok", "error"}
    BY <1>4 DEF PMInstall
  <2>2. tree' \in Trees /\ disk' \in [Dirs -> DirState] /\ still' \in BOOLEAN /\ synced' \in BOOLEAN
    BY <1>4 DEF PMInstall
  <2>3. UNCHANGED <<lockfile, keyFile, cmd, memory, drifts>> /\ keyRead' \in BOOLEAN
    BY <1>4 DEF PMInstall
  <2> QED
    BY <2>1, <2>2, <2>3
<1>5. CASE GetTree
  BY <1>5 DEF GetTree
<1>6. CASE Load
  BY <1>6 DEF Load
<1>7. ASSUME NEW nd \in Keys \X Dirs, SyncNode(nd) PROVE TypeOK'
  BY <1>7, CopiesAreInstalled, DirTyped DEF SyncNode, Packages, DirState
<1>8. ASSUME NEW nd \in Keys \X Dirs, VerifyNode(nd) PROVE TypeOK'
  BY <1>8 DEF VerifyNode, HashFails, SignatureFound, NodeFound, Rules
<1>9. CASE Prune
  BY <1>9 DEF Prune, Packages
<1>10. CASE SignLockfile
  <2>1. lf' \in Lockfile
    BY <1>10, SignedCovers DEF SignLockfile, Sign
  <2>2. phase' = "write" /\ keyRead' \in BOOLEAN /\ UNCHANGED <<unchangedBySign, keyFile>>
    BY <1>10 DEF SignLockfile
  <2> QED
    BY <2>1, <2>2
<1>11. CASE GenerateKey
  BY <1>11 DEF GenerateKey
<1>12. CASE KeyWritten
  <2>1. lf' \in Lockfile
    BY <1>12, SignedCovers DEF KeyWritten, Sign
  <2>2. /\ phase' = "write" /\ keyRead' \in BOOLEAN /\ UNCHANGED unchangedBySign
        /\ keyFile' \in {"short", "good"}
    BY <1>12 DEF KeyWritten
  <2> QED
    BY <2>1, <2>2
<1>13. CASE WriteLockfile
  BY <1>13 DEF WriteLockfile
<1>14. CASE VerifyEntries
  BY <1>14 DEF VerifyEntries, Rules, Locked
<1>15. CASE Stop
  BY <1>15 DEF Stop
<1>16. CASE Drift
  <2>1. disk' \in [Dirs -> DirState]
    BY <1>16 DEF Drift
  <2>2. tree' \in Trees
    BY <1>16 DEF Drift
  <2>3. lockfile' \in Lockfile \cup {Truncated}
    <3>1. ASSUME lockfile # Truncated, NEW k \in Keys, NEW c \in Contents \cup {NoEntry},
                 lockfile' = [lockfile EXCEPT !.pkgs[k] = c]
          PROVE  lockfile' \in Lockfile
      BY <3>1 DEF Packages
    <3> QED
      BY <1>16, <3>1 DEF Drift
  <2>4. still' \in BOOLEAN /\ synced' \in BOOLEAN
    BY <1>16 DEF Drift
  <2>5. drifts \in 0..MaxDrift /\ drifts < MaxDrift /\ drifts' = drifts + 1
    BY <1>16 DEF Drift
  <2>6. drifts' \in 0..MaxDrift
    BY <2>5, MaxDriftAssumption
  <2>7. UNCHANGED <<keyFile, cmd, phase, memory, outcome>> /\ keyRead' \in BOOLEAN
    BY <1>16 DEF Drift
  <2> QED
    BY <2>1, <2>2, <2>3, <2>4, <2>6, <2>7
<1>17. CASE UNCHANGED vars
  BY <1>17 DEF vars
<1> QED
  BY <1>1, <1>2, <1>3, <1>4, <1>5, <1>6, <1>7, <1>8, <1>9, <1>10, <1>11, <1>12, <1>13,
     <1>14, <1>15, <1>16, <1>17 DEF Next, Commands

\* Phases.
LEMMA OrderNext ==
  ASSUME TypeOK, Order, [Next]_vars PROVE Order'
<1> USE DEF TypeOK, Order, Syncing, Commands, project, memory, unchangedBySign, End
<1>1. ASSUME NEW c \in Commands, Begin(c) PROVE Order'
  BY <1>1 DEF Begin
<1>2. CASE TruncateLockfile
  BY <1>2 DEF TruncateLockfile
<1>3. CASE WriteEmptyLockfile
  BY <1>3 DEF WriteEmptyLockfile
<1>4. CASE PMInstall
  BY <1>4 DEF PMInstall
<1>5. CASE GetTree
  BY <1>5 DEF GetTree
<1>6. CASE Load
  BY <1>6 DEF Load
<1>7. ASSUME NEW nd \in Keys \X Dirs, SyncNode(nd) PROVE Order'
  BY <1>7 DEF SyncNode
<1>8. ASSUME NEW nd \in Keys \X Dirs, VerifyNode(nd) PROVE Order'
  BY <1>8 DEF VerifyNode, HashFails, SignatureFound
<1>9. CASE Prune
  BY <1>9 DEF Prune
<1>10. CASE SignLockfile
  BY <1>10 DEF SignLockfile, Sign
<1>11. CASE GenerateKey
  BY <1>11 DEF GenerateKey
<1>12. CASE KeyWritten
  BY <1>12 DEF KeyWritten, Sign
<1>13. CASE WriteLockfile
  BY <1>13 DEF WriteLockfile
<1>14. CASE VerifyEntries
  BY <1>14 DEF VerifyEntries
<1>15. CASE Stop
  BY <1>15 DEF Stop
<1>16. CASE Drift
  BY <1>16 DEF Drift
<1>17. CASE UNCHANGED vars
  BY <1>17 DEF vars
<1> QED
  BY <1>1, <1>2, <1>3, <1>4, <1>5, <1>6, <1>7, <1>8, <1>9, <1>10, <1>11, <1>12, <1>13,
     <1>14, <1>15, <1>16, <1>17 DEF Next, Commands

\* What sync has done.
LEMMA SyncedNext ==
  ASSUME TypeOK, Order, Synced, [Next]_vars PROVE Synced'
<1> USE DEF TypeOK, Order, Synced, Syncing, project, memory, unchangedBySign, End
<1>1. ASSUME NEW c \in Commands, Begin(c) PROVE Synced'
  BY <1>1 DEF Begin
<1>2. CASE TruncateLockfile
  BY <1>2 DEF TruncateLockfile
<1>3. CASE WriteEmptyLockfile
  BY <1>3 DEF WriteEmptyLockfile
<1>4. CASE PMInstall
  BY <1>4 DEF PMInstall
<1>5. CASE GetTree
  BY <1>5 DEF GetTree
<1>6. CASE Load
  <2>1. still' /\ phase' = "sync" => KeysOf(got') = KeysOf(left')
    BY <1>6 DEF Load
  <2> QED
    BY <1>6, <2>1 DEF Load
<1>7. ASSUME NEW nd \in Keys \X Dirs, SyncNode(nd) PROVE Synced'
  <2>1. ASSUME still', phase' = "sync", NEW k \in KeysOf(got') \ KeysOf(left')
        PROVE  Right(disk, got, k, lf'.pkgs[k])
    <3>1. /\ got \subseteq Keys \X Dirs /\ left \subseteq got /\ nd \in left
          /\ resolvePkgDir(nd) = DirOf(disk, nd)
      BY <1>7, TreesAssumption, CopiesAreInstalled DEF SyncNode
    <3>2. k = nd[1] \/ k \notin KeysOf(left)
      BY <1>7, <2>1 DEF SyncNode, KeysOf
    <3>3. nd[1] \in Keys /\ k \in Keys
      BY <1>7, <2>1, <3>1 DEF SyncNode, KeysOf
    <3>4. k \in KeysOf(got) /\ Content(disk, nd) \in Copies(disk, got, nd[1])
      BY <1>7, <2>1, <3>1, NodeCopies DEF SyncNode
    <3>5. CASE resolvePkgDir(nd) = NoDir
      <4>1. lf' = lf /\ phase = "sync" /\ still
        BY <1>7, <2>1, <3>5 DEF SyncNode
      <4>2. Content(disk, nd) = NoEntry
        BY <3>1, <3>5 DEF Content
      <4> QED
        BY <3>2, <3>4, <4>1, <4>2 DEF Right
    <3>6. CASE resolvePkgDir(nd) # NoDir
      <4>1. lf' = [lf EXCEPT !.pkgs[nd[1]] = disk[resolvePkgDir(nd)]] /\ phase = "sync" /\ still
        BY <1>7, <2>1, <3>6 DEF SyncNode
      <4>2. Content(disk, nd) = disk[resolvePkgDir(nd)]
        BY <3>1, <3>6 DEF Content
      <4>3. lf'.pkgs = [lf.pkgs EXCEPT ![nd[1]] = Content(disk, nd)]
        BY <4>1, <4>2 DEF Lockfile
      <4>4. lf.pkgs \in Packages
        BY DEF Lockfile
      <4>5. lf'.pkgs[k] = IF k = nd[1] THEN Content(disk, nd) ELSE lf.pkgs[k]
        BY <3>3, <4>3, <4>4 DEF Packages
      <4>6. k # nd[1] => Right(disk, got, k, lf.pkgs[k])
        BY <3>2, <3>4, <4>1
      <4> QED
        BY <3>4, <4>5, <4>6 DEF Right
    <3> QED
      BY <3>5, <3>6
  <2>2. phase = "sync" /\ ~synced /\ phase' \in {"sync", "idle"}
    BY <1>7 DEF SyncNode
  <2>3. UNCHANGED <<disk, tree, lockfile, got, still, synced>>
    BY <1>7 DEF SyncNode
  <2> QED
    BY <2>1, <2>2, <2>3
<1>8. ASSUME NEW nd \in Keys \X Dirs, VerifyNode(nd) PROVE Synced'
  BY <1>8 DEF VerifyNode, HashFails, SignatureFound
<1>9. CASE Prune
  <2>1. /\ phase = "sync" /\ left = {} /\ ~synced /\ phase' = "sign"
        /\ UNCHANGED <<disk, tree, lockfile, got, still, synced>>
    BY <1>9 DEF Prune
  <2>2. KeysOf(left) = {}
    BY <2>1 DEF KeysOf
  <2>3. lf'.pkgs = [k \in Keys |-> IF k \in KeysOf(got) THEN lf.pkgs[k] ELSE NoEntry]
    BY <1>9 DEF Prune, Lockfile
  <2>4. ASSUME still, NEW k \in Keys
        PROVE  Right(disk, got, k, lf'.pkgs[k])
    <3>1. CASE k \in KeysOf(got)
      BY <2>1, <2>2, <2>3, <2>4, <3>1
    <3>2. CASE k \notin KeysOf(got)
      BY <2>3, <2>4, <3>2, NoCopies DEF Right
    <3> QED
      BY <3>1, <3>2
  <2> QED
    BY <2>1, <2>4
<1>10. CASE SignLockfile
  <2>1. lf'.pkgs = lf.pkgs
    BY <1>10, SignedCovers DEF SignLockfile, Sign
  <2>2. /\ phase \in {"sign", "genkey"} /\ ~synced /\ phase' = "write"
        /\ UNCHANGED <<disk, tree, lockfile, got, still, synced>>
    BY <1>10 DEF SignLockfile
  <2> QED
    BY <2>1, <2>2
<1>11. CASE GenerateKey
  BY <1>11 DEF GenerateKey
<1>12. CASE KeyWritten
  <2>1. lf'.pkgs = lf.pkgs
    BY <1>12, SignedCovers DEF KeyWritten, Sign
  <2>2. /\ phase \in {"sign", "genkey"} /\ ~synced /\ phase' = "write"
        /\ UNCHANGED <<disk, tree, lockfile, got, still, synced>>
    BY <1>12 DEF KeyWritten
  <2> QED
    BY <2>1, <2>2
<1>13. CASE WriteLockfile
  <2>1. /\ phase = "write" /\ ~synced /\ phase' \in {"verify", "idle"}
        /\ UNCHANGED <<disk, tree, lf, got, still>>
    BY <1>13 DEF WriteLockfile
  <2>2. CASE lockfile' = lf /\ synced' = still
    BY <2>1, <2>2, NotTruncated
  <2>3. CASE UNCHANGED <<lockfile, synced>> /\ phase' = "idle"
    BY <2>1, <2>3
  <2> QED
    BY <1>13, <2>2, <2>3 DEF WriteLockfile
<1>14. CASE VerifyEntries
  BY <1>14 DEF VerifyEntries
<1>15. CASE Stop
  BY <1>15 DEF Stop
<1>16. CASE Drift
  BY <1>16 DEF Drift
<1>17. CASE UNCHANGED vars
  BY <1>17 DEF vars
<1> QED
  BY <1>1, <1>2, <1>3, <1>4, <1>5, <1>6, <1>7, <1>8, <1>9, <1>10, <1>11, <1>12, <1>13,
     <1>14, <1>15, <1>16, <1>17 DEF Next, Commands

\* Signatures.
LEMMA SignedNext ==
  ASSUME TypeOK, Order, Signed, [Next]_vars PROVE Signed'
<1> USE DEF TypeOK, Order, Signed, SignatureValid, project, memory, unchangedBySign, End
<1>1. ASSUME NEW c \in Commands, Begin(c) PROVE Signed'
  BY <1>1 DEF Begin
<1>2. CASE TruncateLockfile
  BY <1>2 DEF TruncateLockfile
<1>3. CASE WriteEmptyLockfile
  BY <1>3 DEF WriteEmptyLockfile
<1>4. CASE PMInstall
  BY <1>4 DEF PMInstall
<1>5. CASE GetTree
  BY <1>5 DEF GetTree
<1>6. CASE Load
  BY <1>6 DEF Load
<1>7. ASSUME NEW nd \in Keys \X Dirs, SyncNode(nd) PROVE Signed'
  BY <1>7 DEF SyncNode
<1>8. ASSUME NEW nd \in Keys \X Dirs, VerifyNode(nd) PROVE Signed'
  BY <1>8 DEF VerifyNode, HashFails, SignatureFound
<1>9. CASE Prune
  BY <1>9 DEF Prune
<1>10. CASE SignLockfile
  <2>1. phase' = "write"
    BY <1>10 DEF SignLockfile
  <2>2. lf' = [lf EXCEPT !.sig = lf.pkgs] \/ (UNCHANGED lf /\ ~keyRead')
    BY <1>10 DEF SignLockfile, Sign
  <2>3. lf' = [lf EXCEPT !.sig = lf.pkgs] => SignatureValid(lf')
    BY SignedCovers
  <2>4. SignatureValid(lf') => SignatureValid(lf)'
    BY DEF SignatureValid
  <2> QED
    BY <2>1, <2>2, <2>3, <2>4
<1>11. CASE GenerateKey
  BY <1>11 DEF GenerateKey
<1>12. CASE KeyWritten
  <2>1. phase' = "write"
    BY <1>12 DEF KeyWritten
  <2>2. lf' = [lf EXCEPT !.sig = lf.pkgs] \/ (UNCHANGED lf /\ ~keyRead')
    BY <1>12 DEF KeyWritten, Sign
  <2>3. lf' = [lf EXCEPT !.sig = lf.pkgs] => SignatureValid(lf')
    BY SignedCovers
  <2>4. SignatureValid(lf') => SignatureValid(lf)'
    BY DEF SignatureValid
  <2> QED
    BY <2>1, <2>2, <2>3, <2>4
<1>13. CASE WriteLockfile
  BY <1>13 DEF WriteLockfile
<1>14. CASE VerifyEntries
  BY <1>14 DEF VerifyEntries
<1>15. CASE Stop
  BY <1>15 DEF Stop
<1>16. CASE Drift
  BY <1>16 DEF Drift
<1>17. CASE UNCHANGED vars
  BY <1>17 DEF vars
<1> QED
  BY <1>1, <1>2, <1>3, <1>4, <1>5, <1>6, <1>7, <1>8, <1>9, <1>10, <1>11, <1>12, <1>13,
     <1>14, <1>15, <1>16, <1>17 DEF Next, Commands

\* Stale ones.
LEMMA StaleNext ==
  ASSUME TypeOK, Order, Signed, StaleSignatureMeansNoKey, [Next]_vars PROVE StaleSignatureMeansNoKey'
<1> USE DEF TypeOK, Order, Signed, StaleSignatureMeansNoKey, Syncing, project, memory,
    unchangedBySign, End
<1>1. ASSUME NEW c \in Commands, Begin(c) PROVE StaleSignatureMeansNoKey'
  BY <1>1 DEF Begin
<1>2. CASE TruncateLockfile
  BY <1>2 DEF TruncateLockfile
<1>3. CASE WriteEmptyLockfile
  BY <1>3 DEF WriteEmptyLockfile
<1>4. CASE PMInstall
  BY <1>4 DEF PMInstall
<1>5. CASE GetTree
  BY <1>5 DEF GetTree
<1>6. CASE Load
  BY <1>6 DEF Load
<1>7. ASSUME NEW nd \in Keys \X Dirs, SyncNode(nd) PROVE StaleSignatureMeansNoKey'
  BY <1>7 DEF SyncNode
<1>8. ASSUME NEW nd \in Keys \X Dirs, VerifyNode(nd) PROVE StaleSignatureMeansNoKey'
  BY <1>8 DEF VerifyNode, HashFails, SignatureFound
<1>9. CASE Prune
  BY <1>9 DEF Prune
<1>10. CASE SignLockfile
  BY <1>10 DEF SignLockfile, Sign
<1>11. CASE GenerateKey
  BY <1>11 DEF GenerateKey
<1>12. CASE KeyWritten
  BY <1>12 DEF KeyWritten, Sign
<1>13. CASE WriteLockfile
  BY <1>13 DEF WriteLockfile
<1>14. CASE VerifyEntries
  BY <1>14 DEF VerifyEntries
<1>15. CASE Stop
  BY <1>15 DEF Stop
<1>16. CASE Drift
  BY <1>16 DEF Drift
<1>17. CASE UNCHANGED vars
  BY <1>17 DEF vars
<1> QED
  BY <1>1, <1>2, <1>3, <1>4, <1>5, <1>6, <1>7, <1>8, <1>9, <1>10, <1>11, <1>12, <1>13,
     <1>14, <1>15, <1>16, <1>17 DEF Next, Commands

\* Alarms.
LEMMA AlarmsNext ==
  ASSUME TypeOK, Order, Synced, Alarms, StaleSignatureMeansNoKey, [Next]_vars PROVE Alarms'
<1> USE DEF TypeOK, Order, Synced, Alarms, Finished, Syncing, project, memory,
    unchangedBySign, End
<1>1. ASSUME NEW c \in Commands, Begin(c) PROVE Alarms'
  BY <1>1 DEF Begin
<1>2. CASE TruncateLockfile
  BY <1>2 DEF TruncateLockfile
<1>3. CASE WriteEmptyLockfile
  BY <1>3 DEF WriteEmptyLockfile
<1>4. CASE PMInstall
  BY <1>4 DEF PMInstall
<1>5. CASE GetTree
  BY <1>5 DEF GetTree
<1>6. CASE Load
  BY <1>6 DEF Load
<1>7. ASSUME NEW nd \in Keys \X Dirs, SyncNode(nd) PROVE Alarms'
  BY <1>7 DEF SyncNode
<1>8. ASSUME NEW nd \in Keys \X Dirs, VerifyNode(nd) PROVE Alarms'
  <2>1. /\ phase = "verify" /\ nd \in left /\ nd \in got /\ nd[1] \in Keys
        /\ phase' \in {"verify", "idle"} /\ (phase' = "idle" => outcome' = "error")
        /\ UNCHANGED <<disk, got, lf, cmd, synced, keyRead>>
    BY <1>8 DEF VerifyNode
  <2> SUFFICES ASSUME synced, phase' = "verify", NEW k \in Keys,
                      NEW r \in Rules, <<r, k>> \in violations', <<r, k>> \notin violations
               PROVE  /\ r = "hash_mismatch" => Cardinality(Copies(disk, got, k)) > 1
                      /\ r = "missing_entry" => Cardinality(Copies(disk, got, k)) > 1
                      /\ r = "not_installed" =>
                           NoEntry \in Copies(disk, got, k) /\ k \in KeysOf(got)
                      /\ r = "signature" => ~keyRead
    BY <2>1 DEF Rules
  <2> DEFINE entry == lf.pkgs[k]
             content == Content(disk, nd)
             dir == resolvePkgDir(nd)
  <2>2. <<r, k>> \in SignatureFound(nd) \cup NodeFound(nd) /\ ~HashFails(nd)
    BY <1>8, <2>1 DEF VerifyNode
  <2>3. r # "signature" => <<r, k>> \in NodeFound(nd)
    BY <2>2 DEF SignatureFound
  <2>4. r # "signature" => k = nd[1]
    BY <2>3 DEF NodeFound
  <2>5. still /\ got = tree /\ lf = lockfile /\ Right(disk, got, k, entry) /\ IsFiniteSet(got)
    BY <2>1, TreesAssumption
  <2>6. r # "signature" => k \in KeysOf(got) /\ content \in Copies(disk, got, k)
    BY <2>1, <2>4, NodeCopies
  <2>7. /\ dir = NoDir => content = NoEntry
        /\ dir # NoDir => content = disk[dir] /\ content \in Contents \cup {Unreadable}
    BY CopiesAreInstalled, DirTyped DEF Content
  <2>8. CASE r = "hash_mismatch"
    <3>1. entry # NoEntry /\ dir # NoDir /\ content # entry
      BY <2>3, <2>4, <2>7, <2>8 DEF NodeFound
    <3>2. content # NoEntry
      BY <2>7, <3>1, ContentsAssumption
    <3>3. entry \in Copies(disk, got, k) \/ NoEntry \in Copies(disk, got, k)
      BY <2>5 DEF Right
    <3>4. \E a \in Copies(disk, got, k) : a # content
      BY <3>1, <3>2, <3>3
    <3> QED
      BY <2>5, <2>6, <2>8, <3>4, CopiesDiffer
  <2>9. CASE r = "missing_entry"
    <3>1. entry = NoEntry /\ dir # NoDir
      BY <2>3, <2>4, <2>9 DEF NodeFound
    <3>2. content # NoEntry
      BY <2>7, <3>1, ContentsAssumption
    <3>3. NoEntry \in Copies(disk, got, k)
      BY <2>5, <3>1 DEF Right
    <3> QED
      BY <2>5, <2>6, <2>9, <3>2, <3>3, CopiesDiffer
  <2>10. CASE r = "not_installed"
    <3>1. dir = NoDir
      BY <2>3, <2>4, <2>10 DEF NodeFound
    <3> QED
      BY <2>6, <2>7, <2>10, <3>1
  <2>11. CASE r = "signature"
    <3>1. ~SignatureValid(lf)
      BY <2>2, <2>11 DEF SignatureFound, NodeFound
    <3> QED
      BY <2>5, <2>11, <3>1 DEF StaleSignatureMeansNoKey, SignatureValid
  <2> QED
    BY <2>8, <2>9, <2>10, <2>11
<1>9. CASE Prune
  BY <1>9 DEF Prune
<1>10. CASE SignLockfile
  BY <1>10 DEF SignLockfile, Sign
<1>11. CASE GenerateKey
  BY <1>11 DEF GenerateKey
<1>12. CASE KeyWritten
  BY <1>12 DEF KeyWritten, Sign
<1>13. CASE WriteLockfile
  BY <1>13 DEF WriteLockfile
<1>14. CASE VerifyEntries
  <2>1. /\ phase = "verify" /\ UNCHANGED <<disk, got, lf, cmd, synced, keyRead>>
        /\ violations' = violations \cup {<<"not_installed", k>> : k \in Locked(lf) \ KeysOf(got)}
    BY <1>14 DEF VerifyEntries
  <2>2. ASSUME synced PROVE violations' = violations
    <3>1. ASSUME NEW k \in Locked(lf) \ KeysOf(got) PROVE FALSE
      <4>1. k \in Keys /\ lf.pkgs[k] # NoEntry /\ Copies(disk, got, k) = {NoEntry}
        BY <3>1, NoCopies DEF Locked
      <4>2. Right(disk, got, k, lf.pkgs[k])
        BY <2>1, <2>2, <4>1
      <4> QED
        BY <3>1, <4>1, <4>2 DEF Right
    <3>2. Locked(lf) \ KeysOf(got) = {}
      BY <3>1
    <3> QED
      BY <2>1, <3>2
  <2> QED
    BY <2>1, <2>2
<1>15. CASE Stop
  BY <1>15 DEF Stop
<1>16. CASE Drift
  BY <1>16 DEF Drift
<1>17. CASE UNCHANGED vars
  BY <1>17 DEF vars
<1> QED
  BY <1>1, <1>2, <1>3, <1>4, <1>5, <1>6, <1>7, <1>8, <1>9, <1>10, <1>11, <1>12, <1>13,
     <1>14, <1>15, <1>16, <1>17 DEF Next, Commands

\* Clean audits.
LEMMA CleanNext ==
  ASSUME TypeOK, Order, Clean, [Next]_vars PROVE Clean'
<1> USE DEF TypeOK, Order, Clean, Finished, project, memory, unchangedBySign, End
<1>1. ASSUME NEW c \in Commands, Begin(c) PROVE Clean'
  BY <1>1 DEF Begin
<1>2. CASE TruncateLockfile
  BY <1>2 DEF TruncateLockfile
<1>3. CASE WriteEmptyLockfile
  BY <1>3 DEF WriteEmptyLockfile
<1>4. CASE PMInstall
  BY <1>4 DEF PMInstall
<1>5. CASE GetTree
  BY <1>5 DEF GetTree
<1>6. CASE Load
  BY <1>6 DEF Load
<1>7. ASSUME NEW nd \in Keys \X Dirs, SyncNode(nd) PROVE Clean'
  BY <1>7 DEF SyncNode
<1>8. ASSUME NEW nd \in Keys \X Dirs, VerifyNode(nd) PROVE Clean'
  <2>1. /\ phase = "verify" /\ nd \in left /\ nd \in got /\ nd[1] \in Keys
        /\ phase' \in {"verify", "idle"} /\ (phase' = "idle" => outcome' = "error")
        /\ left' = {m \in left : m[1] # nd[1]}
        /\ sigVerified' = (sigVerified \/ lf.sig # Unsigned)
        /\ UNCHANGED <<disk, got, lf, cmd, loaded, still>>
    BY <1>8 DEF VerifyNode
  <2>2. ASSUME cmd = "audit", phase' = "verify", still, violations' = {}
        PROVE  /\ \A k \in KeysOf(got) \ KeysOf(left') : loaded.pkgs[k] \in Copies(disk, got, k)
               /\ SignatureValid(loaded)
    <3>1. /\ violations = {} /\ lf = loaded
          /\ SignatureFound(nd) = {} /\ NodeFound(nd) = {}
      BY <1>8, <2>1, <2>2 DEF VerifyNode
    <3>2. SignatureValid(loaded)
      BY <2>1, <2>2, <3>1 DEF SignatureFound
    <3>3. Content(disk, nd) \in Copies(disk, got, nd[1])
      BY <2>1, NodeCopies
    <3>4. loaded.pkgs[nd[1]] = Content(disk, nd)
      <4>1. resolvePkgDir(nd) = DirOf(disk, nd)
        BY CopiesAreInstalled
      <4> QED
        BY <3>1, <4>1 DEF NodeFound, Content
    <3>5. ASSUME NEW k \in KeysOf(got) \ KeysOf(left'), k # nd[1]
          PROVE  loaded.pkgs[k] \in Copies(disk, got, k)
      <4>1. k \notin KeysOf(left)
        BY <2>1, <3>5 DEF KeysOf
      <4> QED
        BY <2>1, <2>2, <3>1, <3>5, <4>1
    <3> QED
      BY <3>2, <3>3, <3>4, <3>5
  <2>3. SignatureValid(loaded)' = SignatureValid(loaded)
    BY <2>1 DEF SignatureValid
  <2> QED
    BY <2>1, <2>2, <2>3
<1>9. CASE Prune
  BY <1>9 DEF Prune
<1>10. CASE SignLockfile
  BY <1>10 DEF SignLockfile, Sign
<1>11. CASE GenerateKey
  BY <1>11 DEF GenerateKey
<1>12. CASE KeyWritten
  BY <1>12 DEF KeyWritten, Sign
<1>13. CASE WriteLockfile
  <2>1. /\ phase = "write" /\ cmd # "audit" /\ UNCHANGED cmd
    BY <1>13 DEF WriteLockfile, Syncing
  <2> QED
    BY <2>1
<1>14. CASE VerifyEntries
  <2>1. /\ phase = "verify" /\ left = {}
        /\ violations' = violations \cup {<<"not_installed", k>> : k \in Locked(lf) \ KeysOf(got)}
        /\ phase' = "idle" /\ UNCHANGED <<disk, got, lf, cmd, loaded, still>>
    BY <1>14 DEF VerifyEntries
  <2>2. ASSUME cmd = "audit", still, violations' = {}
        PROVE  /\ \A k \in Keys : loaded.pkgs[k] \in Copies(disk, got, k)
               /\ got # {} => SignatureValid(loaded)
    <3>1. lf = loaded /\ violations = {} /\ \A k \in Locked(lf) : k \in KeysOf(got)
      <4>1. ASSUME NEW k \in Locked(lf), k \notin KeysOf(got) PROVE FALSE
        BY <2>1, <2>2, <4>1, <<"not_installed", k>> \in violations'
      <4> QED
        BY <2>1, <2>2, <4>1
    <3>2. KeysOf(left) = {}
      BY <2>1 DEF KeysOf
    <3>3. ASSUME NEW k \in Keys PROVE loaded.pkgs[k] \in Copies(disk, got, k)
      <4>1. CASE k \in KeysOf(got)
        BY <2>1, <2>2, <3>1, <3>2, <4>1
      <4>2. CASE k \notin KeysOf(got)
        BY <3>1, <4>2, NoCopies DEF Locked
      <4> QED
        BY <4>1, <4>2
    <3>4. got # {} => SignatureValid(loaded)
      BY <2>1, <2>2, <3>1
    <3> QED
      BY <3>3, <3>4
  <2>3. SignatureValid(loaded)' = SignatureValid(loaded)
    BY <2>1 DEF SignatureValid
  <2> QED
    BY <2>1, <2>2, <2>3
<1>15. CASE Stop
  BY <1>15 DEF Stop
<1>16. CASE Drift
  BY <1>16 DEF Drift
<1>17. CASE UNCHANGED vars
  BY <1>17 DEF vars
<1> QED
  BY <1>1, <1>2, <1>3, <1>4, <1>5, <1>6, <1>7, <1>8, <1>9, <1>10, <1>11, <1>12, <1>13,
     <1>14, <1>15, <1>16, <1>17 DEF Next, Commands

-----------------------------------------------------------------------------
(* Theorems. *)

\* It holds before the first command.
LEMMA InitIInv == Init => IInv
<1> SUFFICES ASSUME Init PROVE IInv
  OBVIOUS
<1>1. EmptyLockfile \in Lockfile /\ lockfile \in Lockfile
  BY DEF Init, Lockfile, EmptyLockfile, NoPackages, Packages
<1>2. TypeOK
  <2>1. disk \in [Dirs -> DirState] /\ drifts \in 0..MaxDrift
    BY MaxDriftAssumption DEF Init, DirState
  <2> QED
    BY <1>1, <2>1 DEF Init, TypeOK
<1>3. Order /\ Signed /\ Alarms /\ Clean /\ StaleSignatureMeansNoKey
  BY DEF Init, Order, Signed, Alarms, Clean, StaleSignatureMeansNoKey, Syncing, Finished
<1>4. Synced
  BY DEF Init, Synced, Syncing
<1> QED
  BY <1>2, <1>3, <1>4 DEF IInv

\* The invariant holds through every step of the commands and of the others.
THEOREM LockfileAuditInvariant == Spec => []IInv
<1>1. ASSUME IInv, [Next]_vars PROVE IInv'
  BY <1>1, TypeNext, OrderNext, SyncedNext, SignedNext, StaleNext, AlarmsNext, CleanNext
     DEF IInv
<1> QED
  BY <1>1, InitIInv, PTL DEF Spec

\* Commands and environment keep to their types.
THEOREM LockfileTypeCorrect == Spec => []TypeOK
<1>1. IInv => TypeOK
  BY DEF IInv
<1> QED
  BY <1>1, LockfileAuditInvariant, PTL

\* Until somebody else touches the project, the saved lockfile describes what
\* scalp install or scalp ci has left in node_modules.
THEOREM SavedLockfileSound == Spec => []SavedIsInstalled
<1>1. IInv => SavedIsInstalled
  BY CopiesAreInstalled DEF IInv, Synced, SavedIsInstalled, Right
<1> QED
  BY <1>1, LockfileAuditInvariant, PTL

\* Neither audit nor ci blames a package that is as it was saved.
THEOREM AuditRaisesNoFalseAlarm == Spec => []NoFalseAlarm
<1>1. IInv => NoFalseAlarm
  BY CopiesAreInstalled DEF IInv, Alarms, NoFalseAlarm
<1> QED
  BY <1>1, LockfileAuditInvariant, PTL

\* An audit that finds nothing has read a lockfile that describes node_modules.
THEOREM CleanAuditSound == Spec => []CleanAuditIsTrue
<1>1. IInv => CleanAuditIsTrue
  BY CopiesAreInstalled DEF IInv, Clean, CleanAuditIsTrue
<1> QED
  BY <1>1, LockfileAuditInvariant, PTL

\* Whatever was interrupted, a saved lockfile's signature fails to cover it only
\* where the save that wrote it had no whole key in hand.
THEOREM StaleSignatureSound == Spec => []StaleSignatureMeansNoKey
<1>1. IInv => StaleSignatureMeansNoKey
  BY DEF IInv
<1> QED
  BY <1>1, LockfileAuditInvariant, PTL
===============================================================================
