---------------------------- MODULE AtomicWrite -----------------------------
(***************************************************************************)
(* ioutil.WriteFileAtomic, one action per system call, over a small model  *)
(* of the directory that holds the target and its ".tmp" sibling.  A path  *)
(* is a directory entry that points to an inode, so a process that still   *)
(* has the temporary file open keeps writing to the same inode after       *)
(* another process renamed it over the target.                             *)
(*                                                                         *)
(* The bytes of a file are Blocks blocks; a block holds the value it was   *)
(* written from, or Nil past the end of a truncated file.                  *)
(***************************************************************************)
EXTENDS Naturals

CONSTANTS
  Proc,       \* processes that call WriteFileAtomic on the same path
  Reader,     \* processes that read the target (lockfile.Load, LoadCache)
  Data,       \* the values written
  Inode,      \* inodes of the file system
  Blocks,     \* write system calls one os.WriteFile takes
  Nil,        \* no file, no bytes, no data
  Torn,       \* the value of a file whose blocks come from no single call
  Exclusive,  \* TRUE: no two calls overlap (one scalp process per project)
  Crashes     \* TRUE: a process may be killed at any point of a call

ASSUME BlocksAssumption == Blocks \in Nat \ {0}

ASSUME NilAssumption ==
  /\ Nil \notin Data
  /\ Nil \notin Inode
  /\ Nil \notin [1..Blocks -> Data \cup {Nil}]

ASSUME FlagsAssumption == Exclusive \in BOOLEAN /\ Crashes \in BOOLEAN

VARIABLES
  target,     \* inode the target path points to, Nil when it does not exist
  tmp,        \* the same for path + ".tmp"
  content,    \* the blocks of each inode
  pc,         \* where each process is in WriteFileAtomic, or how it returned
  arg,        \* its argument data
  fd,         \* the inode os.WriteFile has open
  pos,        \* the next block it writes
  rpc,        \* where each reader is in os.ReadFile
  rfd,        \* the inode it has open
  rpos,       \* the next block it reads
  rbuf        \* the blocks it has read, Nil when the file did not exist

writerVars == <<target, tmp, content, pc, arg, fd, pos>>
readerVars == <<rpc, rfd, rpos, rbuf>>
vars == <<target, tmp, content, pc, arg, fd, pos, rpc, rfd, rpos, rbuf>>

Block == Data \cup {Nil}
Empty == [i \in 1..Blocks |-> Nil]
FileOf(d) == [i \in 1..Blocks |-> d]
Resting == {"idle", "ok", "error"}      \* not inside a call

TypeOK ==
  /\ target \in Inode \cup {Nil}
  /\ tmp \in Inode \cup {Nil}
  /\ content \in [Inode -> [1..Blocks -> Block]]
  /\ pc \in [Proc -> Resting \cup {"open", "write", "rename", "remove"}]
  /\ arg \in [Proc -> Block]
  /\ fd \in [Proc -> Inode \cup {Nil}]
  /\ pos \in [Proc -> 1..Blocks]
  /\ rpc \in [Reader -> {"idle", "reading", "done"}]
  /\ rfd \in [Reader -> Inode \cup {Nil}]
  /\ rpos \in [Reader -> 1..Blocks]
  /\ rbuf \in [Reader -> [1..Blocks -> Block] \cup {Nil}]
  /\ \A r \in Reader : rpc[r] = "reading" => rfd[r] # Nil /\ rbuf[r] # Nil

Init ==
  /\ target = Nil
  /\ tmp = Nil
  /\ content = [i \in Inode |-> Empty]
  /\ pc = [p \in Proc |-> "idle"]
  /\ arg = [p \in Proc |-> Nil]
  /\ fd = [p \in Proc |-> Nil]
  /\ pos = [p \in Proc |-> 1]
  /\ rpc = [r \in Reader |-> "idle"]
  /\ rfd = [r \in Reader |-> Nil]
  /\ rpos = [r \in Reader |-> 1]
  /\ rbuf = [r \in Reader |-> Nil]

-----------------------------------------------------------------------------
(* The writer. *)

Call(p, d) ==
  /\ pc[p] \in Resting
  /\ Exclusive => \A q \in Proc : pc[q] \in Resting
  /\ pc' = [pc EXCEPT ![p] = "open"]
  /\ arg' = [arg EXCEPT ![p] = d]
  /\ UNCHANGED <<target, tmp, content, fd, pos, readerVars>>

\* An inode nobody links to or has open can be allocated.
Free(i) ==
  /\ i \notin {target, tmp}
  /\ \A p \in Proc : fd[p] # i
  /\ \A r \in Reader : rfd[r] # i

\* os.WriteFile opens with O_CREATE|O_TRUNC: a leftover .tmp is truncated,
\* whoever else may have it open.
OpenTmp(p) ==
  /\ pc[p] = "open"
  /\ \E i \in Inode :
       /\ IF tmp = Nil THEN Free(i) ELSE i = tmp
       /\ tmp' = i
       /\ content' = [content EXCEPT ![i] = Empty]
       /\ fd' = [fd EXCEPT ![p] = i]
  /\ pc' = [pc EXCEPT ![p] = "write"]
  /\ pos' = [pos EXCEPT ![p] = 1]
  /\ UNCHANGED <<target, arg, readerVars>>

\* MkdirAll or the open fails: returned before anything was touched.
OpenFails(p) ==
  /\ pc[p] = "open"
  /\ pc' = [pc EXCEPT ![p] = "error"]
  /\ UNCHANGED <<target, tmp, content, arg, fd, pos, readerVars>>

\* Mutant: the write position runs past the last block.
WriteBlockPastEnd(p) ==
  /\ pc[p] = "write"
  /\ content' = [content EXCEPT ![fd[p]][pos[p]] = arg[p]]
  /\ IF pos[p] <= Blocks
       THEN /\ pos' = [pos EXCEPT ![p] = @ + 1]
            /\ UNCHANGED <<pc, fd>>
       ELSE /\ pc' = [pc EXCEPT ![p] = "rename"]
            /\ fd' = [fd EXCEPT ![p] = Nil]
            /\ UNCHANGED pos
  /\ UNCHANGED <<target, tmp, arg, readerVars>>

\* One write call; after the last one os.WriteFile closes the file.
WriteBlock(p) ==
  /\ pc[p] = "write"
  /\ content' = [content EXCEPT ![fd[p]][pos[p]] = arg[p]]
  /\ IF pos[p] < Blocks
       THEN /\ pos' = [pos EXCEPT ![p] = @ + 1]
            /\ UNCHANGED <<pc, fd>>
       ELSE /\ pc' = [pc EXCEPT ![p] = "rename"]
            /\ fd' = [fd EXCEPT ![p] = Nil]
            /\ UNCHANGED pos
  /\ UNCHANGED <<target, tmp, arg, readerVars>>

\* Mutant: the error of os.WriteFile is not checked.
WriteErrorIgnored(p) ==
  /\ pc[p] = "write"
  /\ pc' = [pc EXCEPT ![p] = "rename"]
  /\ fd' = [fd EXCEPT ![p] = Nil]
  /\ UNCHANGED <<target, tmp, content, arg, pos, readerVars>>

\* os.WriteFile fails half way: WriteFileAtomic returns without os.Remove.
WriteFails(p) ==
  /\ pc[p] = "write"
  /\ pc' = [pc EXCEPT ![p] = "error"]
  /\ fd' = [fd EXCEPT ![p] = Nil]
  /\ UNCHANGED <<target, tmp, content, arg, pos, readerVars>>

\* rename(2) moves whatever the .tmp entry points to by now.
RenameTmp(p) ==
  /\ pc[p] = "rename"
  /\ tmp # Nil
  /\ target' = tmp
  /\ tmp' = Nil
  /\ pc' = [pc EXCEPT ![p] = "ok"]
  /\ UNCHANGED <<content, arg, fd, pos, readerVars>>

\* Mutant: the error of os.Rename is not checked.
RenameErrorIgnored(p) ==
  /\ pc[p] = "rename"
  /\ pc' = [pc EXCEPT ![p] = "ok"]
  /\ UNCHANGED <<target, tmp, content, arg, fd, pos, readerVars>>

RenameFails(p) ==
  /\ pc[p] = "rename"
  /\ pc' = [pc EXCEPT ![p] = "remove"]
  /\ UNCHANGED <<target, tmp, content, arg, fd, pos, readerVars>>

\* os.Remove, whose own error is ignored.
RemoveTmp(p) ==
  /\ pc[p] = "remove"
  /\ tmp' \in {Nil, tmp}
  /\ pc' = [pc EXCEPT ![p] = "error"]
  /\ UNCHANGED <<target, content, arg, fd, pos, readerVars>>

\* The process is killed inside the call; the kernel closes its file.
Crash(p) ==
  /\ Crashes
  /\ pc[p] \notin Resting
  /\ pc' = [pc EXCEPT ![p] = "idle"]
  /\ fd' = [fd EXCEPT ![p] = Nil]
  /\ UNCHANGED <<target, tmp, content, arg, pos, readerVars>>

-----------------------------------------------------------------------------
(* The reader: os.ReadFile in lockfile.Load, the JSON decoder in LoadCache. *)

OpenTarget(r) ==
  /\ rpc[r] # "reading"
  /\ rfd' = [rfd EXCEPT ![r] = target]
  /\ rpos' = [rpos EXCEPT ![r] = 1]
  /\ IF target = Nil
       THEN /\ rpc' = [rpc EXCEPT ![r] = "done"]
            /\ rbuf' = [rbuf EXCEPT ![r] = Nil]
       ELSE /\ rpc' = [rpc EXCEPT ![r] = "reading"]
            /\ rbuf' = [rbuf EXCEPT ![r] = Empty]
  /\ UNCHANGED writerVars

ReadBlock(r) ==
  /\ rpc[r] = "reading"
  /\ rbuf' = [rbuf EXCEPT ![r][rpos[r]] = content[rfd[r]][rpos[r]]]
  /\ IF rpos[r] < Blocks
       THEN /\ rpos' = [rpos EXCEPT ![r] = @ + 1]
            /\ UNCHANGED <<rpc, rfd>>
       ELSE /\ rpc' = [rpc EXCEPT ![r] = "done"]
            /\ rfd' = [rfd EXCEPT ![r] = Nil]
            /\ UNCHANGED rpos
  /\ UNCHANGED writerVars

-----------------------------------------------------------------------------
WriterNext(p) ==
  \/ \E d \in Data : Call(p, d)
  \/ OpenTmp(p) \/ OpenFails(p)
  \/ WriteBlock(p) \/ WriteFails(p)
  \/ RenameTmp(p) \/ RenameFails(p) \/ RemoveTmp(p)
  \/ Crash(p)

ReaderNext(r) == OpenTarget(r) \/ ReadBlock(r)

Next == (\E p \in Proc : WriterNext(p)) \/ (\E r \in Reader : ReaderNext(r))

Spec == Init /\ [][Next]_vars

-----------------------------------------------------------------------------
(* Properties. *)

Whole(f) == \E d \in Data : f = FileOf(d)

\* The target never holds a mixture or a truncated file: whatever point a call
\* has reached, the lockfile or trust cache on disk is one that some Save wrote
\* ("writes data to path atomically", atomic.go:12).
TargetWhole == target # Nil => Whole(content[target])

\* A call that returns an error leaves no temporary file behind ("On failure
\* the temp file is cleaned up", atomic.go:13).
TmpCleanedOnFailure ==
  [][\A p \in Proc : pc[p] # "error" /\ pc'[p] = "error" => tmp' = Nil]_vars

\* The inductive invariant of calls that do not overlap: at most one process
\* is inside a call, the inode it writes is the one .tmp points to and is
\* neither the target nor open for reading, and the written prefix is its data.
OneWriter ==
  \A p, q \in Proc : pc[p] \notin Resting /\ pc[q] \notin Resting => p = q

OwnsTmp(p) ==
  /\ pc[p] \notin Resting => arg[p] \in Data
  /\ fd[p] # Nil => pc[p] = "write"
  /\ pc[p] = "write" =>
       /\ tmp # Nil /\ fd[p] = tmp
       /\ \A i \in 1..Blocks : i < pos[p] => content[tmp][i] = arg[p]
  /\ pc[p] = "rename" => tmp # Nil /\ content[tmp] = FileOf(arg[p])

HoldsWhole(r) ==
  /\ rfd[r] # Nil => rpc[r] = "reading"
  /\ rpc[r] = "reading" =>
       /\ rfd[r] # tmp
       /\ Whole(content[rfd[r]])
       /\ \A i \in 1..Blocks : i < rpos[r] => rbuf[r][i] = content[rfd[r]][i]
  /\ rpc[r] # "reading" /\ rbuf[r] # Nil => Whole(rbuf[r])

ExclusiveInv ==
  /\ TargetWhole
  /\ target # Nil => target # tmp
  /\ OneWriter
  /\ \A p \in Proc : OwnsTmp(p)
  /\ \A r \in Reader : HoldsWhole(r)

-----------------------------------------------------------------------------
(* What the directory, the calls and the reads amount to in AtomicFile. *)

Value(f) == IF Whole(f) THEN CHOOSE d \in Data : f = FileOf(d) ELSE Torn

fileBar == IF target = Nil THEN Nil ELSE Value(content[target])

statusBar == [p \in Proc |-> IF pc[p] \in Resting THEN pc[p] ELSE "pending"]

seenBar ==
  [r \in Reader |->
     IF rpc[r] = "reading" THEN Value(content[rfd[r]])
     ELSE IF rbuf[r] = Nil THEN Nil ELSE Value(rbuf[r])]

Register == INSTANCE AtomicFile
  WITH Absent <- Nil, file <- fileBar, status <- statusBar, seen <- seenBar

\* Calls that do not overlap implement the atomic register: the rename is the
\* step at which the new file appears, every other step changes nothing a
\* caller or reader can tell, and a reader sees the file of when it opened it.
IsRegister == Register!Spec
=============================================================================
