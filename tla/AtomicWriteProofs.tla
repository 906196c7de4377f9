-------------------------- MODULE AtomicWriteProofs -------------------------
(***************************************************************************)
(* Proofs about AtomicWrite, for any number of processes, readers, values  *)
(* and blocks: the type invariant, the inductive invariant of calls that   *)
(* do not overlap, and the refinement of the register AtomicFile.          *)
(***************************************************************************)
EXTENDS AtomicWrite, TLAPS

\* Every variable of the write and read protocols keeps its type.
THEOREM TypeCorrect == Spec => []TypeOK
<1> USE BlocksAssumption, NilAssumption DEF TypeOK, Block, Resting, Empty
<1>1. Init => TypeOK
  BY DEF Init
<1>2. TypeOK /\ [Next]_vars => TypeOK'
  <2> SUFFICES ASSUME TypeOK, [Next]_vars PROVE TypeOK'
    OBVIOUS
  <2>1. ASSUME NEW p \in Proc, NEW d \in Data, Call(p, d) PROVE TypeOK'
    BY <2>1 DEF Call, readerVars
  <2>2. ASSUME NEW p \in Proc, OpenTmp(p) PROVE TypeOK'
    BY <2>2 DEF OpenTmp, readerVars
  <2>3. ASSUME NEW p \in Proc, OpenFails(p) PROVE TypeOK'
    BY <2>3 DEF OpenFails, readerVars
  <2>4. ASSUME NEW p \in Proc, WriteBlock(p) PROVE TypeOK'
    <3>1. content' \in [Inode -> [1..Blocks -> Block]]
      BY <2>4 DEF WriteBlock
    <3>2. pos' \in [Proc -> 1..Blocks]
      <4>1. CASE pos[p] < Blocks
        <5>1. pos' = [pos EXCEPT ![p] = pos[p] + 1]
          BY <2>4, <4>1 DEF WriteBlock
        <5>2. pos[p] + 1 \in 1..Blocks
          BY <4>1
        <5> QED
          BY <5>1, <5>2
      <4>2. CASE ~(pos[p] < Blocks)
        BY <2>4, <4>2 DEF WriteBlock
      <4> QED
        BY <4>1, <4>2
    <3>3. /\ pc' \in [Proc -> Resting \cup {"open", "write", "rename", "remove"}]
          /\ fd' \in [Proc -> Inode \cup {Nil}]
      BY <2>4 DEF WriteBlock
    <3> QED
      BY <2>4, <3>1, <3>2, <3>3 DEF WriteBlock, readerVars
  <2>5. ASSUME NEW p \in Proc, WriteFails(p) PROVE TypeOK'
    BY <2>5 DEF WriteFails, readerVars
  <2>6. ASSUME NEW p \in Proc, RenameTmp(p) PROVE TypeOK'
    BY <2>6 DEF RenameTmp, readerVars
  <2>7. ASSUME NEW p \in Proc, RenameFails(p) PROVE TypeOK'
    BY <2>7 DEF RenameFails, readerVars
  <2>8. ASSUME NEW p \in Proc, RemoveTmp(p) PROVE TypeOK'
    BY <2>8 DEF RemoveTmp, readerVars
  <2>9. ASSUME NEW p \in Proc, Crash(p) PROVE TypeOK'
    BY <2>9 DEF Crash, readerVars
  <2>10. ASSUME NEW r \in Reader, OpenTarget(r) PROVE TypeOK'
    <3>1. Empty \in [1..Blocks -> Block]
      OBVIOUS
    <3>2. rbuf' \in [Reader -> [1..Blocks -> Block] \cup {Nil}]
      BY <2>10, <3>1 DEF OpenTarget
    <3>3. rpc' \in [Reader -> {"idle", "reading", "done"}]
      BY <2>10 DEF OpenTarget
    <3>4. /\ rfd' \in [Reader -> Inode \cup {Nil}]
          /\ rpos' \in [Reader -> 1..Blocks]
      BY <2>10 DEF OpenTarget
    <3> QED
      BY <2>10, <3>2, <3>3, <3>4 DEF OpenTarget, writerVars
  <2>11. ASSUME NEW r \in Reader, ReadBlock(r) PROVE TypeOK'
    <3> DEFINE read == [rbuf[r] EXCEPT ![rpos[r]] = content[rfd[r]][rpos[r]]]
    <3>0. rbuf' = [rbuf EXCEPT ![r] = read] /\ rpc[r] = "reading"
      BY <2>11 DEF ReadBlock
    <3>1. read \in [1..Blocks -> Block]
      BY <3>0
    <3> HIDE DEF read
    <3>5. rbuf' \in [Reader -> [1..Blocks -> Block] \cup {Nil}]
      BY <3>0, <3>1
    <3>2. rpos' \in [Reader -> 1..Blocks]
      <4>1. CASE rpos[r] < Blocks
        <5>1. rpos' = [rpos EXCEPT ![r] = rpos[r] + 1]
          BY <2>11, <4>1 DEF ReadBlock
        <5>2. rpos[r] + 1 \in 1..Blocks
          BY <4>1
        <5> QED
          BY <5>1, <5>2
      <4>2. CASE ~(rpos[r] < Blocks)
        BY <2>11, <4>2 DEF ReadBlock
      <4> QED
        BY <4>1, <4>2
    <3>3. /\ rpc' \in [Reader -> {"idle", "reading", "done"}]
          /\ rfd' \in [Reader -> Inode \cup {Nil}]
      BY <2>11, SMTT(60) DEF ReadBlock
    <3>4. \A q \in Reader : rpc'[q] = "reading" => rfd'[q] # Nil /\ rbuf'[q] # Nil
      <4> SUFFICES ASSUME NEW q \in Reader, rpc'[q] = "reading"
                   PROVE  rfd'[q] # Nil /\ rbuf'[q] # Nil
        OBVIOUS
      <4>1. rpc[q] = "reading" /\ rfd'[q] = rfd[q]
        BY <2>11 DEF ReadBlock
      <4>2. rbuf'[q] # Nil
        BY <3>0, <3>1, <4>1
      <4> QED
        BY <4>1, <4>2
    <3> QED
      BY <2>11, <3>5, <3>2, <3>3, <3>4 DEF ReadBlock, writerVars
  <2>12. CASE UNCHANGED vars
    BY <2>12 DEF vars
  <2> QED
    BY <2>1, <2>2, <2>3, <2>4, <2>5, <2>6, <2>7, <2>8, <2>9, <2>10, <2>11,
       <2>12 DEF Next, WriterNext, ReaderNext
<1> QED
  BY <1>1, <1>2, PTL DEF Spec

-----------------------------------------------------------------------------
\* While a process is inside a call, every other one is outside and has no
\* file open.
LEMMA OthersRest ==
  ASSUME TypeOK, ExclusiveInv,
         NEW p \in Proc, pc[p] \notin Resting,
         NEW q \in Proc, q # p
  PROVE  pc[q] \in Resting /\ fd[q] = Nil
BY DEF ExclusiveInv, OneWriter, OwnsTmp, Resting

\* A step that leaves every file and every reader alone cannot disturb what
\* the readers hold.
LEMMA ReadersUndisturbed ==
  ASSUME ExclusiveInv, UNCHANGED <<tmp, content, rpc, rfd, rpos, rbuf>>,
         NEW r \in Reader
  PROVE  HoldsWhole(r)'
BY DEF ExclusiveInv, HoldsWhole, Whole, FileOf

\* Nor can a step disturb a process outside any call that stays there.
LEMMA RestingUndisturbed ==
  ASSUME NEW q \in Proc, pc[q] \in Resting, fd[q] = Nil,
         pc'[q] = pc[q], fd'[q] = fd[q]
  PROVE  OwnsTmp(q)'
BY DEF OwnsTmp, Resting

\* Only processes inside a call count for OneWriter: a step that lets none in
\* preserves it.
LEMMA NobodyEnters ==
  ASSUME OneWriter, \A q \in Proc : pc'[q] \notin Resting => pc[q] \notin Resting
  PROVE  OneWriter'
BY DEF OneWriter, Resting

\* A file that was written from one value is whole.
LEMMA FileOfIsWhole ==
  ASSUME NEW d \in Data PROVE Whole(FileOf(d))
BY DEF Whole

\* A writer that ends its call, without having touched the target or the
\* content of any file, preserves the invariant: it may remove the temporary
\* file, which nobody else is using.
LEMMA CallEnds ==
  ASSUME TypeOK, ExclusiveInv,
         NEW p \in Proc, pc[p] \notin Resting,
         NEW s \in Resting, pc' = [pc EXCEPT ![p] = s],
         fd' = [fd EXCEPT ![p] = Nil], tmp' \in {Nil, tmp},
         UNCHANGED <<target, content, arg, rpc, rfd, rpos, rbuf>>
  PROVE  ExclusiveInv'
<1>1. TargetWhole' /\ (target # Nil => target # tmp)'
  BY DEF ExclusiveInv, TargetWhole, Whole, FileOf
<1>2. OneWriter'
  BY NobodyEnters DEF ExclusiveInv, TypeOK
<1>3. ASSUME NEW q \in Proc PROVE OwnsTmp(q)'
  <2>1. CASE q = p
    BY <2>1 DEF OwnsTmp, TypeOK, Resting
  <2>2. CASE q # p
    BY <2>2, OthersRest, RestingUndisturbed DEF TypeOK
  <2> QED
    BY <2>1, <2>2
<1>4. ASSUME NEW r \in Reader PROVE HoldsWhole(r)'
  BY NilAssumption DEF ExclusiveInv, HoldsWhole, Whole, FileOf, TypeOK
<1> QED
  BY <1>1, <1>2, <1>3, <1>4 DEF ExclusiveInv

\* Every step of a writer preserves the invariant.
LEMMA WriterStep ==
  ASSUME Exclusive, TypeOK, TypeOK', ExclusiveInv,
         NEW p \in Proc, WriterNext(p)
  PROVE  ExclusiveInv'
<1>1. ASSUME NEW d \in Data, Call(p, d) PROVE ExclusiveInv'
  <2>1. UNCHANGED <<target, tmp, content, fd, rpc, rfd, rpos, rbuf>>
    BY <1>1 DEF Call, readerVars
  <2>2. TargetWhole' /\ (target # Nil => target # tmp)'
    BY <2>1 DEF ExclusiveInv, TargetWhole, Whole, FileOf
  <2>3. \A q \in Proc : pc[q] \in Resting /\ fd[q] = Nil
    BY <1>1 DEF Call, ExclusiveInv, OwnsTmp, Resting
  <2>4. OneWriter'
    BY <1>1, <2>3 DEF Call, OneWriter, TypeOK, Resting
  <2>5. ASSUME NEW q \in Proc PROVE OwnsTmp(q)'
    <3>1. CASE q = p
      BY <1>1, <2>1, <2>3, <3>1 DEF Call, OwnsTmp, TypeOK, Resting
    <3>2. CASE q # p
      BY <1>1, <2>1, <2>3, <3>2, RestingUndisturbed DEF Call, TypeOK
    <3> QED
      BY <3>1, <3>2
  <2>6. ASSUME NEW r \in Reader PROVE HoldsWhole(r)'
    BY <2>1, ReadersUndisturbed
  <2> QED
    BY <2>2, <2>4, <2>5, <2>6 DEF ExclusiveInv
<1>2. CASE OpenTmp(p)
  <2>1. PICK i \in Inode :
          /\ IF tmp = Nil THEN Free(i) ELSE i = tmp
          /\ tmp' = i
          /\ content' = [content EXCEPT ![i] = Empty]
          /\ fd' = [fd EXCEPT ![p] = i]
    BY <1>2 DEF OpenTmp
  <2>2. UNCHANGED <<target, arg, rpc, rfd, rpos, rbuf>>
    BY <1>2 DEF OpenTmp, readerVars
  <2>3. i # Nil /\ i # target
    BY <2>1, NilAssumption DEF Free, ExclusiveInv
  <2>4. TargetWhole' /\ (target # Nil => target # tmp)'
    BY <2>1, <2>2, <2>3 DEF ExclusiveInv, TargetWhole, Whole, FileOf, TypeOK
  <2>5. pc[p] = "open" /\ pc' = [pc EXCEPT ![p] = "write"] /\ pos' = [pos EXCEPT ![p] = 1]
    BY <1>2 DEF OpenTmp
  <2>6. OneWriter'
    BY <2>5, NobodyEnters DEF ExclusiveInv, TypeOK, Resting
  <2>7. ASSUME NEW q \in Proc PROVE OwnsTmp(q)'
    <3>1. CASE q = p
      <4>1. pc'[q] = "write" /\ fd'[q] = i /\ pos'[q] = 1
        BY <2>1, <2>5, <3>1 DEF TypeOK
      <4>2. arg'[q] \in Data
        BY <2>2, <2>5, <3>1 DEF ExclusiveInv, OwnsTmp, Resting
      <4>3. \A k \in 1..Blocks : ~(k < pos'[q])
        BY <4>1, BlocksAssumption
      <4> QED
        BY <2>1, <2>3, <4>1, <4>2, <4>3 DEF OwnsTmp
    <3>2. CASE q # p
      BY <2>1, <2>5, <3>2, OthersRest, RestingUndisturbed, ZenonT(60) DEF TypeOK, Resting
    <3> QED
      BY <3>1, <3>2
  <2>8. ASSUME NEW r \in Reader PROVE HoldsWhole(r)'
    <3>1. rpc[r] = "reading" => rfd[r] # i
      BY <2>1 DEF ExclusiveInv, HoldsWhole, Free
    <3> QED
      BY <2>1, <2>2, <3>1 DEF ExclusiveInv, HoldsWhole, Whole, FileOf, TypeOK
  <2> QED
    BY <2>4, <2>6, <2>7, <2>8 DEF ExclusiveInv
<1>3. CASE OpenFails(p)
  <2>1. fd[p] = Nil
    BY <1>3 DEF OpenFails, ExclusiveInv, OwnsTmp
  <2>2. fd' = [fd EXCEPT ![p] = Nil]
    BY <1>3, <2>1 DEF OpenFails, TypeOK
  <2> QED
    BY <1>3, <2>2, CallEnds DEF OpenFails, readerVars, Resting
<1>4. CASE WriteBlock(p)
  <2> DEFINE written == [content[tmp] EXCEPT ![pos[p]] = arg[p]]
  <2>1. /\ pc[p] = "write" /\ tmp # Nil /\ fd[p] = tmp /\ arg[p] \in Data
        /\ content' = [content EXCEPT ![tmp] = written]
    BY <1>4 DEF WriteBlock, ExclusiveInv, OwnsTmp, Resting
  <2>2. UNCHANGED <<target, tmp, arg, rpc, rfd, rpos, rbuf>>
    BY <1>4 DEF WriteBlock, readerVars
  <2>3. written \in [1..Blocks -> Block] /\ \A i \in 1..Blocks : i <= pos[p] => written[i] = arg[p]
    BY <2>1 DEF ExclusiveInv, OwnsTmp, TypeOK, Block
  <2> HIDE DEF written
  <2>4. TargetWhole' /\ (target # Nil => target # tmp)'
    BY <2>1, <2>2 DEF ExclusiveInv, TargetWhole, Whole, FileOf, TypeOK
  <2>5. OneWriter'
    BY <1>4, <2>1, NobodyEnters DEF WriteBlock, ExclusiveInv, TypeOK, Resting
  <2>6. ASSUME NEW q \in Proc PROVE OwnsTmp(q)'
    <3>1. CASE q = p /\ pos[p] < Blocks
      <4>1. pos' = [pos EXCEPT ![p] = pos[p] + 1] /\ UNCHANGED <<pc, fd>>
        BY <1>4, <3>1 DEF WriteBlock
      <4>2. pos'[q] = pos[p] + 1 /\ pos[p] \in 1..Blocks
        BY <3>1, <4>1 DEF TypeOK
      <4>3. content'[tmp'] = written
        BY <2>1, <2>2 DEF TypeOK
      <4>4. \A i \in 1..Blocks : i < pos'[q] => content'[tmp'][i] = arg'[q]
        BY <2>2, <2>3, <3>1, <4>2, <4>3
      <4> QED
        BY <2>1, <2>2, <3>1, <4>1, <4>4 DEF OwnsTmp
    <3>2. CASE q = p /\ ~(pos[p] < Blocks)
      <4>1. pc'[q] = "rename" /\ fd'[q] = Nil
        BY <1>4, <3>2 DEF WriteBlock, TypeOK
      <4>2. pos[p] = Blocks
        BY <3>2, BlocksAssumption DEF TypeOK
      <4>3. written = FileOf(arg[p])
        BY <2>3, <4>2, BlocksAssumption DEF FileOf
      <4>4. content'[tmp'] = FileOf(arg'[q])
        BY <2>1, <2>2, <3>2, <4>3 DEF TypeOK, FileOf
      <4> QED
        BY <2>1, <2>2, <3>2, <4>1, <4>4 DEF OwnsTmp, FileOf
    <3>3. CASE q # p
      <4>1. pc'[q] = pc[q] /\ fd'[q] = fd[q]
        BY <1>4, <3>3 DEF WriteBlock, TypeOK
      <4> QED
        BY <2>1, <3>3, <4>1, OthersRest, RestingUndisturbed DEF Resting
    <3> QED
      BY <3>1, <3>2, <3>3
  <2>7. ASSUME NEW r \in Reader PROVE HoldsWhole(r)'
    BY <2>1, <2>2 DEF ExclusiveInv, HoldsWhole, Whole, FileOf, TypeOK
  <2> QED
    BY <2>4, <2>5, <2>6, <2>7 DEF ExclusiveInv
<1>5. CASE WriteFails(p)
  BY <1>5, CallEnds DEF WriteFails, readerVars, Resting
<1>6. CASE RenameTmp(p)
  <2>1. /\ pc[p] = "rename" /\ fd[p] = Nil /\ arg[p] \in Data
        /\ tmp # Nil /\ content[tmp] = FileOf(arg[p])
        /\ target' = tmp /\ tmp' = Nil /\ pc' = [pc EXCEPT ![p] = "ok"]
        /\ UNCHANGED <<content, arg, fd, pos, rpc, rfd, rpos, rbuf>>
    BY <1>6 DEF RenameTmp, readerVars, ExclusiveInv, OwnsTmp, Resting
  <2>2. TargetWhole' /\ (target # Nil => target # tmp)'
    BY <2>1, FileOfIsWhole DEF TargetWhole, Whole, FileOf
  <2>3. OneWriter'
    BY <2>1, NobodyEnters DEF ExclusiveInv, TypeOK, Resting
  <2>4. ASSUME NEW q \in Proc PROVE OwnsTmp(q)'
    <3>1. CASE q = p
      BY <2>1, <3>1 DEF OwnsTmp, TypeOK, Resting
    <3>2. CASE q # p
      BY <2>1, <3>2, OthersRest, RestingUndisturbed DEF TypeOK, Resting
    <3> QED
      BY <3>1, <3>2
  <2>5. ASSUME NEW r \in Reader PROVE HoldsWhole(r)'
    BY <2>1 DEF ExclusiveInv, HoldsWhole, Whole, FileOf, TypeOK
  <2> QED
    BY <2>2, <2>3, <2>4, <2>5 DEF ExclusiveInv
<1>7. CASE RenameFails(p)
  <2>1. /\ pc[p] = "rename" /\ fd[p] = Nil /\ arg[p] \in Data
        /\ pc' = [pc EXCEPT ![p] = "remove"]
        /\ UNCHANGED <<target, tmp, content, arg, fd, pos, rpc, rfd, rpos, rbuf>>
    BY <1>7 DEF RenameFails, readerVars, ExclusiveInv, OwnsTmp, Resting
  <2>2. TargetWhole' /\ (target # Nil => target # tmp)'
    BY <2>1 DEF ExclusiveInv, TargetWhole, Whole, FileOf
  <2>3. OneWriter'
    BY <2>1, NobodyEnters DEF ExclusiveInv, TypeOK, Resting
  <2>4. ASSUME NEW q \in Proc PROVE OwnsTmp(q)'
    <3>1. CASE q = p
      BY <2>1, <3>1 DEF OwnsTmp, TypeOK, Resting
    <3>2. CASE q # p
      BY <2>1, <3>2, OthersRest, RestingUndisturbed DEF TypeOK, Resting
    <3> QED
      BY <3>1, <3>2
  <2>5. ASSUME NEW r \in Reader PROVE HoldsWhole(r)'
    BY <2>1, ReadersUndisturbed
  <2> QED
    BY <2>2, <2>3, <2>4, <2>5 DEF ExclusiveInv
<1>8. CASE RemoveTmp(p)
  <2>1. fd[p] = Nil
    BY <1>8 DEF RemoveTmp, ExclusiveInv, OwnsTmp
  <2>2. fd' = [fd EXCEPT ![p] = Nil]
    BY <1>8, <2>1 DEF RemoveTmp, TypeOK
  <2> QED
    BY <1>8, <2>2, CallEnds DEF RemoveTmp, readerVars, Resting
<1>9. CASE Crash(p)
  BY <1>9, CallEnds DEF Crash, readerVars, Resting
<1> QED
  BY <1>1, <1>2, <1>3, <1>4, <1>5, <1>6, <1>7, <1>8, <1>9 DEF WriterNext

\* Every step of a reader preserves the invariant: what it opened as the
\* target is whole and no longer the inode of any temporary file.
LEMMA ReaderStep ==
  ASSUME TypeOK, ExclusiveInv, NEW r \in Reader, ReaderNext(r)
  PROVE  ExclusiveInv'
<1>1. UNCHANGED <<target, tmp, content, pc, arg, fd, pos>>
  BY DEF ReaderNext, OpenTarget, ReadBlock, writerVars
<1>2. /\ TargetWhole' /\ (target # Nil => target # tmp)' /\ OneWriter'
      /\ \A p \in Proc : OwnsTmp(p)'
  BY <1>1 DEF ExclusiveInv, TargetWhole, Whole, FileOf, OneWriter, OwnsTmp
<1>3. ASSUME NEW q \in Reader, q # r PROVE HoldsWhole(q)'
  <2>1. rpc'[q] = rpc[q] /\ rfd'[q] = rfd[q] /\ rpos'[q] = rpos[q] /\ rbuf'[q] = rbuf[q]
    BY <1>3 DEF ReaderNext, OpenTarget, ReadBlock, TypeOK
  <2> QED
    BY <1>1, <2>1 DEF ExclusiveInv, HoldsWhole, Whole, FileOf
<1>4. CASE OpenTarget(r)
  <2>1. CASE target = Nil
    <3>1. rpc'[r] = "done" /\ rfd'[r] = Nil /\ rbuf'[r] = Nil
      BY <1>4, <2>1 DEF OpenTarget, TypeOK
    <3> QED
      BY <1>2, <1>3, <3>1 DEF ExclusiveInv, HoldsWhole
  <2>2. CASE target # Nil
    <3>1. rpc'[r] = "reading" /\ rfd'[r] = target /\ rpos'[r] = 1
      BY <1>4, <2>2 DEF OpenTarget, TypeOK
    <3>2. \A k \in 1..Blocks : ~(k < rpos'[r])
      BY <3>1, BlocksAssumption
    <3>3. HoldsWhole(r)'
      BY <1>1, <2>2, <3>1, <3>2
         DEF ExclusiveInv, TargetWhole, HoldsWhole, Whole, FileOf
    <3> QED
      BY <1>2, <1>3, <3>3 DEF ExclusiveInv
  <2> QED
    BY <2>1, <2>2
<1>5. CASE ReadBlock(r)
  <2> DEFINE read == [rbuf[r] EXCEPT ![rpos[r]] = content[rfd[r]][rpos[r]]]
  <2>1. rbuf' = [rbuf EXCEPT ![r] = read] /\ rpc[r] = "reading"
    BY <1>5 DEF ReadBlock
  <2>2. /\ rfd[r] \in Inode /\ rfd[r] # Nil /\ rfd[r] # tmp
        /\ Whole(content[rfd[r]])
        /\ content[rfd[r]] \in [1..Blocks -> Block]
        /\ rpos[r] \in 1..Blocks
    BY <2>1 DEF ExclusiveInv, HoldsWhole, TypeOK
  <2>3. /\ read \in [1..Blocks -> Block]
        /\ \A k \in 1..Blocks : k <= rpos[r] => read[k] = content[rfd[r]][k]
    <3>1. rbuf[r] \in [1..Blocks -> Block]
      BY <2>1 DEF TypeOK
    <3>2. \A k \in 1..Blocks : k < rpos[r] => rbuf[r][k] = content[rfd[r]][k]
      BY <2>1 DEF ExclusiveInv, HoldsWhole
    <3>3. read \in [1..Blocks -> Block]
      BY <2>2, <3>1
    <3>4. ASSUME NEW k \in 1..Blocks, k <= rpos[r] PROVE read[k] = content[rfd[r]][k]
      <4>1. CASE k = rpos[r]
        BY <3>1, <4>1
      <4>2. CASE k # rpos[r]
        <5>1. k < rpos[r]
          BY <2>2, <3>4, <4>2, BlocksAssumption
        <5> QED
          BY <3>1, <3>2, <4>2, <5>1
      <4> QED
        BY <4>1, <4>2
    <3> QED
      BY <3>3, <3>4
  <2> HIDE DEF read
  <2>4. rbuf'[r] = read
    BY <2>1 DEF TypeOK
  <2>5. CASE rpos[r] < Blocks
    <3>1. rpc'[r] = "reading" /\ rfd'[r] = rfd[r] /\ rpos'[r] = rpos[r] + 1
      BY <1>5, <2>1, <2>5 DEF ReadBlock, TypeOK
    <3>2. \A k \in 1..Blocks : k < rpos'[r] => rbuf'[r][k] = content[rfd[r]][k]
      BY <2>2, <2>3, <2>4, <3>1
    <3>3. HoldsWhole(r)'
      BY <1>1, <2>2, <3>1, <3>2 DEF HoldsWhole, Whole, FileOf
    <3> QED
      BY <1>2, <1>3, <3>3 DEF ExclusiveInv
  <2>6. CASE ~(rpos[r] < Blocks)
    <3>1. rpc'[r] = "done" /\ rfd'[r] = Nil
      BY <1>5, <2>6 DEF ReadBlock, TypeOK
    <3>2. rpos[r] = Blocks
      BY <2>2, <2>6, BlocksAssumption
    <3>3. read = content[rfd[r]]
      BY <2>2, <2>3, <3>2, BlocksAssumption
    <3>4. HoldsWhole(r)'
      BY <2>2, <2>4, <3>1, <3>3 DEF HoldsWhole, Whole, FileOf
    <3> QED
      BY <1>2, <1>3, <3>4 DEF ExclusiveInv
  <2> QED
    BY <2>5, <2>6
<1> QED
  BY <1>4, <1>5 DEF ReaderNext

\* When calls do not overlap, whatever crashes and failures interrupt them,
\* every reachable state satisfies the invariant.
THEOREM ExclusiveSafe == Exclusive => (Spec => []ExclusiveInv)
<1> SUFFICES ASSUME Exclusive PROVE Spec => []ExclusiveInv
  OBVIOUS
<1>1. Init => ExclusiveInv
  BY DEF Init, ExclusiveInv, TargetWhole, OneWriter, OwnsTmp, HoldsWhole, Resting
<1>2. TypeOK /\ TypeOK' /\ ExclusiveInv /\ [Next]_vars => ExclusiveInv'
  <2> SUFFICES ASSUME TypeOK, TypeOK', ExclusiveInv, [Next]_vars
               PROVE  ExclusiveInv'
    OBVIOUS
  <2>1. CASE \E p \in Proc : WriterNext(p)
    BY <2>1, WriterStep
  <2>2. CASE \E r \in Reader : ReaderNext(r)
    BY <2>2, ReaderStep
  <2>3. CASE UNCHANGED vars
    <3>1. TargetWhole' /\ (target # Nil => target # tmp)' /\ OneWriter'
      BY <2>3 DEF vars, ExclusiveInv, TargetWhole, Whole, FileOf, OneWriter
    <3>2. ASSUME NEW p \in Proc PROVE OwnsTmp(p)'
      BY <2>3 DEF vars, ExclusiveInv, OwnsTmp, FileOf
    <3>3. ASSUME NEW r \in Reader PROVE HoldsWhole(r)'
      BY <2>3, ReadersUndisturbed DEF vars
    <3> QED
      BY <3>1, <3>2, <3>3 DEF ExclusiveInv
  <2> QED
    BY <2>1, <2>2, <2>3 DEF Next
<1> QED
  BY <1>1, <1>2, TypeCorrect, PTL DEF Spec

\* The file at the target path is at all times one some call wrote in full.
THEOREM TargetAlwaysWhole == Exclusive => (Spec => []TargetWhole)
<1>1. ExclusiveInv => TargetWhole
  BY DEF ExclusiveInv
<1> QED
  BY <1>1, ExclusiveSafe, PTL

-----------------------------------------------------------------------------
(* The refinement of AtomicFile. *)

\* The value of a file that one call wrote in full is that call's data.
LEMMA ValueOfFile ==
  ASSUME NEW d \in Data PROVE Value(FileOf(d)) = d
<1>1. ASSUME NEW e \in Data, FileOf(e) = FileOf(d) PROVE e = d
  <2>1. 1 \in 1..Blocks
    BY BlocksAssumption
  <2>2. FileOf(e)[1] = e /\ FileOf(d)[1] = d
    BY <2>1 DEF FileOf
  <2> QED
    BY <1>1, <2>2
<1>2. \E e \in Data : FileOf(d) = FileOf(e)
  OBVIOUS
<1>3. (CHOOSE e \in Data : FileOf(d) = FileOf(e)) = d
  BY <1>1, <1>2
<1> QED
  BY <1>2, <1>3 DEF Value, Whole

\* Steps that leave the target and what it holds alone do not change the file.
LEMMA FileUnchanged ==
  ASSUME UNCHANGED target, target # Nil => content'[target] = content[target]
  PROVE  UNCHANGED fileBar
BY DEF fileBar, Value, Whole, FileOf

\* Steps that leave the readers and what they have open alone do not change
\* what the readers see.
LEMMA SeenUnchanged ==
  ASSUME UNCHANGED <<rpc, rfd, rbuf>>,
         \A r \in Reader : rpc[r] = "reading" => content'[rfd[r]] = content[rfd[r]]
  PROVE  UNCHANGED seenBar
BY ZenonT(60) DEF seenBar, Value, Whole, FileOf

\* Each step of a writer is a step of the register or changes nothing in it.
LEMMA WriterRefines ==
  ASSUME TypeOK, ExclusiveInv, NEW p \in Proc, WriterNext(p)
  PROVE  [Register!Next]_(Register!vars)
<1>1. ASSUME NEW d \in Data, Call(p, d) PROVE Register!Begin(p, d)
  <2>1. UNCHANGED <<target, content, rpc, rfd, rbuf>>
    BY <1>1 DEF Call, readerVars
  <2>2. UNCHANGED <<fileBar, seenBar>>
    BY <2>1, FileUnchanged, SeenUnchanged
  <2>3. statusBar[p] # "pending" /\ statusBar' = [statusBar EXCEPT ![p] = "pending"]
    BY <1>1 DEF Call, statusBar, Resting, TypeOK
  <2> QED
    BY <1>1, <2>2, <2>3 DEF Call, Register!Begin
<1>2. ASSUME OpenTmp(p) \/ WriteBlock(p) \/ RenameFails(p)
      PROVE  UNCHANGED Register!vars
  <2>1. UNCHANGED <<target, arg, rpc, rfd, rbuf>>
    BY <1>2 DEF OpenTmp, WriteBlock, RenameFails, readerVars
  <2>2. PICK i : /\ \/ UNCHANGED content
                    \/ \E f : content' = [content EXCEPT ![i] = f]
                 /\ target # Nil => target # i
                 /\ \A r \in Reader : rpc[r] = "reading" => rfd[r] # i
    <3>1. CASE OpenTmp(p)
      <4>1. PICK i \in Inode : /\ IF tmp = Nil THEN Free(i) ELSE i = tmp
                               /\ content' = [content EXCEPT ![i] = Empty]
        BY <3>1 DEF OpenTmp
      <4> QED
        BY <4>1 DEF Free, ExclusiveInv, HoldsWhole
    <3>2. CASE WriteBlock(p)
      <4>1. fd[p] = tmp
        BY <3>2 DEF WriteBlock, ExclusiveInv, OwnsTmp
      <4> QED
        BY <3>2, <4>1 DEF WriteBlock, ExclusiveInv, HoldsWhole
    <3>3. CASE RenameFails(p)
      BY <3>3 DEF RenameFails, ExclusiveInv, HoldsWhole
    <3> QED
      BY <1>2, <3>1, <3>2, <3>3
  <2>3. UNCHANGED <<fileBar, seenBar>>
    BY <2>1, <2>2, FileUnchanged, SeenUnchanged DEF TypeOK
  <2>4. statusBar' = statusBar
    BY <1>2 DEF OpenTmp, WriteBlock, RenameFails, statusBar, Resting, TypeOK
  <2> QED
    BY <2>1, <2>3, <2>4 DEF Register!vars
<1>3. ASSUME OpenFails(p) \/ WriteFails(p) \/ RemoveTmp(p) \/ Crash(p)
      PROVE  Register!Abort(p)
  <2>1. UNCHANGED <<target, content, arg, rpc, rfd, rbuf>>
    BY <1>3 DEF OpenFails, WriteFails, RemoveTmp, Crash, readerVars
  <2>2. UNCHANGED <<fileBar, seenBar>>
    BY <2>1, FileUnchanged, SeenUnchanged
  <2>3. /\ statusBar[p] = "pending"
        /\ \E s \in {"error", "idle"} : statusBar' = [statusBar EXCEPT ![p] = s]
    <3>1. PICK s \in {"error", "idle"} :
            pc' = [pc EXCEPT ![p] = s] /\ pc[p] \notin Resting
      BY <1>3 DEF OpenFails, WriteFails, RemoveTmp, Crash, Resting
    <3> QED
      BY <3>1 DEF statusBar, Resting, TypeOK
  <2> QED
    BY <2>1, <2>2, <2>3 DEF Register!Abort
<1>4. ASSUME RenameTmp(p) PROVE Register!Commit(p)
  <2>1. /\ pc[p] = "rename" /\ arg[p] \in Data
        /\ tmp # Nil /\ content[tmp] = FileOf(arg[p])
        /\ target' = tmp /\ pc' = [pc EXCEPT ![p] = "ok"]
        /\ UNCHANGED <<content, arg, rpc, rfd, rbuf>>
    BY <1>4 DEF RenameTmp, readerVars, ExclusiveInv, OwnsTmp, Resting
  <2>2. fileBar' = arg[p]
    <3>1. fileBar' = Value(content[tmp])
      BY <2>1 DEF fileBar, Value, Whole, FileOf
    <3> QED
      BY <2>1, <3>1, ValueOfFile
  <2>3. UNCHANGED seenBar
    BY <2>1, SeenUnchanged
  <2>4. statusBar[p] = "pending" /\ statusBar' = [statusBar EXCEPT ![p] = "ok"]
    BY <2>1 DEF statusBar, Resting, TypeOK
  <2> QED
    BY <2>1, <2>2, <2>3, <2>4 DEF Register!Commit
<1> QED
  BY <1>1, <1>2, <1>3, <1>4 DEF WriterNext, Register!Next

\* So is each step of a reader.
LEMMA ReaderRefines ==
  ASSUME TypeOK, TypeOK', ExclusiveInv, NEW r \in Reader, ReaderNext(r)
  PROVE  [Register!Next]_(Register!vars)
<1>1. UNCHANGED <<target, content, pc, arg>>
  BY DEF ReaderNext, OpenTarget, ReadBlock, writerVars
<1>2. UNCHANGED <<fileBar, statusBar, arg>>
  BY <1>1, FileUnchanged DEF statusBar
<1>3. ASSUME NEW q \in Reader, q # r PROVE seenBar'[q] = seenBar[q]
  <2>1. rpc'[q] = rpc[q] /\ rfd'[q] = rfd[q] /\ rbuf'[q] = rbuf[q]
    BY <1>3 DEF ReaderNext, OpenTarget, ReadBlock, TypeOK
  <2> QED
    BY <1>1, <1>3, <2>1, ZenonT(60) DEF seenBar, Value, Whole, FileOf
<1>4. CASE OpenTarget(r)
  <2>1. seenBar'[r] = fileBar
    <3>1. CASE target = Nil
      BY <1>4, <3>1 DEF OpenTarget, seenBar, fileBar, TypeOK
    <3>2. CASE target # Nil
      <4>1. rpc'[r] = "reading" /\ rfd'[r] = target
        BY <1>4, <3>2 DEF OpenTarget, TypeOK
      <4> QED
        BY <1>1, <3>2, <4>1 DEF seenBar, fileBar, Value, Whole, FileOf
    <3> QED
      BY <3>1, <3>2
  <2>2. seenBar' = [seenBar EXCEPT ![r] = fileBar]
    BY <1>3, <2>1 DEF seenBar
  <2>3. Register!Read(r)
    BY <1>2, <2>2 DEF Register!Read
  <2> QED
    BY <2>3 DEF Register!Next
<1>5. CASE ReadBlock(r)
  <2>1. rpc[r] = "reading"
    BY <1>5 DEF ReadBlock
  <2>2. seenBar'[r] = seenBar[r]
    <3>1. CASE rpos[r] < Blocks
      <4>1. rpc'[r] = "reading" /\ rfd'[r] = rfd[r]
        BY <1>5, <2>1, <3>1 DEF ReadBlock, TypeOK
      <4> QED
        BY <1>1, <2>1, <4>1 DEF seenBar, Value, Whole, FileOf
    <3>2. CASE ~(rpos[r] < Blocks)
      <4>1. rpc'[r] = "done" /\ rpos[r] = Blocks
        BY <1>5, <3>2, BlocksAssumption DEF ReadBlock, TypeOK
      <4>2. rbuf'[r] = [rbuf[r] EXCEPT ![Blocks] = content[rfd[r]][Blocks]]
        BY <1>5, <4>1 DEF ReadBlock, TypeOK
      <4>3. /\ rbuf[r] \in [1..Blocks -> Block]
            /\ content[rfd[r]] \in [1..Blocks -> Block]
            /\ \A k \in 1..Blocks : k < Blocks => rbuf[r][k] = content[rfd[r]][k]
        BY <2>1, <4>1 DEF TypeOK, ExclusiveInv, HoldsWhole
      <4>4. \A k \in 1..Blocks : k < Blocks \/ k = Blocks
        BY BlocksAssumption
      <4>5. rbuf'[r] = content[rfd[r]]
        BY <4>2, <4>3, <4>4
      <4>6. content[rfd[r]] # Nil
        BY <4>3, NilAssumption DEF Block
      <4> QED
        BY <2>1, <4>1, <4>5, <4>6, ZenonT(60) DEF seenBar, Value, Whole, FileOf
    <3> QED
      BY <3>1, <3>2
  <2>3. seenBar' = seenBar
    BY <1>3, <2>2 DEF seenBar
  <2> QED
    BY <1>2, <2>3 DEF Register!vars
<1> QED
  BY <1>4, <1>5 DEF ReaderNext

\* WriteFileAtomic is an atomic register for calls that do not overlap: a call
\* either replaces the file in one step or leaves it alone, whatever fails or
\* crashes, and every read returns the file of one instant.
THEOREM ImplementsRegister == Exclusive => (Spec => IsRegister)
<1> SUFFICES ASSUME Exclusive PROVE Spec => Register!Spec
  BY DEF IsRegister
<1>1. Init => Register!Init
  BY DEF Init, Register!Init, fileBar, statusBar, seenBar, Resting
<1>2. TypeOK /\ TypeOK' /\ ExclusiveInv /\ [Next]_vars
        => [Register!Next]_(Register!vars)
  <2> SUFFICES ASSUME TypeOK, TypeOK', ExclusiveInv, [Next]_vars
               PROVE  [Register!Next]_(Register!vars)
    OBVIOUS
  <2>1. CASE \E p \in Proc : WriterNext(p)
    BY <2>1, WriterRefines
  <2>2. CASE \E r \in Reader : ReaderNext(r)
    BY <2>2, ReaderRefines
  <2>3. CASE UNCHANGED vars
    BY <2>3 DEF vars, Register!vars, fileBar, statusBar, seenBar, Value, Whole, FileOf
  <2> QED
    BY <2>1, <2>2, <2>3 DEF Next
<1>3. Spec => []ExclusiveInv
  BY ExclusiveSafe
<1> QED
  BY <1>1, <1>2, <1>3, TypeCorrect, PTL DEF Spec, Register!Spec
=============================================================================
