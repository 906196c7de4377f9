-------------------------- MODULE PackageTreeProofs --------------------------
(***************************************************************************)
(* What the list of packages promises: of pkgmanager.Flatten for every     *)
(* tree and every limit, and of GetTree for every forest that is installed *)
(* and every adapter that reads it.                                        *)
(*                                                                         *)
(* The walk of Flatten holds, besides the list, the children that are      *)
(* being looked at and the queue.  The invariant says where each of them   *)
(* hangs (Walk), that no child is met twice (Fresh), that depths are met   *)
(* in order (Ordered) and that a child which is not listed is still to     *)
(* come (Pending).                                                         *)
(*                                                                         *)
(* An adapter's GetTree followed by Flatten is a walk of Flatten over some *)
(* tree (AdaptersCallFlatten), so that what is shown of Flatten holds of   *)
(* its list.  What is in the tree is then followed down from the root, by  *)
(* induction on the place of a package in the forest: nothing hangs from a *)
(* package behind it.                                                      *)
(***************************************************************************)
EXTENDS PackageTree, SequenceLemmas, FiniteSetTheorems

-----------------------------------------------------------------------------
(* Flatten. *)

\* The entries whose children are in the queue.
Queued == {queue[i].node : i \in DOMAIN queue}

\* m is where the children that are looked at hang.
Hangs(m) ==
  /\ m \in Node \cup {Root}
  /\ m \notin Queued
  /\ left \subseteq tree.kids[m]
  /\ \/ m = Root /\ depth = 0
     \/ \E j \in DOMAIN nodes : nodes[j].node = m /\ depth = nodes[j].depth + 1

\* Where everything that is walked over hangs.
Walk ==
  /\ \E m \in Node \cup {Root} : Hangs(m)
  /\ \A i \in DOMAIN queue : \E j \in DOMAIN nodes :
       nodes[j].node = queue[i].node /\ queue[i].depth = nodes[j].depth + 1
  /\ \A i \in DOMAIN nodes :
       /\ tree.versioned[nodes[i].node]
       /\ \/ nodes[i].node \in tree.kids[Root] /\ nodes[i].depth = 0
          \/ \E j \in 1..i-1 : /\ nodes[i].node \in tree.kids[nodes[j].node]
                               /\ nodes[i].depth = nodes[j].depth + 1

\* No child is met twice.
Fresh ==
  /\ left \cap Reached = {}
  /\ \A i \in DOMAIN queue : tree.kids[queue[i].node] \cap Reached = {}
  /\ \A i, j \in DOMAIN queue : queue[i].node = queue[j].node => i = j
  /\ \A i, j \in DOMAIN nodes : nodes[i].node = nodes[j].node => i = j

\* Depths are met in order.
Ordered ==
  /\ \A i, j \in DOMAIN nodes : i <= j => nodes[i].depth <= nodes[j].depth
  /\ \A i \in DOMAIN nodes : nodes[i].depth <= depth
  /\ \A i \in DOMAIN queue : depth <= queue[i].depth /\ queue[i].depth <= depth + 1
  /\ \A i, j \in DOMAIN queue : i <= j => queue[i].depth <= queue[j].depth

\* A child that is not listed is still to come.
Pending ==
  \A m \in Reached \cup {Root} : \A n \in tree.kids[m] :
    tree.versioned[n] => n \in Reached \/ n \in left \/ m \in Queued

\* What the result says of the walk.
Ends ==
  /\ Len(nodes) <= maxFlattenNodes
  /\ result = "idle" => nodes = <<>> /\ queue = <<>> /\ left = {} /\ depth = 0
  /\ result = "listed" => left = {} /\ queue = <<>>
  /\ result = "truncated" => Len(nodes) = maxFlattenNodes /\ left # {}

\* The inductive invariant.
IInv == FlattenTypeOK /\ Walk /\ Fresh /\ Ordered /\ Pending /\ Ends

-----------------------------------------------------------------------------

\* It holds before the call.
THEOREM FlattenInitIInv == FlattenInit => IInv
<1> SUFFICES ASSUME FlattenInit PROVE IInv
  OBVIOUS
<1> USE FlattenAssumption DEF FlattenInit
<1>1. FlattenTypeOK
  <2>1. \A m, n \in Node \cup {Root} : m # n => tree.kids[m] \cap tree.kids[n] = {}
    BY SMT
  <2>2. tree \in [kids : [Node \cup {Root} -> SUBSET Node], versioned : [Node -> BOOLEAN]]
    OBVIOUS
  <2>3. tree \in Tree
    BY <2>1, <2>2 DEF Tree
  <2> QED
    BY <2>3 DEF FlattenTypeOK
<1>2. Walk
  BY DEF Walk, Hangs, Queued
<1>3. Fresh
  BY DEF Fresh, Reached
<1>4. Ordered
  BY DEF Ordered
<1>5. Pending
  BY DEF Pending, Reached
<1>6. Ends
  BY DEF Ends
<1> QED
  BY <1>1, <1>2, <1>3, <1>4, <1>5, <1>6 DEF IInv

-----------------------------------------------------------------------------
(* One lemma for each action. *)

\* The items of a sequence are entries at a depth,
LEMMA ItemSequence ==
  ASSUME NEW s \in Seq(Item)
  PROVE  /\ Len(s) \in Nat /\ DOMAIN s = 1..Len(s)
         /\ \A i \in DOMAIN s : s[i] \in Item /\ s[i].node \in Node /\ s[i].depth \in Nat
<1>1. \A i \in 1..Len(s) : s[i] \in Item
  OBVIOUS
<1> QED
  BY <1>1 DEF Item

\* and so are those of a longer one.
LEMMA ItemAppended ==
  ASSUME NEW s \in Seq(Item), NEW e \in Item
  PROVE  /\ Append(s, e) \in Seq(Item) /\ Len(Append(s, e)) = Len(s) + 1
         /\ DOMAIN Append(s, e) = 1..Len(s) + 1
         /\ \A i \in 1..Len(s) : Append(s, e)[i] = s[i]
         /\ Append(s, e)[Len(s) + 1] = e
<1>1. Append(s, e) \in Seq(Item) /\ Len(Append(s, e)) = Len(s) + 1
  BY AppendProperties
<1>2. DOMAIN Append(s, e) = 1..Len(s) + 1
  BY <1>1, ItemSequence
<1>3. (\A i \in 1..Len(s) : Append(s, e)[i] = s[i]) /\ Append(s, e)[Len(s) + 1] = e
  BY AppendProperties
<1> QED
  BY <1>1, <1>2, <1>3

\* The call starts with the children of the root.
LEMMA FlattenCallIInv ==
  ASSUME IInv, NEW t \in Tree, FlattenCall(t) PROVE IInv'
<1> USE FlattenAssumption DEF FlattenCall
<1>1. /\ nodes' = <<>> /\ queue' = <<>> /\ depth' = 0 /\ left' = t.kids[Root] /\ tree' = t
      /\ result' \in {"listed", "walking"}
      /\ result' = "listed" => left' = {}
  BY DEF IInv, Ends
<1>2. FlattenTypeOK'
  <2>1. t.kids \in [Node \cup {Root} -> SUBSET Node]
    BY DEF Tree
  <2> QED
    BY <1>1, <2>1 DEF FlattenTypeOK
<1>3. Hangs(Root)' /\ Walk'
  BY <1>1 DEF Walk, Hangs, Queued
<1>4. Fresh'
  BY <1>1 DEF Fresh, Reached
<1>5. Ordered'
  BY <1>1 DEF Ordered
<1>6. Pending'
  BY <1>1 DEF Pending, Reached
<1>7. Ends'
  BY <1>1 DEF Ends
<1> QED
  BY <1>2, <1>3, <1>4, <1>5, <1>6, <1>7 DEF IInv

\* The list is cut short, and nothing else changes.
LEMMA TruncateIInv == IInv /\ Truncate => IInv'
<1> SUFFICES ASSUME IInv, Truncate PROVE IInv'
  OBVIOUS
<1> USE FlattenAssumption DEF Truncate, IInv
<1>1. FlattenTypeOK'
  BY DEF FlattenTypeOK
<1>2. Walk' /\ Fresh' /\ Ordered' /\ Pending'
  <2>1. Walk'
    BY DEF Walk, Hangs, Queued
  <2>2. Fresh' /\ Ordered'
    BY SMTT(30) DEF Fresh, Reached, Ordered
  <2>3. Pending'
    BY DEF Pending, Reached, Queued
  <2> QED
    BY <2>1, <2>2, <2>3
<1>3. Ends'
  BY DEF Ends, FlattenTypeOK
<1> QED
  BY <1>1, <1>2, <1>3

\* The list is complete, and nothing else changes.
LEMMA ListedIInv == IInv /\ Listed => IInv'
<1> SUFFICES ASSUME IInv, Listed PROVE IInv'
  OBVIOUS
<1> USE FlattenAssumption DEF Listed, IInv
<1>1. FlattenTypeOK'
  BY DEF FlattenTypeOK
<1>2. Walk' /\ Fresh' /\ Ordered' /\ Pending'
  <2>1. Walk'
    BY DEF Walk, Hangs, Queued
  <2>2. Fresh' /\ Ordered'
    BY DEF Fresh, Reached, Ordered
  <2>3. Pending'
    BY DEF Pending, Reached, Queued
  <2> QED
    BY <2>1, <2>2, <2>3
<1>3. Ends'
  BY DEF Ends
<1> QED
  BY <1>1, <1>2, <1>3

\* Of the head of the queue the children become the ones that are looked at.
LEMMA DequeueIInv == IInv /\ Dequeue => IInv'
<1> SUFFICES ASSUME IInv, Dequeue PROVE IInv'
  OBVIOUS
<1> USE FlattenAssumption DEF Dequeue
<1> DEFINE h == queue[1]
<1>1. /\ queue \in Seq(Item) /\ Len(queue) \in Nat /\ DOMAIN queue = 1..Len(queue)
      /\ 1 \in DOMAIN queue /\ h \in Item /\ Head(queue) = h
      /\ queue' \in Seq(Item) /\ Len(queue') = Len(queue) - 1
      /\ DOMAIN queue' = 1..Len(queue')
      /\ \A i \in DOMAIN queue' : i + 1 \in DOMAIN queue /\ queue'[i] = queue[i + 1]
  <2>1. queue \in Seq(Item) /\ queue # <<>>
    BY DEF IInv, FlattenTypeOK
  <2> QED
    BY <2>1, HeadTailProperties
<1>2. /\ left' = tree.kids[h.node] /\ depth' = h.depth /\ nodes' = nodes /\ tree' = tree
      /\ left = {} /\ result = "walking" /\ result' = "walking"
  BY <1>1
<1>3. tree.kids \in [Node \cup {Root} -> SUBSET Node] /\ h.node \in Node /\ h.depth \in Nat
  BY <1>1 DEF IInv, FlattenTypeOK, Tree, Item
<1>4. FlattenTypeOK'
  BY <1>1, <1>2, <1>3 DEF IInv, FlattenTypeOK
<1>5. \A m : m \in Queued' => m \in Queued /\ m # h.node
  BY <1>1 DEF Queued, IInv, Fresh
<1>6. \A m \in Queued : m = h.node \/ m \in Queued'
  <2> SUFFICES ASSUME NEW i \in DOMAIN queue, queue[i].node # h.node
               PROVE  queue[i].node \in Queued'
    BY DEF Queued
  <2>1. i - 1 \in DOMAIN queue' /\ queue'[i - 1] = queue[i]
    BY <1>1
  <2> QED
    BY <2>1 DEF Queued
<1>7. \E m \in Node \cup {Root} : Hangs(m)'
  <2>1. PICK m \in Node : m = h.node
    BY <1>3
  <2>2. m \notin Queued'
    BY <1>5, <2>1
  <2>3. \E j \in DOMAIN nodes : nodes[j].node = m /\ h.depth = nodes[j].depth + 1
    BY <1>1, <2>1 DEF IInv, Walk
  <2>4. Hangs(m)'
    BY <2>1, <2>2, <2>3, <1>2, <1>3 DEF Hangs
  <2> QED
    BY <2>4
<1>8. Walk'
  <2>1. \A i \in DOMAIN queue' : \E j \in DOMAIN nodes' :
          nodes'[j].node = queue'[i].node /\ queue'[i].depth = nodes'[j].depth + 1
    BY <1>1, <1>2 DEF IInv, Walk
  <2> QED
    BY <1>2, <1>3, <1>7, <2>1 DEF IInv, Walk
<1>9. Fresh'
  <2>0. Reached' = Reached
    BY <1>2 DEF Reached
  <2>1. left' \cap Reached = {}
    BY <1>1, <1>2 DEF IInv, Fresh
  <2>2. \A i \in DOMAIN queue' : tree'.kids[queue'[i].node] \cap Reached = {}
    BY <1>1, <1>2 DEF IInv, Fresh
  <2>3. (\A i, j \in DOMAIN queue : queue[i].node = queue[j].node => i = j)'
    BY <1>1, <1>2 DEF IInv, Fresh
  <2> QED
    BY <1>2, <2>0, <2>1, <2>2, <2>3 DEF IInv, Fresh
<1>10. Ordered'
  <2>1. \A i \in DOMAIN queue : queue[i].depth \in Nat
    BY <1>1, ItemSequence
  <2>2. \A i \in DOMAIN nodes : nodes[i].depth \in Nat
    BY ItemSequence DEF IInv, FlattenTypeOK
  <2>3. depth \in Nat /\ depth <= h.depth /\ h.depth <= depth + 1
    BY <1>1 DEF IInv, FlattenTypeOK, Ordered
  <2>4. \A i \in DOMAIN nodes : nodes[i].depth <= h.depth
    BY <1>3, <2>2, <2>3 DEF IInv, Ordered
  <2>5. \A i \in DOMAIN queue' : h.depth <= queue'[i].depth /\ queue'[i].depth <= h.depth + 1
    <3> TAKE i \in DOMAIN queue'
    <3>1. i + 1 \in DOMAIN queue /\ queue'[i] = queue[i + 1] /\ 1 <= i + 1
      BY <1>1
    <3>2. h.depth <= queue[i + 1].depth /\ queue[i + 1].depth <= depth + 1
      BY <1>1, <3>1 DEF IInv, Ordered
    <3> QED
      BY <1>3, <2>1, <2>3, <3>1, <3>2
  <2>6. \A i, j \in DOMAIN queue' : i <= j => queue'[i].depth <= queue'[j].depth
    <3> TAKE i, j \in DOMAIN queue'
    <3> HAVE i <= j
    <3>1. i + 1 <= j + 1 /\ i + 1 \in DOMAIN queue /\ j + 1 \in DOMAIN queue
      BY <1>1
    <3> QED
      BY <1>1, <3>1 DEF IInv, Ordered
  <2> QED
    BY <1>2, <2>4, <2>5, <2>6 DEF IInv, Ordered
<1>11. Pending'
  <2>1. Reached' = Reached
    BY <1>2 DEF Reached
  <2> QED
    BY <1>2, <1>6, <2>1 DEF IInv, Pending
<1>12. Ends'
  BY <1>2 DEF IInv, Ends
<1> QED
  BY <1>4, <1>8, <1>9, <1>10, <1>11, <1>12 DEF IInv

\* A child is looked at: it leaves left, and joins the list and the queue when
\* it has a version.  It is new, and so are its own children, because entries
\* have one parent.
LEMMA VisitIInv ==
  ASSUME IInv, NEW n \in left, Visit(n) PROVE IInv'
<1> USE FlattenAssumption DEF Visit
<1>1. /\ tree.kids \in [Node \cup {Root} -> SUBSET Node]
      /\ \A a, b \in Node \cup {Root} : a # b => tree.kids[a] \cap tree.kids[b] = {}
  BY DEF IInv, FlattenTypeOK, Tree
<1>2. /\ nodes \in Seq(Item) /\ queue \in Seq(Item) /\ depth \in Nat /\ n \in Node
      /\ tree' = tree /\ depth' = depth /\ left' = left \ {n}
      /\ result = "walking" /\ result' = "walking"
  BY DEF IInv, FlattenTypeOK
<1>3. PICK m \in Node \cup {Root} : Hangs(m)
  BY DEF IInv, Walk
<1>4. /\ n \in tree.kids[m] /\ n \notin Reached /\ n \notin Queued
      /\ m = Root \/ m \in Reached
  <2>1. Queued \subseteq Reached
    BY DEF IInv, Walk, Queued, Reached
  <2> QED
    BY <1>3, <2>1 DEF Hangs, IInv, Fresh, Reached
<1>5. /\ Len(nodes) \in Nat /\ DOMAIN nodes = 1..Len(nodes)
      /\ \A i \in DOMAIN nodes : nodes[i].node \in Node /\ nodes[i].depth \in Nat
      /\ Len(queue) \in Nat /\ DOMAIN queue = 1..Len(queue)
      /\ \A i \in DOMAIN queue : queue[i].node \in Node /\ queue[i].depth \in Nat
  BY <1>2, ItemSequence
<1>6. tree.kids[n] \cap (Reached \cup {n}) = {}
  <2> SUFFICES ASSUME NEW k \in tree.kids[n], k \in Reached \cup {n} PROVE FALSE
    OBVIOUS
  <2>1. CASE k = n
    BY <1>1, <1>2, <1>4, <2>1
  <2>2. CASE k \in Reached
    <3>1. PICK i \in DOMAIN nodes : nodes[i].node = k
      BY <2>2 DEF Reached
    <3>2. k \in tree.kids[Root] \/ \E j \in 1..i-1 : k \in tree.kids[nodes[j].node]
      BY <3>1 DEF IInv, Walk
    <3>3. CASE k \in tree.kids[Root]
      BY <1>1, <1>2, <3>3
    <3>4. ASSUME NEW j \in 1..i-1, k \in tree.kids[nodes[j].node] PROVE FALSE
      <4>1. j \in DOMAIN nodes /\ nodes[j].node \in Node /\ nodes[j].node \in Reached
        BY <1>5, <3>1 DEF Reached
      <4>2. nodes[j].node # n
        BY <1>4, <4>1
      <4> QED
        BY <1>1, <1>2, <3>4, <4>1, <4>2
    <3> QED
      BY <3>2, <3>3, <3>4
  <2> QED
    BY <2>1, <2>2
<1>7. CASE ~tree.versioned[n]
  <2>1. nodes' = nodes /\ queue' = queue
    BY <1>7
  <2>2. FlattenTypeOK'
    BY <1>2, <2>1 DEF IInv, FlattenTypeOK
  <2>3. Walk'
    <3>1. Hangs(m)'
      BY <1>2, <1>3, <2>1 DEF Hangs, Queued
    <3> QED
      BY <1>2, <2>1, <3>1 DEF IInv, Walk
  <2>4. Fresh'
    <3>1. Reached' = Reached
      BY <2>1 DEF Reached
    <3> QED
      BY <1>2, <2>1, <3>1 DEF IInv, Fresh
  <2>7. Ordered'
    BY <1>2, <2>1 DEF IInv, Ordered
  <2>5. Pending'
    BY <1>2, <1>7, <2>1 DEF IInv, Pending, Reached, Queued
  <2>6. Ends'
    BY <1>2, <2>1 DEF IInv, Ends
  <2> QED
    BY <2>2, <2>3, <2>4, <2>5, <2>6, <2>7 DEF IInv
<1>8. CASE tree.versioned[n]
  <2> DEFINE it == [node |-> n, depth |-> depth]
             next == [node |-> n, depth |-> depth + 1]
  <2>1. it \in Item /\ next \in Item
    BY <1>2 DEF Item
  <2>2. /\ nodes' \in Seq(Item) /\ Len(nodes') = Len(nodes) + 1
        /\ DOMAIN nodes' = 1..Len(nodes) + 1
        /\ \A i \in DOMAIN nodes : nodes'[i] = nodes[i]
        /\ nodes'[Len(nodes) + 1] = it
    <3>1. nodes' = Append(nodes, it)
      BY <1>8
    <3> HIDE DEF it
    <3>2. /\ Append(nodes, it) \in Seq(Item) /\ Len(Append(nodes, it)) = Len(nodes) + 1
          /\ DOMAIN Append(nodes, it) = 1..Len(nodes) + 1
          /\ \A i \in 1..Len(nodes) : Append(nodes, it)[i] = nodes[i]
          /\ Append(nodes, it)[Len(nodes) + 1] = it
      BY <1>2, <2>1, ItemAppended
    <3> QED
      BY <1>5, <3>1, <3>2
  <2>3. /\ queue' \in Seq(Item)
        /\ \A i \in DOMAIN queue : i \in DOMAIN queue' /\ queue'[i] = queue[i]
        /\ \A i \in DOMAIN queue' : \/ i \in DOMAIN queue /\ queue'[i] = queue[i]
                                    \/ i = Len(queue) + 1 /\ queue'[i] = next
        /\ tree.kids[n] = {} \/ \E i \in DOMAIN queue' : queue'[i] = next
    <3>1. CASE tree.kids[n] = {}
      BY <1>2, <1>8, <3>1
    <3>2. CASE tree.kids[n] # {}
      <4>1. queue' = Append(queue, next)
        BY <1>8, <3>2
      <4>2. /\ queue' \in Seq(Item) /\ DOMAIN queue' = 1..Len(queue) + 1
            /\ \A i \in 1..Len(queue) : queue'[i] = queue[i]
            /\ queue'[Len(queue) + 1] = next
        <5> HIDE DEF next
        <5> QED
          BY <1>2, <2>1, <4>1, ItemAppended
      <4> QED
        BY <1>5, <4>2
    <3> QED
      BY <3>1, <3>2
  <2> HIDE FlattenAssumption DEF Visit
  <2>4. Reached' = Reached \cup {n}
    <3>1. Reached' \subseteq Reached \cup {n}
      BY <1>5, <2>2 DEF Reached
    <3>2. Reached \subseteq Reached'
      <4> SUFFICES ASSUME NEW i \in DOMAIN nodes PROVE nodes[i].node \in Reached'
        BY DEF Reached
      <4>1. i \in DOMAIN nodes' /\ nodes'[i] = nodes[i]
        BY <1>5, <2>2
      <4> QED
        BY <4>1 DEF Reached
    <3>3. n \in Reached'
      <4>1. Len(nodes) + 1 \in DOMAIN nodes' /\ nodes'[Len(nodes) + 1].node = n
        BY <1>5, <2>2
      <4> QED
        BY <4>1 DEF Reached
    <3> QED
      BY <3>1, <3>2, <3>3
  <2>5. Queued \subseteq Queued' /\ Queued' \subseteq Queued \cup {n}
    BY <2>3 DEF Queued
  <2>6. tree.kids[n] = {} \/ n \in Queued'
    BY <2>3 DEF Queued
  <2>7. FlattenTypeOK'
    BY <1>2, <2>2, <2>3 DEF IInv, FlattenTypeOK
  <2>8. Walk'
    <3>1. m \notin Queued'
      <4>1. m # n
        BY FlattenAssumption, <1>2, <1>4
      <4> QED
        BY <1>3, <2>5, <4>1 DEF Hangs
    <3>2. \A j \in DOMAIN nodes : j \in DOMAIN nodes' /\ nodes'[j] = nodes[j]
      BY <1>5, <2>2
    <3>3. \/ m = Root /\ depth = 0
          \/ \E j \in DOMAIN nodes : nodes[j].node = m /\ depth = nodes[j].depth + 1
      BY <1>3 DEF Hangs
    <3>4. Hangs(m)'
      BY <1>2, <1>3, <3>1, <3>2, <3>3 DEF Hangs
    <3>5. \A i \in DOMAIN queue' : \E j \in DOMAIN nodes' :
            nodes'[j].node = queue'[i].node /\ queue'[i].depth = nodes'[j].depth + 1
      <4> TAKE i \in DOMAIN queue'
      <4>1. CASE i \in DOMAIN queue /\ queue'[i] = queue[i]
        BY <3>2, <4>1 DEF IInv, Walk
      <4>2. CASE queue'[i] = next
        <5>1. Len(nodes) + 1 \in DOMAIN nodes'
          BY <1>5, <2>2
        <5> QED
          BY <2>2, <4>2, <5>1
      <4> QED
        BY <2>3, <4>1, <4>2
    <3>6. \A i \in DOMAIN nodes' :
            /\ tree.versioned[nodes'[i].node]
            /\ \/ nodes'[i].node \in tree.kids[Root] /\ nodes'[i].depth = 0
               \/ \E j \in 1..i-1 : /\ nodes'[i].node \in tree.kids[nodes'[j].node]
                                    /\ nodes'[i].depth = nodes'[j].depth + 1
      <4> TAKE i \in DOMAIN nodes'
      <4>1. CASE i \in DOMAIN nodes
        <5>1. \A j \in 1..i-1 : j \in DOMAIN nodes
          BY <1>5, <4>1
        <5>2. \A j \in 1..i-1 : nodes'[j] = nodes[j]
          BY <3>2, <5>1
        <5>3. nodes'[i] = nodes[i]
          BY <3>2, <4>1
        <5>4. /\ tree.versioned[nodes[i].node]
              /\ \/ nodes[i].node \in tree.kids[Root] /\ nodes[i].depth = 0
                 \/ \E j \in 1..i-1 : /\ nodes[i].node \in tree.kids[nodes[j].node]
                                      /\ nodes[i].depth = nodes[j].depth + 1
          BY <4>1 DEF IInv, Walk
        <5> QED
          BY <5>2, <5>3, <5>4
      <4>2. CASE i = Len(nodes) + 1
        <5>1. nodes'[i].node = n /\ nodes'[i].depth = depth /\ 1..i-1 = DOMAIN nodes
          BY <1>5, <2>2, <4>2
        <5>2. CASE m = Root /\ depth = 0
          BY <1>4, <1>8, <5>1, <5>2
        <5>3. ASSUME NEW j \in DOMAIN nodes, nodes[j].node = m, depth = nodes[j].depth + 1
              PROVE  /\ nodes'[i].node \in tree.kids[nodes'[j].node]
                     /\ nodes'[i].depth = nodes'[j].depth + 1
                     /\ j \in 1..i-1
          BY <1>4, <3>2, <5>1, <5>3
        <5> QED
          BY <1>8, <3>3, <5>1, <5>2, <5>3
      <4> QED
        BY <1>5, <2>2, <4>1, <4>2
    <3> QED
      BY <1>2, <3>4, <3>5, <3>6 DEF Walk
  <2>9. Fresh'
    <3>1. left' \cap Reached' = {}
      BY <1>2, <2>4 DEF IInv, Fresh
    <3>2. \A i \in DOMAIN queue' : tree.kids[queue'[i].node] \cap Reached' = {}
      <4> TAKE i \in DOMAIN queue'
      <4>1. CASE i \in DOMAIN queue /\ queue'[i] = queue[i]
        <5>1. queue[i].node \in Queued /\ queue[i].node \in Node
          BY <1>5, <4>1 DEF Queued
        <5>2. queue[i].node # m
          BY <1>3, <5>1 DEF Hangs
        <5>3. n \notin tree.kids[queue[i].node]
          BY <1>1, <1>4, <5>1, <5>2
        <5> QED
          BY <2>4, <4>1, <5>3 DEF IInv, Fresh
      <4>2. CASE queue'[i] = next
        BY <1>6, <2>4, <4>2
      <4> QED
        BY <2>3, <4>1, <4>2
    <3>3. \A i, j \in DOMAIN queue' : queue'[i].node = queue'[j].node => i = j
      <4> TAKE i, j \in DOMAIN queue'
      <4>1. \A k \in DOMAIN queue : queue[k].node # n
        BY <1>4 DEF Queued
      <4>2. CASE i \in DOMAIN queue /\ j \in DOMAIN queue
        BY <2>3, <4>2 DEF IInv, Fresh
      <4>3. CASE i = Len(queue) + 1 \/ j = Len(queue) + 1
        BY <1>5, <2>3, <4>1, <4>3
      <4> QED
        BY <1>5, <2>3, <4>2, <4>3
    <3>4. \A i, j \in DOMAIN nodes' : nodes'[i].node = nodes'[j].node => i = j
      <4> TAKE i, j \in DOMAIN nodes'
      <4>1. \A k \in DOMAIN nodes : nodes[k].node # n
        BY <1>4 DEF Reached
      <4>2. CASE i \in DOMAIN nodes /\ j \in DOMAIN nodes
        BY <2>2, <4>2 DEF IInv, Fresh
      <4>3. CASE i = Len(nodes) + 1 \/ j = Len(nodes) + 1
        BY <1>5, <2>2, <4>1, <4>3
      <4> QED
        BY <1>5, <2>2, <4>2, <4>3
    <3> QED
      BY <1>2, <3>1, <3>2, <3>3, <3>4 DEF Fresh
  <2>10. Ordered'
    <3>1. \A i, j \in DOMAIN nodes' : i <= j => nodes'[i].depth <= nodes'[j].depth
      <4> SUFFICES ASSUME NEW i \in DOMAIN nodes', NEW j \in DOMAIN nodes', i <= j
                   PROVE  nodes'[i].depth <= nodes'[j].depth
        OBVIOUS
      <4>1. CASE j \in DOMAIN nodes
        BY <1>5, <2>2, <4>1 DEF IInv, Ordered
      <4>2. CASE j = Len(nodes) + 1
        BY <1>2, <1>5, <2>2, <4>2 DEF IInv, Ordered
      <4> QED
        BY <1>5, <2>2, <4>1, <4>2
    <3>2. \A i \in DOMAIN nodes' : nodes'[i].depth <= depth
      <4> TAKE i \in DOMAIN nodes'
      <4>1. CASE i \in DOMAIN nodes
        BY <2>2, <4>1 DEF IInv, Ordered
      <4>2. CASE i = Len(nodes) + 1
        BY <1>2, <2>2, <4>2
      <4> QED
        BY <1>5, <2>2, <4>1, <4>2
    <3>3. \A i \in DOMAIN queue' : depth <= queue'[i].depth /\ queue'[i].depth <= depth + 1
      <4> TAKE i \in DOMAIN queue'
      <4>1. CASE i \in DOMAIN queue /\ queue'[i] = queue[i]
        BY <4>1 DEF IInv, Ordered
      <4>2. CASE queue'[i] = next
        <5>1. queue'[i].depth = depth + 1
          BY <4>2
        <5>2. depth \in Nat
          BY <1>2
        <5> QED
          BY <5>1, <5>2
      <4> QED
        BY <2>3, <4>1, <4>2
    <3>4. \A i, j \in DOMAIN queue' : i <= j => queue'[i].depth <= queue'[j].depth
      <4> SUFFICES ASSUME NEW i \in DOMAIN queue', NEW j \in DOMAIN queue', i <= j
                   PROVE  queue'[i].depth <= queue'[j].depth
        OBVIOUS
      <4>1. CASE j \in DOMAIN queue /\ queue'[j] = queue[j]
        <5>1. i \in DOMAIN queue /\ queue'[i] = queue[i]
          BY <1>5, <2>3, <4>1
        <5> QED
          BY <4>1, <5>1 DEF IInv, Ordered
      <4>2. CASE queue'[j] = next
        BY <3>3, <4>2
      <4> QED
        BY <2>3, <4>1, <4>2
    <3> QED
      BY <1>2, <3>1, <3>2, <3>3, <3>4 DEF Ordered
  <2>11. Pending'
    <3> SUFFICES ASSUME NEW a \in Reached' \cup {Root}, NEW k \in tree.kids[a], tree.versioned[k]
                 PROVE  k \in Reached' \/ k \in left' \/ a \in Queued'
      BY <1>2 DEF Pending
    <3>1. CASE a \in Reached \cup {Root}
      BY <1>2, <2>4, <2>5, <3>1 DEF IInv, Pending
    <3>2. CASE a = n
      BY <2>6, <3>2
    <3> QED
      BY <2>4, <3>1, <3>2
  <2>12. Ends'
    BY FlattenAssumption, <1>2, <1>5, <2>2 DEF IInv, Ends, Visit
  <2> QED
    BY <2>7, <2>8, <2>9, <2>10, <2>11, <2>12 DEF IInv
<1> QED
  BY <1>7, <1>8

-----------------------------------------------------------------------------

\* Every step keeps the invariant.
THEOREM FlattenNextIInv == IInv /\ [FlattenNext]_flattenVars => IInv'
<1> SUFFICES ASSUME IInv, [FlattenNext]_flattenVars PROVE IInv'
  OBVIOUS
<1>1. ASSUME NEW t \in Tree, FlattenCall(t) PROVE IInv'
  BY <1>1, FlattenCallIInv
<1>2. ASSUME NEW n \in left, Visit(n) PROVE IInv'
  BY <1>2, VisitIInv
<1>3. CASE Truncate
  BY <1>3, TruncateIInv
<1>4. CASE Dequeue
  BY <1>4, DequeueIInv
<1>5. CASE Listed
  BY <1>5, ListedIInv
<1>6. CASE UNCHANGED flattenVars
  <2> USE <1>6 DEF flattenVars, IInv
  <2>1. FlattenTypeOK' /\ Ends'
    BY DEF FlattenTypeOK, Ends
  <2>2. Walk'
    BY DEF Walk, Hangs, Queued
  <2>3. Fresh' /\ Ordered'
    BY DEF Fresh, Reached, Ordered
  <2>4. Pending'
    BY DEF Pending, Reached, Queued
  <2> QED
    BY <2>1, <2>2, <2>3, <2>4
<1> QED
  BY <1>1, <1>2, <1>3, <1>4, <1>5, <1>6 DEF FlattenNext, FlattenStep

\* The invariant holds of every walk.
THEOREM FlattenInvariant == FlattenSpec => []IInv
<1>1. FlattenInit => IInv
  BY FlattenInitIInv
<1>2. IInv /\ [FlattenNext]_flattenVars => IInv'
  BY FlattenNextIInv
<1> QED
  BY <1>1, <1>2, PTL DEF FlattenSpec

\* The walk keeps to its types, whatever the tree.
THEOREM FlattenTypeCorrect == FlattenSpec => []FlattenTypeOK
<1>1. IInv => FlattenTypeOK
  BY DEF IInv
<1> QED
  BY <1>1, FlattenInvariant, PTL

\* Every item of the list hangs from the root or from an item before it, one
\* level up; none is there twice, and the limit is kept.
THEOREM FlattenItemsHang == FlattenSpec => []ItemsHang
<1>1. IInv => ItemsHang
  BY DEF IInv, Walk, Fresh, Ordered, Ends, ItemsHang
<1> QED
  BY <1>1, FlattenInvariant, PTL

\* A list that is not cut short has every versioned child of its items.
THEOREM FlattenComplete == FlattenSpec => []ListIsComplete
<1>1. IInv => ListIsComplete
  BY DEF IInv, Pending, Ends, Queued, ListIsComplete
<1> QED
  BY <1>1, FlattenInvariant, PTL

\* A list is cut short only at the limit, with a child left that is not in it.
THEOREM FlattenTruncates == FlattenSpec => []TruncatedOnlyAtLimit
<1>1. IInv => TruncatedOnlyAtLimit
  BY DEF IInv, Fresh, Ends, TruncatedOnlyAtLimit
<1> QED
  BY <1>1, FlattenInvariant, PTL

-----------------------------------------------------------------------------
(* What a package hangs from. *)

\* What Above finds is the last of those it looks for, or 0.
LEMMA AboveIs ==
  ASSUME NEW among \in SUBSET Nat, NEW level, NEW i \in Nat
  PROVE  LET m == Above(among, level, i)
         IN  /\ m = 0 \/ (m \in among /\ m < i /\ level[m] + 1 = level[i])
             /\ \A j \in among : j < i /\ level[j] + 1 = level[i] => j <= m
<1> DEFINE T == {0} \cup {j \in among : j < i /\ level[j] + 1 = level[i]}
<1>1. T \in SUBSET (0..i) /\ T # {}
  <2>1. \A j \in among : j < i => j \in 0..i
    OBVIOUS
  <2>2. 0 \in 0..i
    OBVIOUS
  <2> QED BY <2>1, <2>2, Zenon
<1>2. Max(T) \in T /\ \A k \in T : Max(T) >= k
  <2> HIDE DEF T
  <2> QED BY <1>1, GreatestNatural
<1>3. Above(among, level, i) = Max(T)
  BY Zenon DEF Above
<1>4. Max(T) \in Nat
  BY <1>1, <1>2
<1> HIDE DEF T
<1>5. Max(T) = 0 \/ (Max(T) \in among /\ Max(T) < i /\ level[Max(T)] + 1 = level[i])
  BY <1>2, Zenon DEF T
<1>6. \A j \in among : j < i /\ level[j] + 1 = level[i] => j <= Max(T)
  <2> SUFFICES ASSUME NEW j \in among, j < i, level[j] + 1 = level[i] PROVE j <= Max(T)
    BY Zenon
  <2>1. j \in T
    BY Zenon DEF T
  <2> QED BY <1>2, <1>4, <2>1
<1> QED BY <1>3, <1>5, <1>6, Zenon

\* What is installed is a forest, and its packages are entries of the tree.
Grown ==
  /\ forest \in Seq(Package)
  /\ DOMAIN forest \subseteq Node
  /\ Forest(forest)

\* Short for the depth at which a package is installed.
Depth(i) == forest[i].depth

\* Packages are at the positions 1 to Len(forest); the first is at the top, and no
\* package is more than one level below the one before it.
LEMMA PositionIs ==
  ASSUME Grown
  PROVE  /\ Len(forest) \in Nat /\ DOMAIN forest = 1..Len(forest)
         /\ \A i \in DOMAIN forest : Depth(i) \in Nat /\ Levels(forest)[i] = Depth(i)
         /\ Len(forest) > 0 => Depth(1) = 0
         /\ \A i \in DOMAIN forest : i # 1 => Depth(i) <= Depth(i - 1) + 1
<1>1. forest \in Seq(Package) /\ Forest(forest)
  BY DEF Grown
<1>2. \A i \in 1..Len(forest) : forest[i] \in Package
  BY <1>1
<1>3. \A i \in 1..Len(forest) : Depth(i) \in Nat
  BY <1>2 DEF Package, Depth
<1>4. Len(forest) \in Nat /\ DOMAIN forest = 1..Len(forest)
  BY <1>1
<1>5. \A i \in DOMAIN forest : Levels(forest)[i] = Depth(i)
  BY Zenon DEF Levels, Depth
<1>6. \A i \in DOMAIN forest : Depth(i) <= (IF i = 1 THEN 0 ELSE Depth(i - 1) + 1)
  BY <1>1, Zenon DEF Forest, Depth
<1>7. ASSUME Len(forest) > 0 PROVE Depth(1) = 0
  <2>1. 1 \in 1..Len(forest)
    BY <1>4, <1>7
  <2>2. Depth(1) <= 0
    BY <1>4, <1>6, <2>1, Zenon
  <2> QED BY <1>3, <2>1, <2>2
<1> QED BY <1>3, <1>4, <1>5, <1>6, <1>7, Zenon

\* Of the packages before i that are less deep, the last is what i hangs from.
LEMMA LastLessDeep ==
  ASSUME Grown, NEW i \in DOMAIN forest, Depth(i) > 0
  PROVE  \E k \in 1..i - 1 : /\ Depth(k) + 1 = Depth(i)
                             /\ \A j \in k + 1..i : Depth(j) >= Depth(i)
<1> DEFINE T == {k \in 0..i : k \in 1..i - 1 /\ Depth(k) < Depth(i)}
<1>1. /\ i \in 1..Len(forest) /\ Len(forest) \in Nat /\ DOMAIN forest = 1..Len(forest)
      /\ \A k \in 1..Len(forest) : Depth(k) \in Nat
      /\ \A k \in 1..Len(forest) : k # 1 => Depth(k) <= Depth(k - 1) + 1
  BY PositionIs
<1>2. 1 \in T
  <2>1. Depth(1) = 0
    BY <1>1, PositionIs
  <2>2. i # 1
    BY <2>1
  <2> QED BY <1>1, <2>1, <2>2
<1>3. PICK k \in T : \A j \in T : k >= j
  <2>1. T \in SUBSET (0..i) /\ T # {} /\ i \in Nat
    BY <1>1, <1>2
  <2> HIDE DEF T
  <2> QED BY <2>1, GreatestNatural
<1>4. k \in 1..i - 1 /\ Depth(k) < Depth(i)
  OBVIOUS
<1>5. \A j \in k + 1..i : Depth(j) >= Depth(i)
  <2> SUFFICES ASSUME NEW j \in k + 1..i, ~(Depth(j) >= Depth(i)) PROVE FALSE
    BY Zenon
  <2>1. j \in 1..Len(forest) /\ j # i /\ j > k
    BY <1>1, <1>4
  <2>2. j \in T
    BY <1>1, <2>1
  <2> HIDE DEF T
  <2> QED BY <1>1, <1>3, <1>4, <2>1, <2>2
<1>6. Depth(k) + 1 = Depth(i)
  <2>1. k + 1 \in k + 1..i /\ k + 1 \in 1..Len(forest) /\ k + 1 # 1 /\ (k + 1) - 1 = k
    BY <1>1, <1>4
  <2>2. Depth(k + 1) >= Depth(i) /\ Depth(k + 1) <= Depth(k) + 1
    <3>1. Depth(k + 1) >= Depth(i)
      BY <1>5, <2>1, Zenon
    <3>2. Depth(k + 1) <= Depth((k + 1) - 1) + 1
      BY <1>1, <2>1, Zenon
    <3> QED BY <2>1, <3>1, <3>2, Zenon
  <2>3. Depth(k) \in Nat /\ Depth(k + 1) \in Nat /\ Depth(i) \in Nat
    BY <1>1, <1>4, <2>1
  <2> QED BY <1>4, <2>2, <2>3
<1> QED BY <1>4, <1>5, <1>6

\* What a package hangs from: nothing at the top, or a package before it, one
\* level up, with nothing less deep than itself in between.
LEMMA UpIs ==
  ASSUME Grown, NEW i \in DOMAIN forest
  PROVE  /\ Up(forest, i) \in Nat
         /\ Up(forest, i) = 0 <=> Depth(i) = 0
         /\ Up(forest, i) # 0 =>
              /\ Up(forest, i) \in DOMAIN forest /\ Up(forest, i) < i
              /\ Depth(Up(forest, i)) + 1 = Depth(i)
              /\ \A j \in Up(forest, i) + 1..i : Depth(j) >= Depth(i)
<1> DEFINE m == Up(forest, i)
<1>1. /\ i \in Nat /\ DOMAIN forest \in SUBSET Nat
      /\ Len(forest) \in Nat /\ DOMAIN forest = 1..Len(forest)
      /\ \A j \in DOMAIN forest : Depth(j) \in Nat /\ Levels(forest)[j] = Depth(j)
  BY PositionIs
<1>2. /\ m = 0 \/ (m \in DOMAIN forest /\ m < i /\ Depth(m) + 1 = Depth(i))
      /\ \A j \in DOMAIN forest : j < i /\ Depth(j) + 1 = Depth(i) => j <= m
  <2>1. /\ m = 0 \/ (m \in DOMAIN forest /\ m < i /\ Levels(forest)[m] + 1 = Levels(forest)[i])
        /\ \A j \in DOMAIN forest : j < i /\ Levels(forest)[j] + 1 = Levels(forest)[i] => j <= m
    BY <1>1, AboveIs, Zenon DEF Up
  <2> HIDE DEF m
  <2> QED BY <1>1, <2>1, Zenon
<1> HIDE DEF m
<1>3. m \in Nat
  BY <1>1, <1>2
<1>4. CASE Depth(i) = 0
  <2>1. m = 0
    <3>1. m \in DOMAIN forest => Depth(m) + 1 # 0
      BY <1>1
    <3> QED BY <1>2, <1>4, <3>1, Zenon
  <2> QED BY <1>3, <1>4, <2>1, Zenon DEF m
<1>5. CASE Depth(i) # 0
  <2>1. PICK k \in 1..i - 1 : /\ Depth(k) + 1 = Depth(i)
                              /\ \A j \in k + 1..i : Depth(j) >= Depth(i)
    <3>1. Depth(i) > 0
      BY <1>1, <1>5
    <3> QED BY <3>1, LastLessDeep, Zenon
  <2>2. k \in DOMAIN forest /\ k < i /\ k > 0 /\ k \in Nat
    BY <1>1
  <2>3. k <= m
    BY <1>2, <2>1, <2>2, Zenon
  <2>4. m # 0 /\ m \in DOMAIN forest /\ m < i /\ Depth(m) + 1 = Depth(i)
    <3>1. m # 0
      BY <1>3, <2>2, <2>3
    <3> QED BY <1>2, <3>1, Zenon
  <2>5. \A j \in m + 1..i : Depth(j) >= Depth(i)
    <3>1. \A j \in m + 1..i : j \in k + 1..i
      BY <1>1, <1>3, <2>2, <2>3
    <3> QED BY <2>1, <3>1, Zenon
  <2> QED BY <1>3, <1>5, <2>4, <2>5, Zenon DEF m
<1> QED BY <1>4, <1>5, Zenon

\* The packages above another: the one it hangs from, and those above that.
LEMMA AncestorsAre ==
  ASSUME Grown, NEW i \in DOMAIN forest
  PROVE  /\ Up(forest, i) = 0 => Ancestors(i) = {}
         /\ Up(forest, i) # 0 =>
              Ancestors(i) = {Up(forest, i)} \cup Ancestors(Up(forest, i))
<1> DEFINE m == Up(forest, i)
<1>1. /\ Len(forest) \in Nat /\ DOMAIN forest = 1..Len(forest)
      /\ \A j \in 1..Len(forest) : Depth(j) \in Nat
  BY PositionIs
<1>2. /\ m \in Nat /\ (m = 0 <=> Depth(i) = 0)
      /\ m # 0 => /\ m \in DOMAIN forest /\ m < i /\ Depth(m) + 1 = Depth(i)
                  /\ \A j \in m + 1..i : Depth(j) >= Depth(i)
  BY UpIs, Zenon
<1> HIDE DEF m
<1>3. \A a : a \in DOMAIN forest =>
        \A j : j \in Ancestors(a) <=>
                 j \in 1..a - 1 /\ \A k \in j + 1..a : Depth(k) > Depth(j)
  BY Zenon DEF Ancestors, Depth
<1>4. CASE m = 0
  <2>1. \A j \in 1..i - 1 : i \in j + 1..i /\ ~(Depth(i) > Depth(j))
    BY <1>1, <1>2, <1>4
  <2>2. Ancestors(i) = {}
    BY <1>3, <2>1, Zenon
  <2> QED BY <1>4, <2>2, Zenon DEF m
<1>5. CASE m # 0
  <2>1. /\ m \in 1..Len(forest) /\ i \in 1..Len(forest) /\ m < i /\ Depth(m) + 1 = Depth(i)
        /\ \A j \in m + 1..i : Depth(j) >= Depth(i)
    BY <1>1, <1>2, <1>5
  <2>2. m \in Ancestors(i)
    <3>1. m \in 1..i - 1 /\ \A k \in m + 1..i : k \in 1..Len(forest)
      BY <1>1, <2>1
    <3>2. \A k \in m + 1..i : Depth(k) > Depth(m)
      <4> SUFFICES ASSUME NEW k \in m + 1..i PROVE Depth(k) > Depth(m)
        BY Zenon
      <4>1. Depth(k) >= Depth(i) /\ Depth(k) \in Nat /\ Depth(i) \in Nat /\ Depth(m) \in Nat
        BY <1>1, <2>1, <3>1, Zenon
      <4> QED BY <2>1, <4>1
    <3> QED BY <1>3, <3>1, <3>2, Zenon
  <2>3. ASSUME NEW j \in Ancestors(m) PROVE j \in Ancestors(i)
    <3>1. j \in 1..m - 1 /\ \A k \in j + 1..m : Depth(k) > Depth(j)
      BY <1>2, <1>3, <1>5, <2>3, Zenon
    <3>2. j \in 1..i - 1 /\ m \in j + 1..m /\ j \in 1..Len(forest)
      BY <1>1, <2>1, <3>1
    <3>3. ASSUME NEW k \in j + 1..i PROVE Depth(k) > Depth(j)
      <4>1. CASE k \in j + 1..m
        BY <3>1, <4>1, Zenon
      <4>2. CASE k \notin j + 1..m
        <5>1. k \in m + 1..i /\ k \in 1..Len(forest)
          BY <1>1, <2>1, <3>1, <3>3, <4>2
        <5>2. Depth(k) >= Depth(i) /\ Depth(m) > Depth(j)
          BY <2>1, <3>1, <3>2, <5>1, Zenon
        <5>3. Depth(k) \in Nat /\ Depth(i) \in Nat /\ Depth(m) \in Nat /\ Depth(j) \in Nat
          BY <1>1, <2>1, <3>2, <5>1, Zenon
        <5> QED BY <2>1, <5>2, <5>3
      <4> QED BY <4>1, <4>2, Zenon
    <3> QED BY <1>3, <3>2, <3>3, Zenon
  <2>4. ASSUME NEW j \in Ancestors(i), j # m PROVE j \in Ancestors(m)
    <3>1. j \in 1..i - 1 /\ \A k \in j + 1..i : Depth(k) > Depth(j)
      BY <1>3, Zenon
    <3>2. i \in j + 1..i /\ j \in 1..Len(forest)
      BY <1>1, <2>1, <3>1
    <3>3. Depth(i) > Depth(j) /\ Depth(i) \in Nat /\ Depth(j) \in Nat
      BY <1>1, <2>1, <3>1, <3>2, Zenon
    <3>4. ~(j \in m + 1..i)
      <4>1. ~(Depth(j) >= Depth(i))
        BY <3>3
      <4> QED BY <2>1, <4>1, Zenon
    <3>5. j \in 1..m - 1 /\ \A k \in j + 1..m : k \in j + 1..i
      BY <1>1, <2>1, <2>4, <3>1, <3>4
    <3> QED BY <1>2, <1>3, <1>5, <3>1, <3>5, Zenon
  <2>5. Ancestors(i) = {m} \cup Ancestors(m)
    BY <2>2, <2>3, <2>4, Zenon
  <2> QED BY <1>5, <2>5, Zenon DEF m
<1> QED BY <1>4, <1>5, Zenon

-----------------------------------------------------------------------------
(* The walk over a tree whose entries hang from earlier ones. *)

\* What is kept of the forest, each under its parent.
HangFrom(kept, parent) ==
  /\ kept \in SUBSET Node
  /\ \A n \in kept : parent[n] \in Node \cup {Root} /\ parent[n] < n
  /\ \A m \in Node \cup {Root} : tree.kids[m] = {n \in kept : parent[n] = m}

\* Where an item of the list is in the tree.
LEMMA ItemIs ==
  ASSUME IInv, NEW k \in DOMAIN nodes
  PROVE  /\ k \in Nat /\ nodes[k].node \in Node /\ nodes[k].depth \in Nat
         /\ tree.versioned[nodes[k].node]
         /\ \/ nodes[k].node \in tree.kids[Root] /\ nodes[k].depth = 0
            \/ \E j \in DOMAIN nodes : /\ j < k
                                       /\ nodes[k].node \in tree.kids[nodes[j].node]
                                       /\ nodes[k].depth = nodes[j].depth + 1
<1>1. nodes \in Seq(Item)
  BY DEF IInv, FlattenTypeOK
<1>2. /\ Len(nodes) \in Nat /\ DOMAIN nodes = 1..Len(nodes)
      /\ nodes[k].node \in Node /\ nodes[k].depth \in Nat
  BY <1>1, ItemSequence
<1>3. /\ tree.versioned[nodes[k].node]
      /\ \/ nodes[k].node \in tree.kids[Root] /\ nodes[k].depth = 0
         \/ \E j \in 1..k-1 : /\ nodes[k].node \in tree.kids[nodes[j].node]
                              /\ nodes[k].depth = nodes[j].depth + 1
  BY Zenon DEF IInv, Walk
<1>4. \A j \in 1..k-1 : j \in DOMAIN nodes /\ j < k
  BY <1>2
<1>5. k \in Nat
  BY <1>2
<1> QED BY <1>2, <1>3, <1>4, <1>5, Zenon

\* A list that is complete has what is kept, has a version and hangs from what
\* is on the list.
LEMMA ListedAre ==
  ASSUME IInv, ListIsComplete, result = "listed", NodeAssumption, FlattenAssumption,
         NEW kept, NEW parent, HangFrom(kept, parent),
         NEW S \in SUBSET Node,
         \A n \in Node : n \in S <=> /\ n \in kept /\ tree.versioned[n]
                                     /\ parent[n] = Root \/ parent[n] \in S
  PROVE  Reached = S
<1>1. Root = 0 /\ Node \in SUBSET Nat /\ Root \notin Node
  BY FS_CardinalityType DEF NodeAssumption, FlattenAssumption
<1>2. /\ kept \in SUBSET Node
      /\ \A n \in kept : parent[n] \in Node \cup {Root} /\ parent[n] < n
      /\ \A m \in Node \cup {Root} : \A n : n \in tree.kids[m] <=> n \in kept /\ parent[n] = m
  <2>1. ASSUME NEW m \in Node \cup {Root}, NEW n
        PROVE  n \in tree.kids[m] <=> n \in kept /\ parent[n] = m
    <3>1. tree.kids[m] = {x \in kept : parent[x] = m}
      BY Zenon DEF HangFrom
    <3> QED BY <3>1, Zenon
  <2> QED BY <2>1, Zenon DEF HangFrom
<1>3. Reached \subseteq S
  <2> DEFINE T == {k \in DOMAIN nodes : nodes[k].node \notin S}
  <2>1. SUFFICES ASSUME T # {} PROVE FALSE
    <3>1. ASSUME NEW n \in Reached, n \notin S PROVE T # {}
      <4>1. PICK k \in DOMAIN nodes : nodes[k].node = n
        BY Zenon DEF Reached
      <4>2. k \in T
        BY <3>1, <4>1, Zenon
      <4> QED BY <4>2, Zenon
    <3> QED BY <3>1, Zenon
  <2>2. T \in SUBSET Nat
    BY ItemIs, Zenon
  <2>3. PICK k \in T : \A j \in T : k <= j
    BY <2>1, <2>2, LeastNatural, Zenon
  <2> DEFINE n == nodes[k].node
  <2>4. k \in DOMAIN nodes /\ n \notin S /\ k \in Nat
    BY <2>2, Zenon
  <2>5. n \in Node /\ tree.versioned[n]
    BY <2>4, ItemIs, Zenon
  <2>6. CASE n \in tree.kids[Root]
    <3>1. n \in kept /\ parent[n] = Root
      BY <1>2, <2>6, Zenon
    <3> QED BY <2>4, <2>5, <3>1, Zenon
  <2>7. ASSUME NEW j \in DOMAIN nodes, j < k, n \in tree.kids[nodes[j].node] PROVE FALSE
    <3>1. nodes[j].node \in Node /\ j \in Nat
      BY ItemIs, Zenon
    <3>2. j \notin T
      <4>1. ~(k <= j)
        BY <2>4, <2>7, <3>1
      <4> QED BY <2>3, <4>1, Zenon
    <3>3. nodes[j].node \in S
      BY <3>2, Zenon
    <3>4. n \in kept /\ parent[n] = nodes[j].node
      BY <1>2, <2>7, <3>1, Zenon
    <3> QED BY <2>4, <2>5, <3>3, <3>4, Zenon
  <2> QED BY <2>4, <2>6, <2>7, ItemIs, Zenon
<1>4. S \subseteq Reached
  <2> DEFINE T == S \ Reached
  <2>1. SUFFICES ASSUME T # {} PROVE FALSE
    BY Zenon
  <2>2. T \in SUBSET Nat
    BY <1>1, Zenon
  <2>3. PICK n \in T : \A j \in T : n <= j
    BY <2>1, <2>2, LeastNatural, Zenon
  <2>4. /\ n \in Node /\ n \notin Reached /\ n \in kept /\ tree.versioned[n]
        /\ parent[n] = Root \/ parent[n] \in S
    BY Zenon
  <2>5. parent[n] \in Reached \cup {Root}
    <3>1. ASSUME parent[n] \in S PROVE parent[n] \in Reached
      <4>1. parent[n] < n /\ parent[n] \in Nat /\ n \in Nat
        BY <1>1, <1>2, <2>4, <3>1, Zenon
      <4>2. ~(n <= parent[n])
        BY <4>1
      <4> QED BY <2>3, <3>1, <4>2, Zenon
    <3> QED BY <2>4, <3>1, Zenon
  <2>6. parent[n] \in Node \cup {Root}
    BY <1>2, <2>4, Zenon
  <2>7. n \in tree.kids[parent[n]]
    BY <1>2, <2>4, <2>6, Zenon
  <2> QED BY <2>4, <2>5, <2>7, Zenon DEF ListIsComplete
<1> QED BY <1>3, <1>4, Zenon

\* When the tree has each entry one below what it hangs from, an item is listed at
\* most that deep; exactly so when what hangs from the root is at 0.
LEMMA ListedDepth ==
  ASSUME IInv, NEW D, NEW kept \in SUBSET Node,
         \A n \in kept : D[n] \in Nat,
         \A m \in Node \cup {Root} : tree.kids[m] \subseteq kept,
         \A m \in kept : \A n \in tree.kids[m] : D[n] = D[m] + 1
  PROVE  \A k \in DOMAIN nodes :
           /\ nodes[k].node \in kept
           /\ nodes[k].depth <= D[nodes[k].node]
           /\ (\A n \in tree.kids[Root] : D[n] = 0) => nodes[k].depth = D[nodes[k].node]
<1> DEFINE Right(k) ==
      /\ nodes[k].node \in kept
      /\ nodes[k].depth <= D[nodes[k].node]
      /\ (\A n \in tree.kids[Root] : D[n] = 0) => nodes[k].depth = D[nodes[k].node]
    T == {k \in DOMAIN nodes : ~Right(k)}
<1>1. SUFFICES ASSUME T # {} PROVE FALSE
  BY Zenon
<1>2. T \in SUBSET Nat
  BY ItemIs, Zenon
<1>3. PICK k \in T : \A j \in T : k <= j
  BY <1>1, <1>2, LeastNatural, Zenon
<1> DEFINE n == nodes[k].node
<1>4. k \in DOMAIN nodes /\ ~Right(k) /\ k \in Nat
  BY <1>2, Zenon
<1>5. n \in kept
  <2>1. \E m \in Node \cup {Root} : n \in tree.kids[m]
    BY <1>4, ItemIs, Zenon
  <2> QED BY <2>1, Zenon
<1>6. D[n] \in Nat /\ nodes[k].depth \in Nat
  BY <1>4, <1>5, ItemIs, Zenon
<1>7. ASSUME n \in tree.kids[Root], nodes[k].depth = 0 PROVE FALSE
  <2>1. nodes[k].depth <= D[n]
    BY <1>6, <1>7
  <2>2. D[n] = 0 => nodes[k].depth = D[n]
    BY <1>7, Zenon
  <2> QED BY <1>4, <1>5, <1>7, <2>1, <2>2, Zenon
<1>8. ASSUME NEW j \in DOMAIN nodes, j < k, n \in tree.kids[nodes[j].node],
             nodes[k].depth = nodes[j].depth + 1
      PROVE  FALSE
  <2>1. j \in Nat /\ nodes[j].depth \in Nat
    BY ItemIs, Zenon
  <2>2. Right(j)
    <3>1. ~(k <= j)
      BY <1>4, <1>8, <2>1
    <3> QED BY <1>3, <3>1, Zenon
  <2>3. D[n] = D[nodes[j].node] + 1 /\ D[nodes[j].node] \in Nat
    BY <1>8, <2>2, Zenon
  <2>4. nodes[k].depth <= D[n]
    BY <1>8, <2>1, <2>2, <2>3
  <2>5. nodes[j].depth = D[nodes[j].node] => nodes[k].depth = D[n]
    BY <1>8, <2>3, Zenon
  <2> QED BY <1>4, <1>5, <2>2, <2>4, <2>5, Zenon
<1> QED BY <1>4, <1>7, <1>8, ItemIs, Zenon

-----------------------------------------------------------------------------
(* The trees of the adapters. *)

\* The tree that an adapter reads when k packages are shown.
TreeRead(a, k) ==
  CASE a = "npm" -> NpmTree(Shown(k))
    [] a = "pnpm" -> PnpmTree(Shown(k))
    [] a = "bun" -> BunTree(Shown(k))
    [] a = "yarn info" -> YarnInfoTree(Shown(k))

\* The tree that is walked is the one that the adapter read, and that of all
\* packages when nothing is warned of.
TreeIsRead ==
  /\ pm \in {"none", "failed", "npm", "pnpm", "bun", "yarn", "yarn info"}
  /\ result = "idle" <=> pm \in {"none", "failed"}
  /\ pm \in {"npm", "pnpm", "bun", "yarn info"} =>
       \E k \in 0..Len(forest) : tree = TreeRead(pm, k) /\ (~warned => k = Len(forest))
  /\ pm = "yarn" =>
       \E kept \in SUBSET InLockfile :
         OnePerName(kept) /\ tree = TreeOf(kept, LAMBDA i : Root)

\* What a tree of packages is.
LEMMA NpmTreeIs ==
  ASSUME NEW shown
  PROVE  /\ \A m \in Node \cup {Root} :
              NpmTree(shown).kids[m] = {i \in shown : Up(forest, i) = m}
         /\ \A n \in Node : NpmTree(shown).versioned[n] <=> n \in DOMAIN forest /\ Installed(n)
BY Zenon DEF NpmTree, TreeOf, Installed

\* That of pnpm has only the packages with a valid name.
LEMMA PnpmTreeIs ==
  ASSUME NEW shown
  PROVE  /\ \A m \in Node \cup {Root} :
              PnpmTree(shown).kids[m] = {i \in {j \in shown : Valid(j)} : Up(forest, i) = m}
         /\ \A n \in Node : PnpmTree(shown).versioned[n] <=> n \in DOMAIN forest /\ Installed(n)
BY Zenon DEF PnpmTree, TreeOf, Installed

\* The packages shown are among those that are installed.
LEMMA ShownAre ==
  ASSUME Grown, NEW k \in 0..Len(forest)
  PROVE  Shown(k) \subseteq DOMAIN forest
BY PositionIs DEF Shown

\* Every adapter reads a tree.
LEMMA ReadIsTree ==
  ASSUME Grown, NEW k \in 0..Len(forest)
  PROVE  /\ NpmTree(Shown(k)) \in Tree /\ PnpmTree(Shown(k)) \in Tree
         /\ BunTree(Shown(k)) \in Tree /\ YarnInfoTree(Shown(k)) \in Tree
<1>1. Shown(k) \subseteq Node
  BY ShownAre DEF Grown
<1>2. NpmTree(Shown(k)) \in Tree
  BY <1>1 DEF NpmTree, TreeOf, Tree
<1>3. PnpmTree(Shown(k)) \in Tree
  BY <1>1 DEF PnpmTree, TreeOf, Tree
<1>4. BunTree(Shown(k)) \in Tree
  BY <1>1 DEF BunTree, PmLines, TreeOf, Tree
<1>5. YarnInfoTree(Shown(k)) \in Tree
  <2> DEFINE shown == Shown(k)
             children == {i \in shown : forest[i].depth = 1 /\ Valid(i)}
             replaced == {i \in children :
                            \E j \in children : i < j /\ forest[j].name = forest[i].name}
             below == {i \in shown : forest[i].depth > 1}
             kept == (children \ replaced) \cup below
             P(i) == IF forest[i].depth = 1 THEN Root ELSE Up(forest, i)
  <2>1. YarnInfoTree(shown) = TreeOf(kept, P)
    BY Zenon DEF YarnInfoTree
  <2>2. kept \subseteq Node
    BY <1>1, Zenon
  <2> HIDE DEF kept, P
  <2>3. TreeOf(kept, P) \in Tree
    BY <2>2 DEF TreeOf, Tree
  <2> QED BY <2>1, <2>3, Zenon
<1> QED BY <1>2, <1>3, <1>4, <1>5

\* So is the one of yarn.
LEMMA KeptIsTree ==
  ASSUME Grown, NEW kept \in SUBSET InLockfile
  PROVE  TreeOf(kept, LAMBDA i : Root) \in Tree
<1>1. kept \subseteq Node
  BY DEF InLockfile, Grown
<1> QED BY <1>1 DEF TreeOf, Tree

\* What is installed does not change.
LEMMA StepGrown ==
  ASSUME Grown, [Next]_treeVars PROVE Grown'
<1>1. forest' = forest
  BY Zenon DEF Next, treeVars, GetTreeNpm, GetTreePnpm, GetTreeBun, GetTreeYarnInfo, GetTreeYarn,
       GetTree, GetTreeFails
<1>2. Forest(forest)' <=> Forest(forest)
  BY <1>1, Zenon
<1> QED BY <1>1, <1>2, Zenon DEF Grown

\* Reading a tree is a call of Flatten, and nothing else than Flatten's own steps
\* changes what it walks over.
LEMMA StepImplements ==
  ASSUME Grown, [Next]_treeVars PROVE [FlattenNext]_flattenVars
<1>1. ASSUME NEW a, NEW t \in Tree, GetTree(a, t) PROVE FlattenNext
  BY <1>1, Zenon DEF GetTree, FlattenNext
<1>2. ASSUME NEW k \in 0..Len(forest),
             GetTreeNpm(k) \/ GetTreePnpm(k) \/ GetTreeBun(k) \/ GetTreeYarnInfo(k)
      PROVE  FlattenNext
  BY <1>1, <1>2, ReadIsTree, Zenon DEF GetTreeNpm, GetTreePnpm, GetTreeBun, GetTreeYarnInfo
<1>3. CASE GetTreeYarn
  BY <1>1, <1>3, KeptIsTree, Zenon DEF GetTreeYarn
<1>4. CASE GetTreeFails
  BY <1>4, Zenon DEF GetTreeFails
<1>5. CASE FlattenStep
  BY <1>5, Zenon DEF FlattenNext
<1>6. CASE UNCHANGED treeVars
  BY <1>6, Zenon DEF treeVars
<1> QED BY <1>2, <1>3, <1>4, <1>5, <1>6, Zenon DEF Next

\* A forest that does not change is read in the same way.
LEMMA SameTree ==
  ASSUME forest' = forest
  PROVE  /\ \A a, k : TreeRead(a, k)' = TreeRead(a, k)
         /\ InLockfile' = InLockfile
         /\ \A kept : /\ OnePerName(kept)' <=> OnePerName(kept)
                      /\ TreeOf(kept, LAMBDA i : Root)' = TreeOf(kept, LAMBDA i : Root)
<1>1. InLockfile' = InLockfile
  BY Zenon DEF InLockfile, Valid
<1>2. ASSUME NEW kept
      PROVE  /\ OnePerName(kept)' <=> OnePerName(kept)
             /\ TreeOf(kept, LAMBDA i : Root)' = TreeOf(kept, LAMBDA i : Root)
  BY <1>1, ZenonT(30) DEF OnePerName, TreeOf
<1>3. ASSUME NEW k
      PROVE  /\ NpmTree(Shown(k))' = NpmTree(Shown(k))
             /\ PnpmTree(Shown(k))' = PnpmTree(Shown(k))
             /\ BunTree(Shown(k))' = BunTree(Shown(k))
             /\ YarnInfoTree(Shown(k))' = YarnInfoTree(Shown(k))
  <2>1. NpmTree(Shown(k))' = NpmTree(Shown(k))
    BY Zenon DEF Shown, NpmTree, TreeOf, Up, Levels
  <2>2. PnpmTree(Shown(k))' = PnpmTree(Shown(k))
    BY Zenon DEF Shown, PnpmTree, TreeOf, Up, Levels, Valid
  <2>3. BunTree(Shown(k))' = BunTree(Shown(k))
    <3>1. countTreeDepth' = countTreeDepth
      BY Zenon DEF countTreeDepth, HasLaterSibling, Ancestors
    <3>2. PmLines(Shown(k))' = PmLines(Shown(k))
      BY Zenon DEF Shown, PmLines, Valid
    <3>3. \A i : BunParent(Shown(k), i)' = BunParent(Shown(k), i)
      BY <3>1, <3>2, Zenon DEF BunParent
    <3> DEFINE lines == PmLines(Shown(k))
               replaced == {i \in lines : \E j \in lines :
                              /\ j < i
                              /\ forest[j].name = forest[i].name
                              /\ BunParent(Shown(k), j) = BunParent(Shown(k), i)}
    <3>4. lines' = lines
      BY <3>2, Zenon
    <3>5. replaced' = replaced
      <4>1. \A i : i \in replaced' <=> i \in replaced
        BY <3>2, <3>3, Zenon
      <4> QED BY <4>1, Zenon
    <3> HIDE DEF lines, replaced
    <3>6. \A m : {i \in (lines \ replaced) : BunParent(Shown(k), i) = m}'
                  = {i \in (lines \ replaced) : BunParent(Shown(k), i) = m}
      BY <3>3, <3>4, <3>5, Zenon
    <3>7. TreeOf(lines \ replaced, LAMBDA i : BunParent(Shown(k), i))'
            = TreeOf(lines \ replaced, LAMBDA i : BunParent(Shown(k), i))
      BY <3>6, Zenon DEF TreeOf
    <3> QED BY <3>7, Zenon DEF BunTree, lines, replaced
  <2>4. YarnInfoTree(Shown(k))' = YarnInfoTree(Shown(k))
    BY Zenon DEF Shown, YarnInfoTree, TreeOf, Up, Levels, Valid
  <2> QED BY <2>1, <2>2, <2>3, <2>4, Zenon
<1> QED BY <1>1, <1>2, <1>3, Zenon DEF TreeRead

\* The tree that is walked stays the one that was read.
LEMMA StepTreeIsRead ==
  ASSUME Grown, TreeIsRead, [Next]_treeVars PROVE TreeIsRead'
<1> DEFINE Shows(a) ==
      \E k \in 0..Len(forest) : tree = TreeRead(a, k) /\ (~warned => k = Len(forest))
<1>1. forest' = forest
  BY Zenon DEF Next, treeVars, GetTreeNpm, GetTreePnpm, GetTreeBun, GetTreeYarnInfo, GetTreeYarn,
       GetTree, GetTreeFails
<1>2. ASSUME NEW a \in {"npm", "pnpm", "bun", "yarn info"}, NEW k \in 0..Len(forest),
             GetTree(a, TreeRead(a, k)), ExitsWith(k)
      PROVE  TreeIsRead'
  <2>1. pm' = a /\ tree' = TreeRead(a, k) /\ result' # "idle"
    BY <1>2 DEF GetTree, FlattenCall
  <2>2. ~warned' => k = Len(forest)
    BY <1>2 DEF ExitsWith
  <2>3. tree' = TreeRead(a, k)'
    BY <1>1, <2>1, SameTree, Zenon
  <2>4. k \in 0..Len(forest') /\ (~warned' => k = Len(forest'))
    BY <1>1, <2>2, Zenon
  <2>5. pm' # "none" /\ pm' # "failed" /\ pm' # "yarn"
    BY <2>1
  <2> QED BY <2>1, <2>3, <2>4, <2>5, Zenon DEF TreeIsRead
<1>3. ASSUME NEW k \in 0..Len(forest),
             GetTreeNpm(k) \/ GetTreePnpm(k) \/ GetTreeBun(k) \/ GetTreeYarnInfo(k)
      PROVE  TreeIsRead'
  <2>1. /\ TreeRead("npm", k) = NpmTree(Shown(k)) /\ TreeRead("pnpm", k) = PnpmTree(Shown(k))
        /\ TreeRead("bun", k) = BunTree(Shown(k))
        /\ TreeRead("yarn info", k) = YarnInfoTree(Shown(k))
    BY DEF TreeRead
  <2> QED BY <1>2, <1>3, <2>1, Zenon DEF GetTreeNpm, GetTreePnpm, GetTreeBun, GetTreeYarnInfo
<1>4. CASE GetTreeYarn
  <2>1. PICK kept \in SUBSET InLockfile :
          /\ OnePerName(kept)
          /\ GetTree("yarn", TreeOf(kept, LAMBDA i : Root))
    BY <1>4, Zenon DEF GetTreeYarn
  <2>2. pm' = "yarn" /\ tree' = TreeOf(kept, LAMBDA i : Root) /\ result' # "idle"
    BY <2>1 DEF GetTree, FlattenCall
  <2>3. /\ kept \in SUBSET InLockfile' /\ OnePerName(kept)'
        /\ tree' = TreeOf(kept, LAMBDA i : Root)'
    BY <1>1, <2>1, <2>2, SameTree, Zenon
  <2> QED BY <2>2, <2>3 DEF TreeIsRead
<1>5. CASE GetTreeFails
  <2>1. pm' = "failed" /\ result' = result /\ pm = "none"
    BY <1>5, Zenon DEF GetTreeFails, flattenVars
  <2> QED BY <2>1 DEF TreeIsRead
<1>6. ASSUME pm' = pm, warned' = warned, tree' = tree,
             result' = result \/ (result = "walking" /\ result' # "idle")
      PROVE  TreeIsRead'
  <2>1. result' = "idle" <=> result = "idle"
    BY <1>6
  <2>2. \A k : TreeRead(pm, k)' = TreeRead(pm, k)
    <3> TAKE k
    <3>1. \A a : TreeRead(a, k)' = TreeRead(a, k)
      BY <1>1, SameTree, Zenon
    <3> QED BY <1>6, <3>1, Zenon DEF TreeRead
  <2> QED BY <1>1, <1>6, <2>1, <2>2, SameTree, Zenon DEF TreeIsRead
<1>7. CASE FlattenStep /\ UNCHANGED <<forest, pm, warned>>
  <2>1. tree' = tree /\ (result' = result \/ (result = "walking" /\ result' # "idle"))
    BY <1>7 DEF FlattenStep, Visit, Truncate, Dequeue, Listed
  <2> QED BY <1>6, <1>7, <2>1, Zenon
<1>8. CASE UNCHANGED treeVars
  BY <1>6, <1>8, Zenon DEF treeVars, flattenVars
<1> QED BY <1>3, <1>4, <1>5, <1>7, <1>8, Zenon DEF Next

\* At first nothing is read.
LEMMA InitTreeInv == Init /\ NodeAssumption => Grown /\ TreeIsRead
<1> SUFFICES ASSUME Init, NodeAssumption PROVE Grown /\ TreeIsRead
  OBVIOUS
<1>1. PICK k \in 0..Cardinality(Node) :
        \E name \in [1..k -> Names], version \in [1..k -> Versions \cup {Missing}],
           level \in [1..k -> 0..k - 1] :
          forest = [i \in 1..k |->
                      [name |-> name[i], version |-> version[i], depth |-> level[i]]]
  BY Zenon DEF Init
<1>2. PICK name \in [1..k -> Names], version \in [1..k -> Versions \cup {Missing}],
           level \in [1..k -> 0..k - 1] :
        forest = [i \in 1..k |-> [name |-> name[i], version |-> version[i], depth |-> level[i]]]
  BY <1>1, Zenon
<1>3. Cardinality(Node) \in Nat /\ Node = 1..Cardinality(Node)
  BY FS_CardinalityType DEF NodeAssumption
<1>4. k \in Nat /\ 1..k \subseteq Node
  BY <1>3
<1>5. \A i \in 1..k : [name |-> name[i], version |-> version[i], depth |-> level[i]] \in Package
  BY <1>4 DEF Package
<1>6. forest \in Seq(Package) /\ DOMAIN forest = 1..k
  BY <1>2, <1>4, <1>5
<1>7. Grown
  BY <1>4, <1>6, Zenon DEF Grown, Init
<1>8. TreeIsRead
  BY DEF Init, FlattenInit, TreeIsRead
<1> QED BY <1>7, <1>8

-----------------------------------------------------------------------------
(* The depth of what is listed. *)

\* A package has no more packages above it than its depth.
LEMMA AncestorsBound ==
  ASSUME Grown, NEW i \in DOMAIN forest
  PROVE  /\ IsFiniteSet(Ancestors(i))
         /\ Cardinality(Ancestors(i)) \in Nat /\ Cardinality(Ancestors(i)) <= Depth(i)
<1>1. /\ Len(forest) \in Nat /\ DOMAIN forest = 1..Len(forest) /\ i \in 1..Len(forest)
      /\ \A j \in 1..Len(forest) : Depth(j) \in Nat
  BY PositionIs
<1>2. \A j : j \in Ancestors(i) <=>
               j \in 1..i - 1 /\ \A k \in j + 1..i : Depth(k) > Depth(j)
  BY Zenon DEF Ancestors, Depth
<1>3. ASSUME NEW j \in Ancestors(i)
      PROVE  Depth(j) \in 0..Depth(i) - 1 /\ j \in 1..i - 1
  <2>1. j \in 1..i - 1 /\ \A k \in j + 1..i : Depth(k) > Depth(j)
    BY <1>2, Zenon
  <2>2. j \in 1..Len(forest) /\ i \in j + 1..i
    BY <1>1, <2>1
  <2>3. Depth(i) > Depth(j) /\ Depth(i) \in Nat /\ Depth(j) \in Nat
    BY <1>1, <2>1, <2>2, Zenon
  <2> QED BY <2>1, <2>3
<1>4. ASSUME NEW j \in Ancestors(i), NEW k \in Ancestors(i), j < k
      PROVE  Depth(j) # Depth(k)
  <2>1. j \in 1..i - 1 /\ k \in 1..i - 1
    BY <1>3, Zenon
  <2>2. k \in j + 1..i /\ j \in 1..Len(forest) /\ k \in 1..Len(forest)
    BY <1>1, <1>4, <2>1
  <2>3. Depth(k) > Depth(j)
    BY <1>2, <2>2, Zenon
  <2> QED BY <1>1, <2>2, <2>3
<1> DEFINE f == [j \in Ancestors(i) |-> Depth(j)]
<1>5. f \in Injection(Ancestors(i), 0..Depth(i) - 1)
  <2>1. f \in [Ancestors(i) -> 0..Depth(i) - 1]
    BY <1>3, Zenon
  <2>2. ASSUME NEW j \in Ancestors(i), NEW k \in Ancestors(i), f[j] = f[k] PROVE j = k
    <3>1. j \in 1..i - 1 /\ k \in 1..i - 1 /\ Depth(j) = Depth(k)
      BY <1>3, <2>2, Zenon
    <3>2. ~(j < k) /\ ~(k < j)
      BY <1>4, <3>1, Zenon
    <3> QED BY <1>1, <3>1, <3>2
  <2> QED BY <2>1, <2>2, Zenon DEF Injection, IsInjective
<1>6. Depth(i) \in Nat
  BY <1>1
<1>7. IsFiniteSet(0..Depth(i) - 1) /\ Cardinality(0..Depth(i) - 1) = Depth(i)
  BY <1>6, FS_Interval, SMTT(30)
<1> HIDE DEF f
<1>8. IsFiniteSet(Ancestors(i)) /\ Cardinality(Ancestors(i)) <= Cardinality(0..Depth(i) - 1)
  BY <1>5, <1>7, FS_Injection, Zenon
<1> QED BY <1>7, <1>8, FS_CardinalityType, Zenon

\* The bars before a package are no more than its depth.
LEMMA BarsBound ==
  ASSUME Grown, NEW i \in DOMAIN forest
  PROVE  countTreeDepth[i] \in Nat /\ countTreeDepth[i] <= Depth(i)
<1> DEFINE S == {a \in Ancestors(i) : HasLaterSibling(a)}
<1>1. countTreeDepth[i] = Cardinality(S)
  BY Zenon DEF countTreeDepth
<1>2. /\ IsFiniteSet(Ancestors(i))
      /\ Cardinality(Ancestors(i)) \in Nat /\ Cardinality(Ancestors(i)) <= Depth(i)
  BY AncestorsBound, Zenon
<1>3. S \in SUBSET Ancestors(i)
  BY Zenon
<1> HIDE DEF S
<1>4. IsFiniteSet(S) /\ Cardinality(S) <= Cardinality(Ancestors(i))
  BY <1>2, <1>3, FS_Subset, Zenon
<1>5. Cardinality(S) \in Nat
  BY <1>4, FS_CardinalityType, Zenon
<1>6. Depth(i) \in Nat
  BY PositionIs, Zenon
<1> QED BY <1>1, <1>2, <1>4, <1>5, <1>6

\* The tree is that of some packages, each under the one it hangs from.
Nested(kept) ==
  \A m \in Node \cup {Root} : tree.kids[m] = {i \in kept : Up(forest, i) = m}

\* npm and pnpm: the children of an entry are one level below it.
LEMMA NestedDepth ==
  ASSUME Grown, IInv, FlattenAssumption, NodeAssumption,
         NEW kept \in SUBSET DOMAIN forest,
         Nested(kept)
  PROVE  \A k \in DOMAIN nodes : nodes[k].depth = forest[nodes[k].node].depth
<1> DEFINE D == [i \in DOMAIN forest |-> Depth(i)]
<1>1. Root = 0 /\ Root \notin Node /\ DOMAIN forest \subseteq Node
  BY DEF NodeAssumption, FlattenAssumption, Grown
<1>2. \A i \in DOMAIN forest : Depth(i) \in Nat /\ D[i] = Depth(i)
  BY PositionIs, Zenon
<1>3. \A m \in Node \cup {Root} : tree.kids[m] \subseteq DOMAIN forest
  BY Zenon DEF Nested
<1>4. ASSUME NEW m \in DOMAIN forest, NEW i \in tree.kids[m] PROVE D[i] = D[m] + 1
  <2>1. i \in DOMAIN forest /\ Up(forest, i) = m /\ m # 0
    BY <1>1, Zenon DEF Nested
  <2>2. Depth(m) + 1 = Depth(i)
    BY <2>1, UpIs, Zenon
  <2> QED BY <1>2, <2>1, <2>2, Zenon
<1>5. \A i \in tree.kids[Root] : D[i] = 0
  <2> TAKE i \in tree.kids[Root]
  <2>1. i \in DOMAIN forest /\ Up(forest, i) = 0
    BY <1>1, Zenon DEF Nested
  <2> QED BY <1>2, <2>1, UpIs, Zenon
<1>6. \A i \in DOMAIN forest : D[i] \in Nat
  BY <1>2, Zenon
<1> HIDE DEF D
<1>7. \A k \in DOMAIN nodes : /\ nodes[k].node \in DOMAIN forest
                              /\ nodes[k].depth = D[nodes[k].node]
  <2>1. DOMAIN forest \in SUBSET Node
    BY <1>1, Zenon
  <2> DEFINE E == DOMAIN forest
  <2>2. /\ E \in SUBSET Node
        /\ \A n \in E : D[n] \in Nat
        /\ \A m \in Node \cup {Root} : tree.kids[m] \subseteq E
        /\ \A m \in E : \A n \in tree.kids[m] : D[n] = D[m] + 1
    BY <1>3, <1>4, <1>6, <2>1, Zenon
  <2> HIDE DEF E
  <2>3. \A k \in DOMAIN nodes :
          /\ nodes[k].node \in E
          /\ (\A n \in tree.kids[Root] : D[n] = 0) => nodes[k].depth = D[nodes[k].node]
    <3> HIDE <1>5
    <3> QED BY <2>2, ListedDepth
  <2> QED BY <1>5, <2>3, Zenon DEF E
<1> QED BY <1>2, <1>7, Zenon DEF Depth

\* bun: they have one bar more.
LEMMA BunTreeIs ==
  ASSUME Grown, NodeAssumption, FlattenAssumption, NEW k \in 0..Len(forest),
         tree = BunTree(Shown(k))
  PROVE  /\ PmLines(Shown(k)) \subseteq DOMAIN forest
         /\ \A m \in Node \cup {Root} : \A i \in tree.kids[m] :
              i \in PmLines(Shown(k)) /\ BunParent(Shown(k), i) = m
         /\ \A i \in PmLines(Shown(k)) :
              LET m == BunParent(Shown(k), i)
              IN  m = 0 \/ /\ m \in PmLines(Shown(k)) /\ m < i
                           /\ countTreeDepth[m] + 1 = countTreeDepth[i]
         /\ \A i \in Node : tree.versioned[i] <=> i \in DOMAIN forest /\ Installed(i)
<1>1. PmLines(Shown(k)) \subseteq DOMAIN forest /\ DOMAIN forest \in SUBSET Nat
  BY ShownAre, PositionIs DEF PmLines
<1>2. \A m \in Node \cup {Root} : \A i \in tree.kids[m] :
        i \in PmLines(Shown(k)) /\ BunParent(Shown(k), i) = m
  BY Zenon DEF BunTree, TreeOf
<1>3. ASSUME NEW i \in PmLines(Shown(k))
      PROVE  LET m == BunParent(Shown(k), i)
             IN  m = 0 \/ /\ m \in PmLines(Shown(k)) /\ m < i
                          /\ countTreeDepth[m] + 1 = countTreeDepth[i]
  <2>1. i \in Nat /\ PmLines(Shown(k)) \in SUBSET Nat
    BY <1>1, Zenon
  <2> QED BY <2>1, AboveIs, Zenon DEF BunParent
<1>4. \A i \in Node : tree.versioned[i] <=> i \in DOMAIN forest /\ Installed(i)
  BY Zenon DEF BunTree, TreeOf, Installed
<1> QED BY <1>1, <1>2, <1>3, <1>4, Zenon

\* bun: a package is listed no deeper than there are bars before it.
LEMMA BunDepth ==
  ASSUME Grown, IInv, FlattenAssumption, NodeAssumption, NEW k \in 0..Len(forest),
         tree = BunTree(Shown(k))
  PROVE  \A j \in DOMAIN nodes : nodes[j].depth <= forest[nodes[j].node].depth
<1> DEFINE lines == PmLines(Shown(k))
<1>1. Root = 0 /\ Root \notin Node /\ DOMAIN forest \subseteq Node /\ lines \subseteq DOMAIN forest
  BY BunTreeIs DEF NodeAssumption, FlattenAssumption, Grown
<1>2. \A i \in lines : countTreeDepth[i] \in Nat /\ countTreeDepth[i] <= Depth(i) /\ Depth(i) \in Nat
  BY <1>1, BarsBound, PositionIs, Zenon
<1>3. \A m \in Node \cup {Root} : tree.kids[m] \subseteq lines
  BY BunTreeIs, Zenon
<1>4. ASSUME NEW m \in lines, NEW i \in tree.kids[m]
      PROVE  countTreeDepth[i] = countTreeDepth[m] + 1
  <2>1. m \in Node /\ m # 0 /\ i \in lines
    BY <1>1, <1>3, Zenon
  <2> QED BY <2>1, BunTreeIs, Zenon
<1>5. lines \in SUBSET Node
  BY <1>1, Zenon
<1> HIDE DEF lines
<1>6. \A j \in DOMAIN nodes : /\ nodes[j].node \in lines
                              /\ nodes[j].depth <= countTreeDepth[nodes[j].node]
  BY <1>2, <1>3, <1>4, <1>5, ListedDepth, Zenon
<1>7. ASSUME NEW j \in DOMAIN nodes PROVE nodes[j].depth <= Depth(nodes[j].node)
  <2>1. nodes[j].depth \in Nat
    BY ItemIs, Zenon
  <2>2. /\ nodes[j].depth <= countTreeDepth[nodes[j].node]
        /\ countTreeDepth[nodes[j].node] <= Depth(nodes[j].node)
        /\ countTreeDepth[nodes[j].node] \in Nat /\ Depth(nodes[j].node) \in Nat
    BY <1>2, <1>6, Zenon
  <2> QED BY <2>1, <2>2
<1> QED BY <1>7, Zenon DEF Depth

\* yarn: everything is at the top.
LEMMA TopIs ==
  ASSUME Grown, NodeAssumption, FlattenAssumption, NEW kept \in SUBSET InLockfile,
         tree = TreeOf(kept, LAMBDA i : Root)
  PROVE  /\ kept \in SUBSET Node
         /\ tree.kids[Root] = kept /\ \A m \in Node : tree.kids[m] = {}
         /\ \A i \in kept : tree.versioned[i]
<1>1. kept \in SUBSET Node /\ Root \notin Node /\ kept \subseteq DOMAIN forest
  BY DEF InLockfile, Grown, FlattenAssumption
<1>2. \A m \in Node \cup {Root} : tree.kids[m] = {i \in kept : Root = m}
  BY Zenon DEF TreeOf
<1>3. tree.kids[Root] = kept
  <2>1. tree.kids[Root] = {i \in kept : Root = Root}
    BY <1>2, Zenon
  <2> QED BY <2>1, Zenon
<1>4. \A m \in Node : tree.kids[m] = {}
  <2> TAKE m \in Node
  <2>1. tree.kids[m] = {i \in kept : Root = m} /\ Root # m
    BY <1>1, <1>2, Zenon
  <2> QED BY <2>1, Zenon
<1>5. \A i \in Node : tree.versioned[i] <=> i \in DOMAIN forest /\ forest[i].version # Missing
  BY Zenon DEF TreeOf
<1>6. \A i \in kept : tree.versioned[i]
  BY <1>1, <1>5, Zenon DEF InLockfile
<1> QED BY <1>1, <1>3, <1>4, <1>6, Zenon

\* DepthIsNesting holds of every list.
LEMMA InvDepth ==
  ASSUME Grown, IInv, TreeIsRead, FlattenAssumption, NodeAssumption PROVE DepthIsNesting
<1>1. ASSUME pm \in {"npm", "pnpm"}
      PROVE  \A k \in DOMAIN nodes : nodes[k].depth = forest[nodes[k].node].depth
  <2>1. PICK k \in 0..Len(forest) : tree = TreeRead(pm, k)
    BY <1>1 DEF TreeIsRead
  <2>2. Shown(k) \subseteq DOMAIN forest
    BY ShownAre, Zenon
  <2>3. CASE pm = "npm"
    <3>1. tree = NpmTree(Shown(k))
      BY <2>1, <2>3 DEF TreeRead
    <3>2. Nested(Shown(k))
      BY <3>1, NpmTreeIs, Zenon DEF Nested
    <3> QED BY <2>2, <3>2, NestedDepth, Zenon
  <2>4. CASE pm = "pnpm"
    <3>1. tree = PnpmTree(Shown(k))
      BY <2>1, <2>4 DEF TreeRead
    <3>2. Nested({j \in Shown(k) : Valid(j)})
      BY <3>1, PnpmTreeIs, Zenon DEF Nested
    <3>3. {j \in Shown(k) : Valid(j)} \in SUBSET DOMAIN forest
      BY <2>2, Zenon
    <3> QED BY <3>2, <3>3, NestedDepth, Zenon
  <2> QED BY <1>1, <2>3, <2>4, Zenon
<1>2. ASSUME pm = "bun"
      PROVE  \A k \in DOMAIN nodes : nodes[k].depth <= forest[nodes[k].node].depth
  <2>1. PICK k \in 0..Len(forest) : tree = TreeRead(pm, k)
    BY <1>2 DEF TreeIsRead
  <2>2. tree = BunTree(Shown(k))
    BY <1>2, <2>1 DEF TreeRead
  <2> QED BY <2>2, BunDepth, Zenon
<1>3. ASSUME pm = "yarn" PROVE \A k \in DOMAIN nodes : nodes[k].depth = 0
  <2>1. PICK kept \in SUBSET InLockfile : tree = TreeOf(kept, LAMBDA i : Root)
    BY <1>3 DEF TreeIsRead
  <2>2. \A m \in Node : tree.kids[m] = {}
    BY <2>1, TopIs, Zenon
  <2>3. \A k \in DOMAIN nodes : nodes[k].node \in Node
    BY ItemIs, Zenon
  <2> QED BY <2>2, <2>3, ItemIs, Zenon
<1> QED BY <1>1, <1>2, <1>3, Zenon DEF DepthIsNesting

-----------------------------------------------------------------------------
(* What is listed. *)

\* A package is whole when it is what is asked for, and what it hangs from is whole.
LEMMA WholeIs ==
  ASSUME Grown, NEW S, NEW i \in DOMAIN forest
  PROVE  {i} \cup Ancestors(i) \subseteq S
           <=> /\ i \in S
               /\ \/ Up(forest, i) = 0
                  \/ {Up(forest, i)} \cup Ancestors(Up(forest, i)) \subseteq S
<1>1. CASE Up(forest, i) = 0
  <2>1. Ancestors(i) = {}
    BY <1>1, AncestorsAre, Zenon
  <2> QED BY <1>1, <2>1, Zenon
<1>2. CASE Up(forest, i) # 0
  <2>1. Ancestors(i) = {Up(forest, i)} \cup Ancestors(Up(forest, i))
    BY <1>2, AncestorsAre, Zenon
  <2> QED BY <1>2, <2>1, Zenon
<1> QED BY <1>1, <1>2, Zenon

\* npm and pnpm: what is whole is listed, when all that is kept is shown.
LEMMA WholeListed ==
  ASSUME Grown, IInv, ListIsComplete, result = "listed", FlattenAssumption, NodeAssumption,
         NEW ok, ok \in SUBSET DOMAIN forest,
         NEW kept \in SUBSET DOMAIN forest,
         Nested(kept),
         \A i \in DOMAIN forest : i \in ok <=> i \in kept /\ tree.versioned[i]
  PROVE  Reached = {i \in DOMAIN forest : {i} \cup Ancestors(i) \subseteq ok}
<1> DEFINE S == {i \in DOMAIN forest : {i} \cup Ancestors(i) \subseteq ok}
           parent == [i \in kept |-> Up(forest, i)]
<1>1. Root = 0 /\ Root \notin Node /\ DOMAIN forest \subseteq Node
  BY DEF NodeAssumption, FlattenAssumption, Grown
<1>2. \A i \in DOMAIN forest :
        /\ Up(forest, i) = 0 \/ Up(forest, i) \in DOMAIN forest
        /\ Up(forest, i) < i
  <2> TAKE i \in DOMAIN forest
  <2>1. i > 0
    BY PositionIs
  <2>2. Up(forest, i) = 0 => Up(forest, i) < i
    BY <2>1
  <2> QED BY <2>2, UpIs, Zenon
<1>3. \A i \in DOMAIN forest :
        i \in S <=> i \in ok /\ (Up(forest, i) = 0 \/ Up(forest, i) \in S)
  <2> TAKE i \in DOMAIN forest
  <2> QED BY <1>2, WholeIs, Zenon
<1>4. HangFrom(kept, parent)
  <2>1. kept \in SUBSET Node
    BY <1>1, Zenon
  <2>2. \A n \in kept : parent[n] \in Node \cup {Root} /\ parent[n] < n
    BY <1>1, <1>2, Zenon
  <2>3. ASSUME NEW m \in Node \cup {Root}
        PROVE  tree.kids[m] = {n \in kept : parent[n] = m}
    <3>1. \A n \in kept : parent[n] = Up(forest, n)
      BY Zenon
    <3>2. tree.kids[m] = {n \in kept : Up(forest, n) = m}
      BY Zenon DEF Nested
    <3> HIDE DEF parent
    <3> QED BY <3>1, <3>2, Zenon
  <2> QED BY <2>1, <2>2, <2>3, Zenon DEF HangFrom
<1>5. S \in SUBSET Node
  BY <1>1, Zenon
<1>6. ASSUME NEW n \in Node
      PROVE  n \in S <=> /\ n \in kept /\ tree.versioned[n]
                         /\ parent[n] = Root \/ parent[n] \in S
  <2>1. n \in kept => parent[n] = Up(forest, n)
    BY Zenon
  <2>2. n \in S => n \in DOMAIN forest
    BY Zenon
  <2> HIDE DEF S, parent
  <2>3. CASE n \in DOMAIN forest
    <3>1. n \in ok <=> n \in kept /\ tree.versioned[n]
      BY <2>3, Zenon
    <3>2. n \in S <=> n \in ok /\ (Up(forest, n) = Root \/ Up(forest, n) \in S)
      BY <1>1, <1>3, <2>3, Zenon
    <3>3. n \in kept => (parent[n] = Root \/ parent[n] \in S
                          <=> Up(forest, n) = Root \/ Up(forest, n) \in S)
      BY <2>1, Zenon
    <3> QED BY <3>1, <3>2, <3>3, Zenon
  <2>4. CASE n \notin DOMAIN forest
    BY <2>2, <2>4, Zenon
  <2> QED BY <2>3, <2>4, Zenon
<1> HIDE DEF S, parent
<1>7. Reached = S
  BY <1>4, <1>5, <1>6, ListedAre, Zenon
<1> QED BY <1>7, Zenon DEF S

\* When nothing is warned of, all that is installed is shown.
LEMMA AllShown ==
  ASSUME TreeIsRead, ~warned, pm \in {"npm", "pnpm", "bun"}
  PROVE  /\ pm = "npm" => tree = NpmTree(Shown(Len(forest)))
         /\ pm = "pnpm" => tree = PnpmTree(Shown(Len(forest)))
         /\ pm = "bun" => tree = BunTree(Shown(Len(forest)))
<1>1. tree = TreeRead(pm, Len(forest))
  BY DEF TreeIsRead
<1> QED BY <1>1 DEF TreeRead

\* All packages are those of the forest.
LEMMA AllAre ==
  ASSUME Grown
  PROVE  Shown(Len(forest)) = DOMAIN forest /\ Len(forest) \in 0..Len(forest)
BY PositionIs DEF Shown

\* EveryPackageListed holds of every list.
LEMMA InvListed ==
  ASSUME Grown, IInv, TreeIsRead, ListIsComplete, FlattenAssumption, NodeAssumption
  PROVE  EveryPackageListed
<1> SUFFICES ASSUME result = "listed", ~warned
             PROVE  /\ pm = "npm" => Reached = {i \in DOMAIN forest : Whole(i, Installed)}
                    /\ pm = "pnpm" =>
                         Reached = {i \in DOMAIN forest : Whole(i, ValidInstalled)}
                    /\ pm = "yarn" =>
                         {forest[i].name : i \in Reached} = {forest[i].name : i \in InLockfile}
  BY Zenon DEF EveryPackageListed
<1>1. DOMAIN forest \subseteq Node
  BY DEF Grown
<1>2. \A i \in DOMAIN forest : {i} \cup Ancestors(i) \subseteq DOMAIN forest
  <2> TAKE i \in DOMAIN forest
  <2>1. \A j \in 1..i - 1 : j \in DOMAIN forest
    BY PositionIs
  <2> QED BY <2>1, Zenon DEF Ancestors
<1>3. ASSUME pm = "npm" PROVE Reached = {i \in DOMAIN forest : Whole(i, Installed)}
  <2> DEFINE kept == DOMAIN forest
             ok == {i \in DOMAIN forest : Installed(i)}
  <2>1. tree = NpmTree(kept)
    BY <1>3, AllShown, AllAre, Zenon
  <2>2. Nested(kept)
    BY <2>1, NpmTreeIs, Zenon DEF Nested
  <2>3. \A i \in DOMAIN forest : i \in ok <=> i \in kept /\ tree.versioned[i]
    BY <1>1, <2>1, NpmTreeIs, Zenon
  <2>4. ok \in SUBSET DOMAIN forest /\ kept \in SUBSET DOMAIN forest
    BY Zenon
  <2>5. \A i \in DOMAIN forest : Whole(i, Installed) <=> {i} \cup Ancestors(i) \subseteq ok
    BY <1>2, Zenon DEF Whole
  <2> HIDE DEF kept, ok
  <2>6. Reached = {i \in DOMAIN forest : {i} \cup Ancestors(i) \subseteq ok}
    BY <2>2, <2>3, <2>4, WholeListed, Zenon
  <2> QED BY <2>5, <2>6, Zenon
<1>4. ASSUME pm = "pnpm" PROVE Reached = {i \in DOMAIN forest : Whole(i, ValidInstalled)}
  <2> DEFINE kept == {i \in DOMAIN forest : Valid(i)}
             ok == {i \in DOMAIN forest : ValidInstalled(i)}
  <2>1. tree = PnpmTree(DOMAIN forest)
    BY <1>4, AllShown, AllAre, Zenon
  <2>2. Nested(kept)
    BY <2>1, PnpmTreeIs, Zenon DEF Nested
  <2>3. \A i \in DOMAIN forest : i \in ok <=> i \in kept /\ tree.versioned[i]
    BY <1>1, <2>1, PnpmTreeIs, Zenon DEF ValidInstalled
  <2>4. ok \in SUBSET DOMAIN forest /\ kept \in SUBSET DOMAIN forest
    BY Zenon
  <2>5. \A i \in DOMAIN forest :
          Whole(i, ValidInstalled) <=> {i} \cup Ancestors(i) \subseteq ok
    BY <1>2, Zenon DEF Whole
  <2> HIDE DEF kept, ok
  <2>6. Reached = {i \in DOMAIN forest : {i} \cup Ancestors(i) \subseteq ok}
    BY <2>2, <2>3, <2>4, WholeListed, Zenon
  <2> QED BY <2>5, <2>6, Zenon
<1>5. ASSUME pm = "yarn"
      PROVE  {forest[i].name : i \in Reached} = {forest[i].name : i \in InLockfile}
  <2>1. PICK kept \in SUBSET InLockfile :
          OnePerName(kept) /\ tree = TreeOf(kept, LAMBDA i : Root)
    BY <1>5 DEF TreeIsRead
  <2>2. /\ kept \in SUBSET Node
        /\ tree.kids[Root] = kept /\ \A m \in Node : tree.kids[m] = {}
        /\ \A i \in kept : tree.versioned[i]
    BY <2>1, TopIs, Zenon
  <2>3. Reached = kept
    <3>1. kept \subseteq Reached
      BY <2>2, Zenon DEF ListIsComplete
    <3>2. Reached \subseteq kept
      <4>1. \A k \in DOMAIN nodes : nodes[k].node \in Node
        BY ItemIs, Zenon
      <4>2. \A k \in DOMAIN nodes : nodes[k].node \in kept
        <5> TAKE k \in DOMAIN nodes
        <5>1. \A j \in DOMAIN nodes : nodes[k].node \notin tree.kids[nodes[j].node]
          <6> TAKE j \in DOMAIN nodes
          <6>1. tree.kids[nodes[j].node] = {}
            BY <2>2, <4>1, Zenon
          <6> QED BY <6>1, Zenon
        <5>2. nodes[k].node \in tree.kids[Root]
          BY <5>1, ItemIs, Zenon
        <5> QED BY <2>2, <5>2, Zenon
      <4> QED BY <4>2, Zenon DEF Reached
    <3> QED BY <3>1, <3>2, Zenon
  <2> QED BY <2>1, <2>3, Zenon DEF OnePerName
<1> QED BY <1>3, <1>4, <1>5, Zenon

\* BunListsUniqueNames holds of every list.
LEMMA InvBun ==
  ASSUME Grown, IInv, TreeIsRead, ListIsComplete, FlattenAssumption, NodeAssumption
  PROVE  BunListsUniqueNames
<1> SUFFICES ASSUME result = "listed", ~warned, pm = "bun",
                    \A i, j \in InLockfile : forest[i].name = forest[j].name => i = j
             PROVE  Reached = InLockfile
  BY Zenon DEF BunListsUniqueNames
<1> DEFINE lines == PmLines(Shown(Len(forest)))
           parent == [i \in InLockfile |-> BunParent(Shown(Len(forest)), i)]
<1>1. /\ Root = 0 /\ Root \notin Node /\ DOMAIN forest \subseteq Node
      /\ InLockfile \subseteq DOMAIN forest
  BY DEF NodeAssumption, FlattenAssumption, Grown, InLockfile
<1>2. tree = BunTree(Shown(Len(forest))) /\ lines = InLockfile
  BY AllShown, AllAre, Zenon DEF PmLines, InLockfile
<1>3. \A i \in InLockfile :
        /\ parent[i] = 0 \/ (parent[i] \in InLockfile /\ parent[i] < i)
        /\ tree.versioned[i]
  <2> TAKE i \in InLockfile
  <2>1. parent[i] = BunParent(Shown(Len(forest)), i) /\ i \in lines
    BY <1>2, Zenon
  <2>2. Installed(i) /\ i \in Node /\ i \in DOMAIN forest
    BY <1>1, Zenon DEF InLockfile, Installed
  <2> QED BY <1>2, <2>1, <2>2, AllAre, BunTreeIs, Zenon
<1>4. \A m \in Node \cup {Root} : tree.kids[m] = {i \in InLockfile : parent[i] = m}
  <2> DEFINE shown == Shown(Len(forest))
             replaced == {i \in lines : \E j \in lines :
                            /\ j < i
                            /\ forest[j].name = forest[i].name
                            /\ BunParent(shown, j) = BunParent(shown, i)}
  <2>1. replaced = {}
    <3>1. \A i, j \in lines : j < i => forest[j].name # forest[i].name
      <4>1. lines \subseteq Nat
        BY <1>1, <1>2, PositionIs
      <4>2. \A i, j \in lines : j < i => i # j
        BY <4>1
      <4> QED BY <1>2, <4>2, Zenon
    <3> QED BY <3>1, Zenon
  <2>2. BunTree(shown) = TreeOf(lines \ replaced, LAMBDA i : BunParent(shown, i))
    BY Zenon DEF BunTree
  <2>3. lines \ replaced = InLockfile
    BY <1>2, <2>1, Zenon
  <2> HIDE DEF lines, replaced
  <2>4. tree = TreeOf(InLockfile, LAMBDA i : BunParent(shown, i))
    BY <1>2, <2>2, <2>3, Zenon
  <2> SUFFICES ASSUME NEW m \in Node \cup {Root}
               PROVE  tree.kids[m] = {i \in InLockfile : parent[i] = m}
    BY Zenon
  <2>5. tree.kids[m] = {i \in InLockfile : BunParent(shown, i) = m}
    BY <2>4, Zenon DEF TreeOf
  <2>6. \A i \in InLockfile : parent[i] = BunParent(shown, i)
    BY Zenon
  <2> HIDE DEF parent, shown
  <2> QED BY <2>5, <2>6, Zenon
<1> HIDE DEF parent, lines
<1>5. InLockfile \in SUBSET Node
  BY <1>1, Zenon
<1>6. HangFrom(InLockfile, parent)
  <2>1. \A i \in InLockfile : parent[i] \in Node \cup {Root} /\ parent[i] < i
    <3> TAKE i \in InLockfile
    <3>1. i > 0
      BY <1>1, PositionIs
    <3>2. parent[i] = 0 => parent[i] < i
      BY <3>1
    <3> QED BY <1>1, <1>3, <3>2, Zenon
  <2> QED BY <1>4, <1>5, <2>1, Zenon DEF HangFrom
<1>7. \A n \in Node : n \in InLockfile <=> /\ n \in InLockfile /\ tree.versioned[n]
                                           /\ parent[n] = Root \/ parent[n] \in InLockfile
  BY <1>1, <1>3, Zenon
<1> QED BY <1>5, <1>6, <1>7, ListedAre, Zenon

-----------------------------------------------------------------------------
(* The theorems. *)

\* What is installed, and the tree that is read of it.
LEMMA TreeInvariant == Spec => [](Grown /\ TreeIsRead)
<1>1. Init => Grown /\ TreeIsRead
  BY NodeAssumption, InitTreeInv, Zenon
<1>2. Grown /\ TreeIsRead /\ [Next]_treeVars => (Grown /\ TreeIsRead)'
  BY StepGrown, StepTreeIsRead, Zenon
<1> QED BY <1>1, <1>2, PTL DEF Spec

\* GetTree of every adapter, followed by Flatten, is a walk of Flatten over some
\* tree: what holds of every list that Flatten makes holds of those of the
\* packages that are installed.
THEOREM AdaptersCallFlatten == Spec => FlattenSpec
<1>1. Init => FlattenInit
  BY Zenon DEF Init
<1>2. Grown /\ [Next]_treeVars => [FlattenNext]_flattenVars
  BY StepImplements, Zenon
<1> QED BY <1>1, <1>2, TreeInvariant, PTL DEF Spec, FlattenSpec

\* What is evaluated is what is installed: without a warning nothing is lost but
\* what hangs below an entry without version or without valid name.
THEOREM NothingLost == Spec => []EveryPackageListed
<1>1. Grown /\ TreeIsRead /\ IInv /\ ListIsComplete => EveryPackageListed
  BY NodeAssumption, FlattenAssumption, InvListed, Zenon
<1> QED BY <1>1, TreeInvariant, AdaptersCallFlatten, FlattenInvariant, FlattenComplete, PTL

\* bun: nothing is lost, whatever nesting is read, when names are unique.
THEOREM BunLosesNoUniqueName == Spec => []BunListsUniqueNames
<1>1. Grown /\ TreeIsRead /\ IInv /\ ListIsComplete => BunListsUniqueNames
  BY NodeAssumption, FlattenAssumption, InvBun, Zenon
<1> QED BY <1>1, TreeInvariant, AdaptersCallFlatten, FlattenInvariant, FlattenComplete, PTL

\* The depth that transitive.max_depth is compared with is the one at which a
\* package is installed (npm, pnpm), or no greater (bun).
THEOREM DepthSound == Spec => []DepthIsNesting
<1>1. Grown /\ TreeIsRead /\ IInv => DepthIsNesting
  BY NodeAssumption, FlattenAssumption, InvDepth, Zenon
<1> QED BY <1>1, TreeInvariant, AdaptersCallFlatten, FlattenInvariant, PTL
=============================================================================
