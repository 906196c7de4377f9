------------------------------- MODULE Flatten -------------------------------
(***************************************************************************)
(* pkgmanager.Flatten: the list of packages that is synchronised, verified *)
(* and scored, read off a dependency tree breadth first, up to a limit.    *)
(*                                                                         *)
(* The children of a node are a Go map: the loop meets them in any order.  *)
(***************************************************************************)
EXTENDS Naturals, Sequences

CONSTANTS
  Node,             \* entries of a dependency tree
  Root,             \* what the top-level dependencies hang from
  maxFlattenNodes   \* the limit on the length of the list

ASSUME FlattenAssumption == Root \notin Node /\ maxFlattenNodes \in Nat

\* A tree gives each entry its children and says whether it has a version; an
\* entry has one parent.
Tree ==
  {t \in [kids : [Node \cup {Root} -> SUBSET Node], versioned : [Node -> BOOLEAN]] :
     \A m, n \in Node \cup {Root} : m # n => t.kids[m] \cap t.kids[n] = {}}

VARIABLES
  tree,    \* the tree that is flattened
  queue,   \* entries whose children are still to be looked at, with their depth
  left,    \* what is left of the children that are looked at
  depth,   \* their depth
  nodes,   \* the list
  result   \* "idle", "walking", "listed" or "truncated"

flattenVars == <<tree, queue, left, depth, nodes, result>>

Reached == {nodes[i].node : i \in DOMAIN nodes}

\* Mutant: the depth starts below the top level.
FlattenCallBelow(t) ==
  /\ result = "idle"
  /\ tree' = t
  /\ left' = t.kids[Root]
  /\ depth' = 0 - 1
  /\ result' = IF t.kids[Root] = {} THEN "listed" ELSE "walking"
  /\ UNCHANGED <<queue, nodes>>

\* An empty tree is answered at once.
FlattenCall(t) ==
  /\ result = "idle"
  /\ tree' = t
  /\ left' = t.kids[Root]
  /\ depth' = 0
  /\ result' = IF t.kids[Root] = {} THEN "listed" ELSE "walking"
  /\ UNCHANGED <<queue, nodes>>

\* Mutants: the limit is not looked at; children have their parent's depth.
VisitPastLimit(n) ==
  /\ result = "walking"
  /\ n \in left
  /\ left' = left \ {n}
  /\ IF tree.versioned[n]
       THEN /\ nodes' = Append(nodes, [node |-> n, depth |-> depth])
            /\ queue' = IF tree.kids[n] = {} THEN queue
                        ELSE Append(queue, [node |-> n, depth |-> depth + 1])
       ELSE UNCHANGED <<nodes, queue>>
  /\ UNCHANGED <<tree, depth, result>>

VisitSameDepth(n) ==
  /\ result = "walking"
  /\ n \in left
  /\ Len(nodes) < maxFlattenNodes
  /\ left' = left \ {n}
  /\ IF tree.versioned[n]
       THEN /\ nodes' = Append(nodes, [node |-> n, depth |-> depth])
            /\ queue' = IF tree.kids[n] = {} THEN queue
                        ELSE Append(queue, [node |-> n, depth |-> depth])
       ELSE UNCHANGED <<nodes, queue>>
  /\ UNCHANGED <<tree, depth, result>>

\* The loop looks at a child: one without version is skipped, and everything
\* below it.
Visit(n) ==
  /\ result = "walking"
  /\ n \in left
  /\ Len(nodes) < maxFlattenNodes
  /\ left' = left \ {n}
  /\ IF tree.versioned[n]
       THEN /\ nodes' = Append(nodes, [node |-> n, depth |-> depth])
            /\ queue' = IF tree.kids[n] = {} THEN queue
                        ELSE Append(queue, [node |-> n, depth |-> depth + 1])
       ELSE UNCHANGED <<nodes, queue>>
  /\ UNCHANGED <<tree, depth, result>>

\* Mutant: the list is cut short one entry early.
TruncateEarly ==
  /\ result = "walking"
  /\ left # {}
  /\ Len(nodes) + 1 >= maxFlattenNodes
  /\ result' = "truncated"
  /\ UNCHANGED <<tree, queue, left, depth, nodes>>

\* The limit is looked at before the version.
Truncate ==
  /\ result = "walking"
  /\ left # {}
  /\ Len(nodes) >= maxFlattenNodes
  /\ result' = "truncated"
  /\ UNCHANGED <<tree, queue, left, depth, nodes>>

Dequeue ==
  /\ result = "walking"
  /\ left = {}
  /\ queue # <<>>
  /\ left' = tree.kids[Head(queue).node]
  /\ depth' = Head(queue).depth
  /\ queue' = Tail(queue)
  /\ UNCHANGED <<tree, nodes, result>>

\* Mutant: only the top level is looked at.
ListedTop ==
  /\ result = "walking"
  /\ left = {}
  /\ result' = "listed"
  /\ UNCHANGED <<tree, queue, left, depth, nodes>>

Listed ==
  /\ result = "walking"
  /\ left = {}
  /\ queue = <<>>
  /\ result' = "listed"
  /\ UNCHANGED <<tree, queue, left, depth, nodes>>

FlattenStep == (\E n \in left : Visit(n)) \/ Truncate \/ Dequeue \/ Listed

FlattenInit ==
  /\ tree = [kids |-> [n \in Node \cup {Root} |-> {}], versioned |-> [n \in Node |-> FALSE]]
  /\ queue = <<>>
  /\ left = {}
  /\ depth = 0
  /\ nodes = <<>>
  /\ result = "idle"

FlattenNext == (\E t \in Tree : FlattenCall(t)) \/ FlattenStep

FlattenSpec == FlattenInit /\ [][FlattenNext]_flattenVars

-----------------------------------------------------------------------------
(* Properties. *)

Item == [node : Node, depth : Nat]

FlattenTypeOK ==
  /\ tree \in Tree
  /\ queue \in Seq(Item)
  /\ left \in SUBSET Node
  /\ depth \in Nat
  /\ nodes \in Seq(Item)
  /\ result \in {"idle", "walking", "listed", "truncated"}

\* Every item of the list is an entry with a version; it hangs from the root
\* at depth 0, or from an item before it whose depth is one less.  No entry is
\* there twice, depths never decrease, and the list is never over the limit.
ItemsHang ==
  /\ Len(nodes) <= maxFlattenNodes
  /\ \A i, j \in DOMAIN nodes :
       /\ nodes[i].node = nodes[j].node => i = j
       /\ i <= j => nodes[i].depth <= nodes[j].depth
  /\ \A i \in DOMAIN nodes :
       /\ tree.versioned[nodes[i].node]
       /\ \/ nodes[i].node \in tree.kids[Root] /\ nodes[i].depth = 0
          \/ \E j \in 1..i-1 : /\ nodes[i].node \in tree.kids[nodes[j].node]
                               /\ nodes[i].depth = nodes[j].depth + 1

\* A list that is not cut short is complete: with the root, and with every
\* item, it has all children that have a version.
ListIsComplete ==
  result = "listed" =>
    \A m \in Reached \cup {Root} : \A n \in tree.kids[m] :
      tree.versioned[n] => n \in Reached

\* "Returns an error if the tree exceeds maxFlattenNodes" (pkgmanager.go:70):
\* a list is only cut short when the limit is reached and an entry is left.
TruncatedOnlyAtLimit ==
  result = "truncated" => Len(nodes) = maxFlattenNodes /\ left # {} /\ left \cap Reached = {}
=============================================================================
