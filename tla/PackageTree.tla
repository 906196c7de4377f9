----------------------------- MODULE PackageTree -----------------------------
(***************************************************************************)
(* GetTree of the four adapters, and the list that Flatten makes of it.    *)
(*                                                                         *)
(* What is installed is a forest, written as the sequence of its packages  *)
(* in the order in which a package manager prints them, each with its      *)
(* depth.  npm and pnpm answer with a tree; bun draws one, from which the  *)
(* adapter reads the nesting; the yarn adapter reads its lockfile, which   *)
(* has no nesting, or asks yarn info.                                      *)
(***************************************************************************)
EXTENDS Flatten, FiniteSetsExt, TLC

CONSTANTS
  Names,      \* package names
  BadNames,   \* those that SanitizePackageName refuses
  Versions,   \* versions
  Missing     \* the version of a dependency that is not installed

ASSUME ForestAssumption == BadNames \subseteq Names /\ Missing \notin Versions

\* An entry is the position of a package in the forest.
ASSUME NodeAssumption ==
  Root = 0 /\ IsFiniteSet(Node) /\ Node = 1..Cardinality(Node)

VARIABLES
  forest,   \* what is installed
  pm,       \* the adapter that was asked, "none" before and "failed" after an error
  warned    \* the package manager exited with an error, which is only logged

treeVars == <<forest, pm, warned, flattenVars>>

Package == [name : Names, version : Versions \cup {Missing}, depth : Nat]

\* The last of the packages before i, among those given, that is one level up.
Above(among, level, i) == Max({0} \cup {j \in among : j < i /\ level[j] + 1 = level[i]})

Levels(f) == [i \in DOMAIN f |-> f[i].depth]
Up(f, i) == Above(DOMAIN f, Levels(f), i)

\* A package is printed below the one before it or below one that this hangs
\* from, and siblings have different names.
Forest(f) ==
  /\ \A i \in DOMAIN f : f[i].depth <= (IF i = 1 THEN 0 ELSE f[i - 1].depth + 1)
  /\ \A i, j \in DOMAIN f : i < j /\ Up(f, i) = Up(f, j) => f[i].name # f[j].name

Key(i) == <<forest[i].name, forest[i].version>>
Valid(i) == forest[i].name \notin BadNames

\* The tree of some of the packages, given what each hangs from.
TreeOf(kept, up(_)) ==
  [kids |-> [m \in Node \cup {Root} |-> {i \in kept : up(i) = m}],
   versioned |-> [n \in Node |-> n \in DOMAIN forest /\ forest[n].version # Missing]]

-----------------------------------------------------------------------------
(* npm ls and pnpm ls print JSON.  convertPnpmDeps leaves out a package     *)
(* whose name is not valid, and with it what hangs below.                  *)

NpmTree(shown) == TreeOf(shown, LAMBDA i : Up(forest, i))
PnpmTree(shown) == TreeOf({i \in shown : Valid(i)}, LAMBDA i : Up(forest, i))

-----------------------------------------------------------------------------
(* bun pm ls --all draws the tree: below a package that has a later sibling *)
(* there is a bar, below the last one a space.                             *)

Ancestors(i) ==
  {j \in 1..i - 1 : \A k \in j + 1..i : forest[k].depth > forest[j].depth}

HasLaterSibling(i) == \E j \in DOMAIN forest : i < j /\ Up(forest, j) = Up(forest, i)

\* countTreeDepth counts the bars.
countTreeDepth == [i \in DOMAIN forest |->
                     Cardinality({a \in Ancestors(i) : HasLaterSibling(a)})]

\* The lines that parsePmLsTree understands.
PmLines(shown) == {i \in shown : Valid(i) /\ forest[i].version # Missing}

BunParent(shown, i) == Above(PmLines(shown), countTreeDepth, i)

\* Mutant: only the lines at the top are taken.
BunTreeOfTops(shown) ==
  TreeOf({i \in PmLines(shown) : countTreeDepth[i] = 0}, LAMBDA i : Root)

\* A package hangs from the last line with one bar less.  Children are a map,
\* filled from the last line to the first: of one name the first stays.
BunTree(shown) ==
  LET lines == PmLines(shown)
      replaced == {i \in lines : \E j \in lines :
                     /\ j < i
                     /\ forest[j].name = forest[i].name
                     /\ BunParent(shown, j) = BunParent(shown, i)}
  IN  TreeOf(lines \ replaced, LAMBDA i : BunParent(shown, i))

-----------------------------------------------------------------------------
(* yarn: every package of the lockfile at the top, in a map by name.  When *)
(* the lockfile cannot be parsed, the children of the lines of yarn info,  *)
(* the last line first, with what is below them.                           *)

InLockfile == {i \in DOMAIN forest : Valid(i) /\ forest[i].version # Missing}
OnePerName(kept) ==
  /\ kept \subseteq InLockfile
  /\ {forest[i].name : i \in kept} = {forest[i].name : i \in InLockfile}
  /\ \A i, j \in kept : forest[i].name = forest[j].name => i = j

YarnInfoTree(shown) ==
  LET children == {i \in shown : forest[i].depth = 1 /\ Valid(i)}
      replaced == {i \in children : \E j \in children : i < j /\ forest[j].name = forest[i].name}
      below == {i \in shown : forest[i].depth > 1}
  IN  TreeOf((children \ replaced) \cup below,
             LAMBDA i : IF forest[i].depth = 1 THEN Root ELSE Up(forest, i))

-----------------------------------------------------------------------------

\* A child process that exits with an error may have printed less than there
\* is; the adapter logs a warning and goes on with what it has.
Shown(k) == 1..k
ExitsWith(k) == warned' \in (IF k = Len(forest) THEN BOOLEAN ELSE {TRUE})

GetTree(a, t) == pm = "none" /\ pm' = a /\ FlattenCall(t) /\ UNCHANGED forest

GetTreeNpm(k) == GetTree("npm", NpmTree(Shown(k))) /\ ExitsWith(k)

\* Mutant: an exit with an error is taken for success.
GetTreePnpmQuiet(k) == GetTree("pnpm", PnpmTree(Shown(k))) /\ warned' = FALSE

GetTreePnpm(k) == GetTree("pnpm", PnpmTree(Shown(k))) /\ ExitsWith(k)

GetTreeBun(k) == GetTree("bun", BunTree(Shown(k))) /\ ExitsWith(k)
GetTreeYarn ==
  \E kept \in SUBSET InLockfile :
    /\ OnePerName(kept)
    /\ GetTree("yarn", TreeOf(kept, LAMBDA i : Root))
    /\ warned' = FALSE
GetTreeYarnInfo(k) == GetTree("yarn info", YarnInfoTree(Shown(k))) /\ ExitsWith(k)

\* Output that cannot be read, or a child process that does not start.
GetTreeFails ==
  /\ pm = "none"
  /\ pm' = "failed"
  /\ UNCHANGED <<forest, warned, flattenVars>>

Init ==
  /\ \E k \in 0..Cardinality(Node) :
       \E name \in [1..k -> Names], version \in [1..k -> Versions \cup {Missing}],
          level \in [1..k -> 0..k - 1] :
         forest = [i \in 1..k |-> [name |-> name[i], version |-> version[i], depth |-> level[i]]]
  /\ Forest(forest)
  /\ pm = "none"
  /\ warned = FALSE
  /\ FlattenInit

Next ==
  \/ \E k \in 0..Len(forest) :
       GetTreeNpm(k) \/ GetTreePnpm(k) \/ GetTreeBun(k) \/ GetTreeYarnInfo(k)
  \/ GetTreeYarn
  \/ GetTreeFails
  \/ FlattenStep /\ UNCHANGED <<forest, pm, warned>>

Spec == Init /\ [][Next]_treeVars

-----------------------------------------------------------------------------
(* Properties. *)

Keys(S) == {Key(i) : i \in S}

\* A package that npm or pnpm shows is lost when it, or one that it hangs
\* below, is not installed or (pnpm) has a name that is not valid.
Whole(i, ok(_)) == \A j \in {i} \cup Ancestors(i) : ok(j)
Installed(i) == forest[i].version # Missing
ValidInstalled(i) == Installed(i) /\ Valid(i)

\* What is evaluated, recorded and verified is what is installed: when the
\* package manager did not fail and the list is not cut short, no package is
\* lost but those below an entry without version or without valid name.
EveryPackageListed ==
  result = "listed" /\ ~warned =>
    /\ pm = "npm" => Reached = {i \in DOMAIN forest : Whole(i, Installed)}
    /\ pm = "pnpm" => Reached = {i \in DOMAIN forest : Whole(i, ValidInstalled)}
    /\ pm = "yarn" => {forest[i].name : i \in Reached} = {forest[i].name : i \in InLockfile}

\* "This preserves proper parent-child nesting and handles multiple versions
\* of the same package" (bun/adapter.go:83): every package of which bun prints
\* a line is listed, in each of its versions.
BunListsEveryVersion ==
  result = "listed" /\ ~warned /\ pm = "bun" => Keys(Reached) = Keys(InLockfile)

\* What holds of it: when no two packages that are installed have one name,
\* nothing is lost, whatever the nesting that is read.
BunListsUniqueNames ==
  /\ result = "listed" /\ ~warned /\ pm = "bun"
  /\ \A i, j \in InLockfile : forest[i].name = forest[j].name => i = j
  => Reached = InLockfile

\* The depth that transitive.max_depth is compared with: npm and pnpm give a
\* package the depth at which it is installed, and bun never a greater one.
DepthIsNesting ==
  \A k \in DOMAIN nodes :
    /\ pm \in {"npm", "pnpm"} => nodes[k].depth = forest[nodes[k].node].depth
    /\ pm = "bun" => nodes[k].depth <= forest[nodes[k].node].depth
    /\ pm = "yarn" => nodes[k].depth = 0
=============================================================================
