------------------------------- MODULE NpmLock -------------------------------
(***************************************************************************)
(* ParsePackageLock: the packages that scalp install and scalp ci evaluate *)
(* when the package manager is npm.  The packages of a package-lock.json   *)
(* are known by the paths at which they are installed, from which name and *)
(* depth are read.  They are a map: they are read in any order.            *)
(*                                                                         *)
(* A path is the sequence of its parts, and comes with the name and the    *)
(* depth of the package that npm installs there.                           *)
(***************************************************************************)
EXTENDS Naturals, Sequences, FiniteSetsExt, SequencesExt

CONSTANTS Scopes  \* the files to read: a bound on their packages, and the paths

VARIABLES
  scope,    \* which files this one is out of
  file,     \* the paths read
  entries,  \* the packages listed
  result    \* "reading", "listed" or "rejected"

vars == <<scope, file, entries, result>>

-----------------------------------------------------------------------------
(* Paths. *)

names == {<<"n">>, <<"@s", "n">>}
Under(dir, n) == dir \o <<"node_modules">> \o n

TopPaths == {[path |-> Under(<<>>, n), name |-> n, depth |-> 0] : n \in names}
NestedPaths ==
  {[path |-> Under(p.path, n), name |-> n, depth |-> p.depth + 1] : p \in TopPaths, n \in names}

\* Packages in the node_modules of a workspace, or of one below it.
WorkspacePaths ==
  {[path |-> Under(<<"w">>, <<"n">>), name |-> <<"n">>, depth |-> 0],
   [path |-> Under(Under(<<"w">>, <<"n">>), <<"n">>), name |-> <<"n">>, depth |-> 1]}

\* The project itself, a workspace, a traversal and two empty names.
OtherPaths ==
  {[path |-> p, name |-> <<>>, depth |-> 0] :
     p \in {<<>>, <<"w">>, <<"node_modules", "..", "n">>, <<"node_modules", "">>,
            <<"node_modules", "@s", "">>}}

PackagePaths == TopPaths \cup NestedPaths \cup WorkspacePaths
AllPaths == PackagePaths \cup OtherPaths

\* What the constants are assumed to be, where the parser is instantiated.
ParserAssumption == Scopes \subseteq [lines : Nat, keys : SUBSET AllPaths]

TypeOK ==
  /\ scope \in Scopes
  /\ file \in Seq(AllPaths)
  /\ Len(file) <= scope.lines
  /\ entries \in Seq([line : DOMAIN file, name : Seq({"n", "@s"}), depth : Nat])
  /\ result \in {"reading", "listed", "rejected"}

Init ==
  /\ scope \in Scopes
  /\ file = <<>>
  /\ entries = <<>>
  /\ result = "reading"

-----------------------------------------------------------------------------

HasTraversal(path) == ".." \in Range(path)

\* Mutant: what comes after the first node_modules.
extractNameFirst(path) ==
  LET rest == SubSeq(path, Min({i \in DOMAIN path : path[i] = "node_modules"}) + 1, Len(path))
  IN  IF Head(rest) = "@s" /\ Len(rest) > 1 THEN SubSeq(rest, 1, 2) ELSE <<Head(rest)>>

\* One part after the last node_modules, two if the first is a scope.
extractName(path) ==
  LET rest == SubSeq(path, Max({i \in DOMAIN path : path[i] = "node_modules"}) + 1, Len(path))
  IN  IF Head(rest) = "@s" /\ Len(rest) > 1 THEN SubSeq(rest, 1, 2) ELSE <<Head(rest)>>

\* SanitizePackageName.
Valid(name) == "" \notin Range(name)

countNodeModules(path) == Cardinality({i \in DOMAIN path : path[i] = "node_modules"}) - 1

InProject(path) == path # <<>> /\ path[1] = "node_modules"

\* Not JSON, an older version of it, or no file.
Unsupported ==
  /\ result = "reading"
  /\ file = <<>>
  /\ result' = "rejected"
  /\ UNCHANGED <<scope, file, entries>>

\* Paths that do not begin with node_modules, and empty names, are left out; a
\* traversal and an invalid name reject the file.
ReadPath(p) ==
  /\ result = "reading"
  /\ Len(file) < scope.lines
  /\ p \in scope.keys \ Range(file)
  /\ file' = Append(file, p)
  /\ UNCHANGED scope
  /\ \/ /\ ~InProject(p.path)
        /\ UNCHANGED <<entries, result>>
     \/ /\ InProject(p.path) /\ HasTraversal(p.path)
        /\ result' = "rejected"
        /\ UNCHANGED entries
     \/ /\ InProject(p.path) /\ ~HasTraversal(p.path)
        /\ LET name == extractName(p.path)
           IN  CASE name = <<"">> -> UNCHANGED <<entries, result>>
                 [] name # <<"">> /\ ~Valid(name) -> result' = "rejected" /\ UNCHANGED entries
                 [] Valid(name) ->
                      /\ entries' = Append(entries, [line |-> Len(file'), name |-> name,
                                                     depth |-> countNodeModules(p.path)])
                      /\ UNCHANGED result

EndOfFile ==
  /\ result = "reading"
  /\ result' = "listed"
  /\ UNCHANGED <<scope, file, entries>>

Next == (\E p \in AllPaths : ReadPath(p)) \/ Unsupported \/ EndOfFile

Spec == Init /\ [][Next]_vars

-----------------------------------------------------------------------------
(* Properties. *)

\* The list is in the order of the lines, and has none twice.
InOrder == \A i, j \in DOMAIN entries : i < j => entries[i].line < entries[j].line

\* Every package below the project's own node_modules is listed once, with the
\* name and the depth that npm gives it, and no other; of such packages none is
\* a reason to refuse the lockfile.
ProjectPackagesListed ==
  /\ result = "listed" =>
       {<<entries[i].line, entries[i].name, entries[i].depth>> : i \in DOMAIN entries}
         = {<<i, file[i].name, file[i].depth>> :
              i \in {j \in DOMAIN file : file[j] \in TopPaths \cup NestedPaths}}
  /\ InOrder
  /\ result = "rejected" /\ file # <<>> => file[Len(file)] \notin PackagePaths

\* scalp ci "Parses the lockfile and evaluates every package" (scalp-ci.md:19):
\* those in the node_modules of a workspace, too.
EveryPackageListed ==
  result = "listed" =>
    \A i \in DOMAIN file : file[i] \in PackagePaths =>
      \E j \in DOMAIN entries : entries[j].line = i
=============================================================================
