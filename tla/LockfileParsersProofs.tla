------------------------ MODULE LockfileParsersProofs ------------------------
(***************************************************************************)
(* What the parsers of the lockfiles list, for every file of every length: *)
(* each parser has an inductive invariant (NpmInv, PnpmInv, YarnInv and    *)
(* BunInv) that relates the list and the entry being read to the lines of  *)
(* the file so far, and ParsersInv is that of the parser that is chosen.   *)
(* WrittenInv says more of a file that pnpm or yarn wrote (PnpmWritten,    *)
(* YarnWritten): what the parser waits for is what its block still brings. *)
(***************************************************************************)
EXTENDS LockfileParsers, SequenceLemmas, FiniteSetTheorems

-----------------------------------------------------------------------------
(* Sequences. *)

\* What Append makes.
LEMMA AppendIs ==
  ASSUME NEW S, NEW s \in Seq(S), NEW e \in S
  PROVE  /\ Append(s, e) \in Seq(S)
         /\ Len(s) \in Nat /\ Len(Append(s, e)) = Len(s) + 1
         /\ DOMAIN s = 1..Len(s) /\ DOMAIN Append(s, e) = 1..(Len(s) + 1)
         /\ \A i \in 1..Len(s) : Append(s, e)[i] = s[i]
         /\ Append(s, e)[Len(s) + 1] = e
OBVIOUS

-----------------------------------------------------------------------------
(* npm: names and depths are read off the paths. *)

\* The parts of the paths of npm.
Parts == {"node_modules", "n", "@s", "w", "..", ""}

\* The last part of a path that npm installs something at, and what comes after.
LEMMA LastPart ==
  ASSUME NEW dir \in Seq(Parts), NEW n \in Seq(Parts \ {"node_modules"})
  PROVE  LET path == Npm!Under(dir, n)
             at == {i \in DOMAIN path : path[i] = "node_modules"}
         IN  /\ path \in Seq(Parts) /\ Len(path) = Len(dir) + 1 + Len(n)
             /\ at = {i \in 1..Len(dir) : dir[i] = "node_modules"} \cup {Len(dir) + 1}
             /\ Npm!Max(at) = Len(dir) + 1
             /\ SubSeq(path, Len(dir) + 2, Len(path)) = n
             /\ \A i \in 1..Len(dir) : path[i] = dir[i]
             /\ path[Len(dir) + 1] = "node_modules"
             /\ Npm!Range(path) = Npm!Range(dir) \cup {"node_modules"} \cup Npm!Range(n)
<1> DEFINE path == Npm!Under(dir, n)
           at == {i \in DOMAIN path : path[i] = "node_modules"}
<1>0. dir \in Seq(Parts) /\ n \in Seq(Parts) /\ \A i \in 1..Len(n) : n[i] # "node_modules"
  <2>1. n \in Seq(Parts)
    OBVIOUS
  <2>2. \A i \in 1..Len(n) : n[i] \in Parts \ {"node_modules"}
    OBVIOUS
  <2> QED BY <2>1, <2>2
<1>1. path = (dir \o <<"node_modules">>) \o n
  BY Zenon DEF Npm!Under
<1>2. /\ path \in Seq(Parts) /\ Len(path) = Len(dir) + 1 + Len(n)
      /\ \A i \in 1..Len(dir) : path[i] = dir[i]
      /\ path[Len(dir) + 1] = "node_modules"
      /\ \A i \in 1..Len(n) : path[Len(dir) + 1 + i] = n[i]
      /\ Len(dir) \in Nat /\ Len(n) \in Nat /\ DOMAIN path = 1..Len(path)
  <2> HIDE DEF path
  <2>0. "node_modules" \in Parts
    BY Zenon DEF Parts
  <2>1. <<"node_modules">> \in Seq(Parts)
    BY <2>0
  <2> DEFINE d == dir \o <<"node_modules">>
  <2>2. /\ d \in Seq(Parts) /\ Len(d) = Len(dir) + 1 /\ \A i \in 1..Len(dir) : d[i] = dir[i]
        /\ d[Len(dir) + 1] = "node_modules"
    BY <1>0, <2>1
  <2> HIDE DEF d
  <2> QED BY <1>0, <1>1, <2>2 DEF d
<1> HIDE DEF path
<1>3. at = {i \in 1..Len(dir) : dir[i] = "node_modules"} \cup {Len(dir) + 1}
  <2>1. \A i \in DOMAIN path : i > Len(dir) + 1 => path[i] # "node_modules"
    <3> SUFFICES ASSUME NEW i \in 1..Len(path), i > Len(dir) + 1 PROVE path[i] # "node_modules"
      BY <1>2
    <3> DEFINE k == i - (Len(dir) + 1)
    <3>1. k \in 1..Len(n) /\ i = Len(dir) + 1 + k
      BY <1>2
    <3> HIDE DEF k
    <3> QED BY <1>0, <1>2, <3>1, Zenon
  <2> QED BY <1>2, <2>1
<1>4. Npm!Max(at) = Len(dir) + 1
  <2>1. \A k \in at : k <= Len(dir) + 1 /\ k \in Nat
    BY <1>2, <1>3
  <2>2. Len(dir) + 1 \in at /\ Len(dir) + 1 \in Nat
    BY <1>2, <1>3
  <2> HIDE DEF at
  <2>3. at \in SUBSET (0..(Len(dir) + 1))
    BY <2>1, <2>2
  <2>4. Max(at) \in at /\ \A k \in at : Max(at) >= k
    BY <2>2, <2>3, GreatestNatural, Zenon
  <2>5. Max(at) = Npm!Max(at)
    BY Zenon DEF Max, Npm!Max
  <2> QED BY <2>1, <2>2, <2>4, <2>5
<1>5. SubSeq(path, Len(dir) + 2, Len(path)) = n
  <2> DEFINE u == SubSeq(path, Len(dir) + 2, Len(path))
  <2>1. u \in Seq(Parts) /\ Len(u) = Len(n) /\ \A k \in 1..Len(n) : u[k] = path[Len(dir) + 1 + k]
    BY <1>2
  <2> HIDE DEF u
  <2>2. \A k \in 1..Len(n) : u[k] = n[k]
    BY <1>2, <2>1
  <2>3. u = n
    BY <1>0, <2>1, <2>2
  <2> QED BY <2>3 DEF u
<1>6. Npm!Range(path) = Npm!Range(dir) \cup {"node_modules"} \cup Npm!Range(n)
  <2>1. \A t : Npm!Range(t) = Range(t)
    BY Zenon DEF Npm!Range, Range
  <2>2. "node_modules" \in Parts
    BY Zenon DEF Parts
  <2> DEFINE mid == <<"node_modules">>
  <2>3. mid \in Seq(Parts) /\ DOMAIN mid = {1} /\ mid[1] = "node_modules"
    BY <2>2
  <2> DEFINE d == dir \o mid
  <2>4. d \in Seq(Parts)
    BY <2>3, ConcatProperties, Zenon
  <2>5. Range(mid) = {"node_modules"}
    BY <2>3, Zenon DEF Range
  <2> HIDE DEF mid
  <2>6. Range(d) = Range(dir) \cup Range(mid)
    BY <1>0, <2>3, RangeConcatenation
  <2> HIDE DEF d
  <2>7. Range(d \o n) = Range(d) \cup Range(n)
    BY <1>0, <2>4, RangeConcatenation
  <2> QED BY <1>1, <2>1, <2>5, <2>6, <2>7, Zenon DEF mid, d
<1> QED BY <1>2, <1>3, <1>4, <1>5, <1>6, Zenon DEF path

\* The names that packages have here.
LEMMA NameIs ==
  ASSUME NEW n \in Npm!names
  PROVE  /\ n \in Seq(Parts \ {"node_modules"}) /\ n \in Seq({"n", "@s"})
         /\ (IF Head(n) = "@s" /\ Len(n) > 1 THEN SubSeq(n, 1, 2) ELSE <<Head(n)>>) = n
         /\ Npm!Range(n) \subseteq {"n", "@s"} /\ n # <<"">>
<1>0. {"n", "@s"} \subseteq Parts \ {"node_modules"}
  BY DEF Parts
<1>1. CASE n = <<"n">>
  <2>1. n \in Seq({"n", "@s"}) /\ Head(n) = "n" /\ DOMAIN n = {1} /\ n[1] = "n"
    BY <1>1
  <2>2. n # <<"">>
    BY <1>1
  <2> QED BY <1>0, <1>1, <2>1, <2>2, SeqMonotonic DEF Npm!Range
<1>2. CASE n = <<"@s", "n">>
  <2>1. /\ n \in Seq({"n", "@s"}) /\ Head(n) = "@s" /\ Len(n) = 2
        /\ DOMAIN n = {1, 2} /\ n[1] = "@s" /\ n[2] = "n"
    BY <1>2
  <2>3. SubSeq(n, 1, 2) = n
    BY <2>1, SubSeqFull
  <2>2. n # <<"">>
    BY <1>2
  <2> QED BY <1>0, <1>2, <2>1, <2>2, <2>3, SeqMonotonic DEF Npm!Range
<1> QED BY <1>1, <1>2 DEF Npm!names

\* One node_modules more.
LEMMA OneMorePart ==
  ASSUME NEW dir \in Seq(Parts), NEW n \in Seq(Parts \ {"node_modules"}),
         NEW k \in Nat, IsFiniteSet({i \in 1..Len(dir) : dir[i] = "node_modules"}),
         Cardinality({i \in 1..Len(dir) : dir[i] = "node_modules"}) = k
  PROVE  LET path == Npm!Under(dir, n)
         IN  /\ Npm!countNodeModules(path) = k
             /\ IsFiniteSet({i \in 1..Len(path) : path[i] = "node_modules"})
             /\ Cardinality({i \in 1..Len(path) : path[i] = "node_modules"}) = k + 1
<1> DEFINE path == Npm!Under(dir, n)
           before == {i \in 1..Len(dir) : dir[i] = "node_modules"}
           at == {i \in DOMAIN path : path[i] = "node_modules"}
<1>1. path \in Seq(Parts) /\ at = before \cup {Len(dir) + 1}
  BY LastPart, Zenon
<1>2. Len(dir) + 1 \notin before
  BY LenProperties
<1>3. IsFiniteSet(before) /\ Cardinality(before) = k
  BY Zenon
<1> DEFINE x == Len(dir) + 1
<1> HIDE DEF before, x
<1>4. IsFiniteSet(at) /\ Cardinality(at) = k + 1
  <2>1. x \notin before
    BY <1>2, Zenon DEF x
  <2>2. IsFiniteSet(before \cup {x}) /\ Cardinality(before \cup {x}) = k + 1
    BY <1>3, <2>1, FS_AddElement
  <2> QED BY <1>1, <2>2, Zenon DEF x
<1>5. DOMAIN path = 1..Len(path)
  BY <1>1
<1>6. Npm!countNodeModules(path) = Cardinality(at) - 1
  BY Zenon DEF Npm!countNodeModules, Npm!Cardinality, Cardinality
<1>7. Npm!countNodeModules(path) = k
  BY <1>4, <1>6
<1> HIDE DEF path
<1> QED BY <1>4, <1>5, <1>7, Zenon DEF path

\* Short paths, in two parts.
LEMMA TwoParts ==
  ASSUME NEW S, NEW a \in S, NEW b \in S, NEW c
  PROVE  /\ <<c>> \o <<a>> = <<c, a>> /\ <<a>> \in Seq(S)
         /\ <<c>> \o <<a, b>> = <<c, a, b>> /\ <<a, b>> \in Seq(S)
<1> DEFINE T == S \cup {c}
<1>1. <<c>> \in Seq(T) /\ Len(<<c>>) = 1 /\ <<c>>[1] = c
  OBVIOUS
<1>2. <<a>> \in Seq(S) /\ <<a>> \in Seq(T) /\ Len(<<a>>) = 1 /\ <<a>>[1] = a
  OBVIOUS
<1>3. /\ <<a, b>> \in Seq(S) /\ <<a, b>> \in Seq(T) /\ Len(<<a, b>>) = 2
      /\ <<a, b>>[1] = a /\ <<a, b>>[2] = b
  OBVIOUS
<1>4. /\ <<c, a>> \in Seq(T) /\ Len(<<c, a>>) = 2 /\ <<c, a>>[1] = c /\ <<c, a>>[2] = a
      /\ <<c, a, b>> \in Seq(T) /\ Len(<<c, a, b>>) = 3
      /\ <<c, a, b>>[1] = c /\ <<c, a, b>>[2] = a /\ <<c, a, b>>[3] = b
  OBVIOUS
<1> DEFINE u == <<c>> \o <<a>>
           v == <<c>> \o <<a, b>>
<1> HIDE DEF T
<1>5. u \in Seq(T) /\ Len(u) = 2 /\ u[1] = c /\ u[2] = a
  BY <1>1, <1>2
<1>6. v \in Seq(T) /\ Len(v) = 3 /\ v[1] = c /\ v[2] = a /\ v[3] = b
  BY <1>1, <1>3
<1> HIDE DEF u, v
<1>7. u = <<c, a>>
  BY <1>4, <1>5, SeqEqual
<1>8. v = <<c, a, b>>
  BY <1>4, <1>6, SeqEqual
<1> QED BY <1>2, <1>3, <1>7, <1>8, Zenon DEF u, v

\* A path of three parts.
LEMMA ThreeParts ==
  ASSUME NEW a, NEW b, NEW c
  PROVE  <<c>> \o <<a, b>> = <<c, a, b>>
<1> DEFINE S == {a, b, c}
<1>1. a \in S /\ b \in S
  BY Zenon
<1> HIDE DEF S
<1> QED BY <1>1, TwoParts, ZenonT(60)

\* What ReadPath lists.
Kept(p) ==
  /\ Npm!InProject(p.path) /\ ~Npm!HasTraversal(p.path)
  /\ Npm!extractName(p.path) # <<"">> /\ Npm!Valid(Npm!extractName(p.path))

\* A package of the project is listed as what it is.
LEMMA ProjectPath ==
  ASSUME NEW dir \in Seq(Parts), NEW n \in Npm!names, ".." \notin Npm!Range(dir),
         dir = <<>> \/ Npm!InProject(dir)
  PROVE  LET path == Npm!Under(dir, n)
         IN  /\ Npm!InProject(path) /\ ~Npm!HasTraversal(path)
             /\ Npm!extractName(path) = n /\ n # <<"">> /\ Npm!Valid(n)
<1> DEFINE path == Npm!Under(dir, n)
           at == {i \in DOMAIN path : path[i] = "node_modules"}
<1>1. /\ n \in Seq(Parts \ {"node_modules"}) /\ n # <<"">>
      /\ (IF Head(n) = "@s" /\ Len(n) > 1 THEN SubSeq(n, 1, 2) ELSE <<Head(n)>>) = n
      /\ Npm!Range(n) \subseteq {"n", "@s"}
  BY NameIs, Zenon
<1>2. /\ path \in Seq(Parts) /\ Len(path) = Len(dir) + 1 + Len(n)
      /\ Npm!Max(at) = Len(dir) + 1
      /\ SubSeq(path, Len(dir) + 2, Len(path)) = n
      /\ \A i \in 1..Len(dir) : path[i] = dir[i]
      /\ path[Len(dir) + 1] = "node_modules"
      /\ Npm!Range(path) = Npm!Range(dir) \cup {"node_modules"} \cup Npm!Range(n)
  BY <1>1, LastPart, Zenon
<1>3. Npm!extractName(path) = n
  <2>1. Len(dir) + 1 + 1 = Len(dir) + 2
    OBVIOUS
  <2> QED BY <1>1, <1>2, <2>1, Zenon DEF Npm!extractName
<1>4. ~Npm!HasTraversal(path)
  BY <1>1, <1>2 DEF Npm!HasTraversal
<1>5. Npm!Valid(n)
  BY <1>1 DEF Npm!Valid
<1>6. Npm!InProject(path)
  <2>1. Len(path) > 0 => path # <<>>
    OBVIOUS
  <2>2. Len(path) > 0 /\ (Len(dir) = 0 \/ 1 \in 1..Len(dir))
    <3>1. Len(dir) \in Nat /\ Len(n) \in Nat /\ Len(path) = Len(dir) + 1 + Len(n)
      BY <1>1, <1>2, LenProperties, Zenon
    <3> QED BY <3>1
  <2>3. Len(dir) = 0 => path[1] = "node_modules"
    BY <1>2
  <2>4. Len(dir) # 0 => Npm!InProject(dir)
    OBVIOUS
  <2> HIDE DEF path
  <2> QED BY <1>2, <2>1, <2>2, <2>3, <2>4, Zenon DEF Npm!InProject
<1> QED BY <1>1, <1>3, <1>4, <1>5, <1>6, Zenon

\* The packages that are listed are those of the project, with their names and
\* depths; no package of npm is a reason to refuse the file.
LEMMA PathIs ==
  ASSUME NEW p \in Npm!AllPaths
  PROVE  /\ p \in Npm!TopPaths \cup Npm!NestedPaths <=> Kept(p)
         /\ Kept(p) => /\ Npm!extractName(p.path) = p.name
                       /\ Npm!countNodeModules(p.path) = p.depth
                       /\ p.name \in Seq({"n", "@s"}) /\ p.depth \in Nat
         /\ p \in Npm!PackagePaths => Kept(p) \/ ~Npm!InProject(p.path)
<1>0. /\ <<>> \in Seq(Parts) /\ Npm!Range(<<>>) = {} /\ 0 \in Nat
      /\ {i \in 1..Len(<<>>) : <<>>[i] = "node_modules"} = {}
      /\ IsFiniteSet({}) /\ Cardinality({}) = 0
  BY FS_EmptySet DEF Npm!Range
<1>1. ASSUME NEW n \in Npm!names
      PROVE  LET path == Npm!Under(<<>>, n)
             IN  /\ path \in Seq(Parts) /\ ".." \notin Npm!Range(path) /\ Npm!InProject(path)
                 /\ Npm!countNodeModules(path) = 0
                 /\ IsFiniteSet({i \in 1..Len(path) : path[i] = "node_modules"})
                 /\ Cardinality({i \in 1..Len(path) : path[i] = "node_modules"}) = 1
                 /\ ~Npm!HasTraversal(path)
                 /\ Npm!extractName(path) = n /\ n # <<"">> /\ Npm!Valid(n)
  <2> DEFINE dir == <<>>
  <2>1. n \in Seq(Parts \ {"node_modules"})
    BY NameIs, Zenon
  <2>2. /\ dir \in Seq(Parts) /\ Npm!Range(dir) = {} /\ dir = <<>>
        /\ {i \in 1..Len(dir) : dir[i] = "node_modules"} = {}
    BY <1>0
  <2> HIDE DEF dir
  <2>3. /\ Npm!countNodeModules(Npm!Under(dir, n)) = 0
        /\ IsFiniteSet({i \in 1..Len(Npm!Under(dir, n)) : Npm!Under(dir, n)[i] = "node_modules"})
        /\ Cardinality({i \in 1..Len(Npm!Under(dir, n)) : Npm!Under(dir, n)[i] = "node_modules"})
             = 0 + 1
    BY <1>0, <2>1, <2>2, OneMorePart, ZenonT(60)
  <2>4. /\ Npm!Under(dir, n) \in Seq(Parts)
        /\ Npm!InProject(Npm!Under(dir, n)) /\ ~Npm!HasTraversal(Npm!Under(dir, n))
        /\ Npm!extractName(Npm!Under(dir, n)) = n /\ n # <<"">> /\ Npm!Valid(n)
    BY <2>1, <2>2, ProjectPath, LastPart, Zenon
  <2>5. ".." \notin Npm!Range(Npm!Under(dir, n))
    BY <2>4, Zenon DEF Npm!HasTraversal
  <2>6. 0 + 1 = 1
    OBVIOUS
  <2> QED BY <2>2, <2>3, <2>4, <2>5, <2>6, Zenon
<1>2. ASSUME p \in Npm!TopPaths
      PROVE  /\ Kept(p) /\ Npm!extractName(p.path) = p.name
             /\ Npm!countNodeModules(p.path) = p.depth
             /\ p.name \in Npm!names /\ p.depth = 0 /\ p.path = Npm!Under(<<>>, p.name)
  <2>1. PICK n \in Npm!names : p = [path |-> Npm!Under(<<>>, n), name |-> n, depth |-> 0]
    BY <1>2, Zenon DEF Npm!TopPaths
  <2>2. p.path = Npm!Under(<<>>, n) /\ p.name = n /\ p.depth = 0
    BY <2>1, Zenon
  <2> QED BY <1>1, <2>2, Zenon DEF Kept
<1>3. ASSUME p \in Npm!NestedPaths
      PROVE  /\ Kept(p) /\ Npm!extractName(p.path) = p.name
             /\ Npm!countNodeModules(p.path) = p.depth
             /\ p.name \in Npm!names /\ p.depth = 1
  <2>1. PICK q \in Npm!TopPaths, n \in Npm!names :
          p = [path |-> Npm!Under(q.path, n), name |-> n, depth |-> q.depth + 1]
    BY <1>3 DEF Npm!NestedPaths
  <2>2. PICK m \in Npm!names : q = [path |-> Npm!Under(<<>>, m), name |-> m, depth |-> 0]
    BY Zenon DEF Npm!TopPaths
  <2> DEFINE dir == Npm!Under(<<>>, m)
  <2>3. q.path = dir /\ q.depth = 0
    BY <2>2, Zenon
  <2>4. p.path = Npm!Under(dir, n) /\ p.name = n /\ p.depth = 1
    BY <2>1, <2>3
  <2>5. /\ dir \in Seq(Parts) /\ ".." \notin Npm!Range(dir) /\ Npm!InProject(dir)
        /\ IsFiniteSet({i \in 1..Len(dir) : dir[i] = "node_modules"})
        /\ Cardinality({i \in 1..Len(dir) : dir[i] = "node_modules"}) = 1
    BY <1>1, Zenon
  <2>6. n \in Seq(Parts \ {"node_modules"})
    BY NameIs, Zenon
  <2> HIDE DEF dir
  <2>7. Npm!countNodeModules(Npm!Under(dir, n)) = 1
    BY <2>5, <2>6, OneMorePart, 1 \in Nat
  <2>8. /\ Npm!InProject(Npm!Under(dir, n)) /\ ~Npm!HasTraversal(Npm!Under(dir, n))
        /\ Npm!extractName(Npm!Under(dir, n)) = n /\ n # <<"">> /\ Npm!Valid(n)
    BY <2>5, ProjectPath, Zenon
  <2> QED BY <2>4, <2>7, <2>8, Zenon DEF Kept
<1>4. ASSUME p \in Npm!WorkspacePaths PROVE ~Npm!InProject(p.path)
  <2>1. ASSUME NEW dir \in Seq(Parts), NEW n \in Seq(Parts \ {"node_modules"}),
               Len(dir) > 0, dir[1] = "w"
        PROVE  LET path == Npm!Under(dir, n)
               IN  path \in Seq(Parts) /\ Len(path) > 0 /\ path[1] = "w"
    <3>1. 1 \in 1..Len(dir)
      BY <2>1
    <3>2. /\ Npm!Under(dir, n) \in Seq(Parts)
          /\ Len(Npm!Under(dir, n)) = Len(dir) + 1 + Len(n)
          /\ Npm!Under(dir, n)[1] = dir[1]
      BY <3>1, LastPart, Zenon
    <3>3. Len(Npm!Under(dir, n)) > 0
      BY <2>1, <3>2
    <3> QED BY <2>1, <3>2, <3>3, Zenon
  <2>2. <<"w">> \in Seq(Parts) /\ Len(<<"w">>) > 0 /\ <<"w">>[1] = "w"
    <3>1. "w" \in Parts
      BY DEF Parts
    <3> QED BY <3>1
  <2>3. <<"n">> \in Seq(Parts \ {"node_modules"})
    BY NameIs, Zenon DEF Npm!names
  <2>4. p.path \in {Npm!Under(<<"w">>, <<"n">>), Npm!Under(Npm!Under(<<"w">>, <<"n">>), <<"n">>)}
    BY <1>4 DEF Npm!WorkspacePaths
  <2>5. p.path[1] = "w"
    BY <2>1, <2>2, <2>3, <2>4, Zenon
  <2> QED BY <2>5, Zenon DEF Npm!InProject
<1>5. ASSUME p \in Npm!OtherPaths PROVE ~Kept(p)
  <2>1. p.path \in {<<>>, <<"w">>, <<"node_modules", "..", "n">>, <<"node_modules", "">>,
                    <<"node_modules", "@s", "">>}
    <3> DEFINE O == {<<>>, <<"w">>, <<"node_modules", "..", "n">>, <<"node_modules", "">>,
                     <<"node_modules", "@s", "">>}
    <3>1. Npm!OtherPaths = {[path |-> q, name |-> <<>>, depth |-> 0] : q \in O}
      BY Zenon DEF Npm!OtherPaths
    <3> HIDE DEF O
    <3>2. PICK q \in O : p = [path |-> q, name |-> <<>>, depth |-> 0]
      BY <1>5, <3>1, Zenon
    <3>3. p.path = q
      BY <3>2, Zenon
    <3> QED BY <3>3, Zenon DEF O
  <2>2. CASE p.path = <<>>
    BY <2>2, Zenon DEF Kept, Npm!InProject
  <2>3. CASE p.path = <<"w">>
    BY <2>3 DEF Kept, Npm!InProject
  <2>4. CASE p.path = <<"node_modules", "..", "n">>
    <3>1. 2 \in DOMAIN p.path /\ p.path[2] = ".."
      BY <2>4
    <3> QED BY <3>1, Zenon DEF Kept, Npm!HasTraversal, Npm!Range
  <2>5. ASSUME NEW n \in Seq(Parts \ {"node_modules"}), p.path = <<"node_modules">> \o n
        PROVE  Npm!extractName(p.path)
                 = IF Head(n) = "@s" /\ Len(n) > 1 THEN SubSeq(n, 1, 2) ELSE <<Head(n)>>
    <3> DEFINE dir == <<>>
               path == Npm!Under(dir, n)
               at == {i \in DOMAIN path : path[i] = "node_modules"}
    <3>1. dir \in Seq(Parts) /\ Len(dir) = 0
      OBVIOUS
    <3>2. p.path = path
      <4>1. dir \o <<"node_modules">> = <<"node_modules">>
        OBVIOUS
      <4> HIDE DEF dir
      <4> QED BY <2>5, <4>1, Zenon DEF Npm!Under
    <3> HIDE DEF dir
    <3>3. Npm!Max(at) = Len(dir) + 1 /\ SubSeq(path, Len(dir) + 2, Len(path)) = n
      BY <3>1, LastPart, Zenon
    <3>4. Len(dir) + 1 + 1 = Len(dir) + 2
      BY <3>1
    <3>5. Npm!extractName(path)
            = IF Head(n) = "@s" /\ Len(n) > 1 THEN SubSeq(n, 1, 2) ELSE <<Head(n)>>
      BY <3>3, <3>4, Zenon DEF Npm!extractName
    <3> HIDE DEF path
    <3> QED BY <3>2, <3>5, Zenon
  <2>6. CASE p.path = <<"node_modules", "">>
    <3>1. <<"">> \in Seq(Parts \ {"node_modules"}) /\ p.path = <<"node_modules">> \o <<"">>
      <4>1. "" \in Parts \ {"node_modules"}
        BY DEF Parts
      <4> QED BY <2>6, <4>1, TwoParts
    <3>2. Head(<<"">>) # "@s" /\ <<Head(<<"">>)>> = <<"">>
      OBVIOUS
    <3> QED BY <2>5, <3>1, <3>2, Zenon DEF Kept
  <2>7. CASE p.path = <<"node_modules", "@s", "">>
    <3> DEFINE n == <<"@s", "">>
    <3>1. n \in Seq(Parts \ {"node_modules"}) /\ p.path = <<"node_modules">> \o n
      <4> DEFINE S == Parts \ {"node_modules"}
      <4>1. "" \in S /\ "@s" \in S
        BY DEF Parts
      <4> HIDE DEF S
      <4>2. <<"@s", "">> \in Seq(S)
        <5>1. \A a, b \in S : <<a, b>> \in Seq(S)
          OBVIOUS
        <5> QED BY <4>1, <5>1, Zenon
      <4>3. <<"node_modules">> \o <<"@s", "">> = <<"node_modules", "@s", "">>
        BY ThreeParts
      <4> QED BY <2>7, <4>2, <4>3, Zenon DEF S
    <3>2. Head(n) = "@s" /\ Len(n) = 2 /\ Len(n) > 1 /\ 2 \in DOMAIN n /\ n[2] = ""
      OBVIOUS
    <3> HIDE DEF n
    <3>3. SubSeq(n, 1, 2) = n
      BY <3>1, <3>2, SubSeqFull
    <3>4. Npm!extractName(p.path) = n
      BY <2>5, <3>1, <3>2, <3>3, Zenon
    <3> QED BY <3>2, <3>4, Zenon DEF Kept, Npm!Valid, Npm!Range
  <2> QED BY <2>1, <2>2, <2>3, <2>4, <2>6, <2>7, Zenon
<1>6. p.name \in Npm!names => p.name \in Seq({"n", "@s"})
  BY NameIs, Zenon
<1>7. 0 \in Nat /\ 1 \in Nat
  OBVIOUS
<1> QED
  BY <1>2, <1>3, <1>4, <1>5, <1>6, <1>7, Zenon DEF Npm!AllPaths, Npm!PackagePaths, Kept

\* The inductive invariant of npm: what is read so far is listed so far.
NpmListed ==
  {<<entries[i].line, entries[i].name, entries[i].depth>> : i \in DOMAIN entries}
    = {<<i, file[i].name, file[i].depth>> :
         i \in {j \in DOMAIN file : file[j] \in Npm!TopPaths \cup Npm!NestedPaths}}

NpmInv ==
  /\ Npm!TypeOK
  /\ Npm!InOrder
  /\ result # "rejected" => NpmListed
  /\ result = "rejected" /\ file # <<>> => file[Len(file)] \notin Npm!PackagePaths

\* One more element at the end of a list that is in order.
LEMMA OrderedAppend ==
  ASSUME NEW S, NEW n \in Nat, NEW es \in Seq(S), NEW e \in S,
         \A i \in 1..Len(es) : es[i].line \in 0..n, e.line = n + 1,
         \A i, j \in 1..Len(es) : i < j => es[i].line < es[j].line
  PROVE  \A i, j \in 1..Len(Append(es, e)) :
           i < j => Append(es, e)[i].line < Append(es, e)[j].line
<1>1. /\ Len(es) \in Nat /\ Len(Append(es, e)) = Len(es) + 1
      /\ \A i \in 1..Len(es) : Append(es, e)[i] = es[i]
      /\ Append(es, e)[Len(es) + 1] = e
  BY AppendIs
<1> DEFINE a == Append(es, e)
<1> HIDE DEF a
<1> SUFFICES ASSUME NEW i \in 1..(Len(es) + 1), NEW j \in 1..(Len(es) + 1), i < j
             PROVE  a[i].line < a[j].line
  BY <1>1 DEF a
<1>2. i \in 1..Len(es) /\ a[i] = es[i]
  BY <1>1 DEF a
<1>3. CASE j \in 1..Len(es)
  BY <1>1, <1>2, <1>3 DEF a
<1>4. CASE j = Len(es) + 1
  BY <1>1, <1>2, <1>4 DEF a
<1> QED BY <1>1, <1>3, <1>4

\* npm begins in its invariant.
LEMMA NpmInit ==
  ASSUME Npm!Init PROVE NpmInv
<1>1. file \in Seq(Npm!AllPaths)
      /\ entries \in Seq([line : DOMAIN file, name : Seq({"n", "@s"}), depth : Nat])
  BY DEF Npm!Init
<1>2. DOMAIN file = {} /\ DOMAIN entries = {} /\ Len(file) = 0
  BY DEF Npm!Init
<1>3. scope \in NpmScopes /\ scope.lines \in Nat
  BY ParsersAssumption DEF Npm!Init, Npm!ParserAssumption
<1> QED BY <1>1, <1>2, <1>3 DEF Npm!Init, NpmInv, NpmListed, Npm!TypeOK, Npm!InOrder

\* Every step of npm keeps it: a path below node_modules gives its name and its depth.
LEMMA NpmStep ==
  ASSUME NpmInv, Npm!Next PROVE NpmInv'
<1> DEFINE PathEntry(f) == [line : DOMAIN f, name : Seq({"n", "@s"}), depth : Nat]
           T == Npm!TopPaths \cup Npm!NestedPaths
<1>0. /\ scope \in NpmScopes /\ file \in Seq(Npm!AllPaths) /\ Len(file) <= scope.lines
      /\ entries \in Seq(PathEntry(file)) /\ result \in {"reading", "listed", "rejected"}
  BY Zenon DEF NpmInv, Npm!TypeOK
<1>1. ASSUME NEW p \in Npm!AllPaths, Npm!ReadPath(p) PROVE NpmInv'
  <2> DEFINE e == [line |-> Len(file'), name |-> Npm!extractName(p.path),
                   depth |-> Npm!countNodeModules(p.path)]
  <2>1. /\ result = "reading" /\ Len(file) < scope.lines /\ scope' = scope
        /\ file' = Append(file, p)
    BY <1>1, Zenon DEF Npm!ReadPath
  <2>2. \/ entries' = entries /\ result' = result /\ ~Kept(p)
        \/ entries' = entries /\ result' = "rejected" /\ ~Kept(p) /\ Npm!InProject(p.path)
        \/ entries' = Append(entries, e) /\ result' = result /\ Kept(p)
    <3> DEFINE name == Npm!extractName(p.path)
    <3>1. ~Npm!Valid(<<"">>)
      <4>1. 1 \in DOMAIN <<"">> /\ <<"">>[1] = ""
        OBVIOUS
      <4> QED BY <4>1, Zenon DEF Npm!Valid, Npm!Range
    <3>2. \/ ~Npm!InProject(p.path) /\ UNCHANGED <<entries, result>>
          \/ /\ Npm!InProject(p.path) /\ Npm!HasTraversal(p.path)
             /\ result' = "rejected" /\ entries' = entries
          \/ /\ Npm!InProject(p.path) /\ ~Npm!HasTraversal(p.path)
             /\ CASE name = <<"">> -> UNCHANGED <<entries, result>>
                  [] name # <<"">> /\ ~Npm!Valid(name) -> result' = "rejected" /\ UNCHANGED entries
                  [] Npm!Valid(name) -> /\ entries' = Append(entries, e)
                                       /\ UNCHANGED result
      BY <1>1, Zenon DEF Npm!ReadPath
    <3>3. Kept(p) <=> /\ Npm!InProject(p.path) /\ ~Npm!HasTraversal(p.path)
                      /\ name # <<"">> /\ Npm!Valid(name)
      BY Zenon DEF Kept
    <3> HIDE DEF name, e
    <3> QED BY <3>1, <3>2, <3>3
  <2>3. /\ file' \in Seq(Npm!AllPaths) /\ Len(file') = Len(file) + 1 /\ Len(file) \in Nat
        /\ DOMAIN file = 1..Len(file) /\ DOMAIN file' = 1..(Len(file) + 1)
        /\ \A i \in 1..Len(file) : file'[i] = file[i]
        /\ file'[Len(file) + 1] = p /\ file' # <<>>
    <3> DEFINE S == Npm!AllPaths
    <3>1. file \in Seq(S) /\ p \in S
      BY <1>0, Zenon
    <3> HIDE DEF S, e, PathEntry
    <3>2. /\ Append(file, p) \in Seq(S)
          /\ Len(file) \in Nat /\ Len(Append(file, p)) = Len(file) + 1
          /\ DOMAIN file = 1..Len(file) /\ DOMAIN Append(file, p) = 1..(Len(file) + 1)
          /\ \A i \in 1..Len(file) : Append(file, p)[i] = file[i]
          /\ Append(file, p)[Len(file) + 1] = p
      BY <3>1, AppendIs
    <3>3. Append(file, p) # <<>>
      BY <3>2
    <3> QED BY <2>1, <3>2, <3>3, Zenon DEF S
  <2>4. Len(file') <= scope'.lines
    BY <1>0, <2>1, <2>3, ParsersAssumption DEF Npm!ParserAssumption
  <2>5. entries \in Seq(PathEntry(file'))
    <3>1. PathEntry(file) \subseteq PathEntry(file')
      BY <2>3
    <3> QED BY <1>0, <3>1, SeqMonotonic, Zenon
  <2>6. \A i \in 1..Len(entries) : entries[i].line \in 0..Len(file)
    <3>1. \A i \in 1..Len(entries) : entries[i] \in PathEntry(file)
      <4> HIDE DEF PathEntry
      <4> QED BY <1>0
    <3>2. \A x \in PathEntry(file) : x.line \in 1..Len(file)
      BY <2>3, Zenon
    <3>3. 1..Len(file) \subseteq 0..Len(file)
      BY <2>3
    <3> QED BY <3>1, <3>2, <3>3, Zenon
  <2>7. p \in T <=> Kept(p)
    BY PathIs, Zenon
  <2> DEFINE Said(f) == {<<i, f[i].name, f[i].depth>> : i \in {j \in DOMAIN f : f[j] \in T}}
             Listed(es) == {<<es[i].line, es[i].name, es[i].depth>> : i \in DOMAIN es}
  <2>8. Listed(entries) = Said(file)
    BY <2>1, Zenon DEF NpmInv, NpmListed
  <2>9. NpmListed' <=> Listed(entries') = Said(file')
    BY Zenon DEF NpmListed
  <2>10. ASSUME ~Kept(p), entries' = entries,
                result' = result \/ (result' = "rejected" /\ Npm!InProject(p.path))
         PROVE  NpmInv'
    <3>1. Said(file') = Said(file)
      <4> HIDE DEF T
      <4> QED BY <2>3, <2>7, <2>10
    <3>2. NpmListed'
      BY <2>8, <2>9, <2>10, <3>1, Zenon
    <3>3. Npm!TypeOK'
      BY <1>0, <2>1, <2>3, <2>4, <2>5, <2>10, Zenon DEF Npm!TypeOK
    <3>4. Npm!InOrder'
      BY <2>10, Zenon DEF NpmInv, Npm!InOrder
    <3>5. result' = "rejected" => p \notin Npm!PackagePaths
      BY <2>1, <2>10, PathIs, Zenon
    <3> QED BY <2>1, <2>3, <3>2, <3>3, <3>4, <3>5, Zenon DEF NpmInv
  <2>11. ASSUME Kept(p), entries' = Append(entries, e), result' = result
         PROVE  NpmInv'
    <3>1. /\ e \in PathEntry(file') /\ e.line = Len(file) + 1 /\ e.name = p.name
          /\ e.depth = p.depth
      <4>1. /\ Npm!extractName(p.path) = p.name /\ Npm!countNodeModules(p.path) = p.depth
            /\ p.name \in Seq({"n", "@s"}) /\ p.depth \in Nat
        BY <2>11, PathIs, Zenon
      <4> QED BY <2>3, <4>1
    <3> HIDE DEF e
    <3>2. Npm!TypeOK'
      <4>1. entries' \in Seq(PathEntry(file'))
        BY <2>5, <2>11, <3>1, AppendIs, Zenon
      <4> QED BY <1>0, <2>1, <2>3, <2>4, <2>11, <4>1, Zenon DEF Npm!TypeOK
    <3>3. /\ Len(entries) \in Nat /\ DOMAIN entries = 1..Len(entries)
          /\ DOMAIN entries' = 1..(Len(entries) + 1) /\ Len(entries') = Len(entries) + 1
          /\ \A i \in 1..Len(entries) : entries'[i] = entries[i]
          /\ entries'[Len(entries) + 1] = e
      <4>1. entries \in Seq(PathEntry(file')) /\ e \in PathEntry(file')
        BY <2>5, <3>1, Zenon
      <4> HIDE DEF PathEntry
      <4> QED BY <2>11, <4>1, AppendIs
    <3>4. Npm!InOrder'
      <4>1. \A i, j \in 1..Len(entries) : i < j => entries[i].line < entries[j].line
        BY <3>3, Zenon DEF NpmInv, Npm!InOrder
      <4>2. \A i, j \in 1..Len(entries') : i < j => entries'[i].line < entries'[j].line
        BY <2>3, <2>5, <2>6, <2>11, <3>1, <4>1, OrderedAppend, Zenon
      <4> QED BY <3>3, <4>2, Zenon DEF Npm!InOrder
    <3>5. Said(file') = Said(file) \cup {<<Len(file) + 1, p.name, p.depth>>}
      <4>1. p \in T
        BY <2>7, <2>11, Zenon
      <4> HIDE DEF T
      <4> QED BY <2>3, <4>1
    <3>6. Listed(entries') = Listed(entries) \cup {<<e.line, e.name, e.depth>>}
      BY <3>3
    <3>7. NpmListed'
      BY <2>8, <2>9, <3>1, <3>5, <3>6, Zenon
    <3> QED BY <2>1, <2>11, <3>2, <3>4, <3>7, Zenon DEF NpmInv
  <2> QED BY <2>2, <2>10, <2>11, Zenon
<1>2. ASSUME Npm!Unsupported PROVE NpmInv'
  BY <1>2 DEF NpmInv, NpmListed, Npm!TypeOK, Npm!InOrder, Npm!Unsupported
<1>3. ASSUME Npm!EndOfFile PROVE NpmInv'
  BY <1>3 DEF NpmInv, NpmListed, Npm!TypeOK, Npm!InOrder, Npm!EndOfFile
<1> QED BY <1>1, <1>2, <1>3, Zenon DEF Npm!Next

-----------------------------------------------------------------------------
(* Lists of entries, and the blocks of a file. *)

\* The lines of a list, and that they increase.
LinesOf(es) == {es[i].line : i \in 1..Len(es)}
Ordered(es) == \A i, j \in 1..Len(es) : i < j => es[i].line < es[j].line

\* The lines after i up to the next one that ends a block.
Own(fl, ends, i) == {f \in i+1..Len(fl) : \A j \in i+1..f : fl[j].word \notin ends}

\* No line after i ends a block.
StillOpen(fl, ends, i) == \A j \in i+1..Len(fl) : fl[j].word \notin ends

\* The blocks that the properties of the parsers speak of.
LEMMA BlockIs ==
  ASSUME NEW fl, Len(fl) \in Nat, NEW ends, NEW i \in Nat
  PROVE  LET E == {j \in i+1..Len(fl) : fl[j].word \in ends}
         IN  i+1 .. Min(E \cup {Len(fl) + 1}) - 1 = Own(fl, ends, i)
<1> DEFINE E == {j \in i+1..Len(fl) : fl[j].word \in ends}
           T == E \cup {Len(fl) + 1}
           m == Min(T)
<1>1. m \in T /\ \A k \in T : m <= k
  <2>1. T \in SUBSET Nat /\ T # {}
    OBVIOUS
  <2>2. \E k \in T : \A j \in T : k <= j
    BY <2>1, LeastNatural, Zenon
  <2> HIDE DEF T
  <2>3. Min(T) \in T /\ \A k \in T : Min(T) <= k
    BY <2>2, Zenon DEF Min
  <2> QED BY <2>3, Zenon
<1> HIDE DEF m
<1>2. ASSUME NEW f \in i+1..m-1 PROVE f \in Own(fl, ends, i)
  <2>1. f \in i+1..Len(fl)
    BY <1>1
  <2>2. ASSUME NEW j \in i+1..f, fl[j].word \in ends PROVE FALSE
    <3>1. j \in E
      BY <2>1, <2>2
    <3> QED BY <1>1, <3>1
  <2> QED BY <2>1, <2>2 DEF Own
<1>3. ASSUME NEW f \in Own(fl, ends, i) PROVE f \in i+1..m-1
  <2>1. f \in i+1..Len(fl) /\ \A j \in i+1..f : fl[j].word \notin ends
    BY DEF Own
  <2>2. CASE m = Len(fl) + 1
    BY <2>1, <2>2
  <2>3. CASE m \in E
    <3>1. m \notin i+1..f
      BY <2>1, <2>3
    <3> QED BY <2>1, <2>3, <3>1
  <2> QED BY <1>1, <2>2, <2>3
<1>4. Own(fl, ends, i) = i+1..m-1
  BY <1>2, <1>3
<1> QED BY <1>4, Zenon DEF m

\* A block keeps its lines when the file grows,
LEMMA OwnGrows ==
  ASSUME NEW S, NEW fl \in Seq(S), NEW l \in S, NEW ends, NEW i \in Nat
  PROVE  /\ Own(fl, ends, i) \subseteq Own(Append(fl, l), ends, i)
         /\ StillOpen(fl, ends, i) /\ i <= Len(fl) /\ l.word \notin ends =>
              /\ StillOpen(Append(fl, l), ends, i)
              /\ Len(fl) + 1 \in Own(Append(fl, l), ends, i)
<1> DEFINE g == Append(fl, l)
<1>1. /\ Len(fl) \in Nat /\ Len(g) = Len(fl) + 1 /\ \A k \in 1..Len(fl) : g[k] = fl[k]
      /\ g[Len(fl) + 1] = l
  BY AppendIs
<1> HIDE DEF g
<1>2. Own(fl, ends, i) \subseteq Own(g, ends, i)
  <2> SUFFICES ASSUME NEW f \in i+1..Len(fl), \A j \in i+1..f : fl[j].word \notin ends
               PROVE  f \in i+1..Len(g) /\ \A j \in i+1..f : g[j].word \notin ends
    BY DEF Own
  <2>1. f \in i+1..Len(g)
    BY <1>1
  <2>2. \A j \in i+1..f : j \in 1..Len(fl)
    BY <1>1
  <2> QED BY <1>1, <2>1, <2>2
<1>3. ASSUME StillOpen(fl, ends, i), i <= Len(fl), l.word \notin ends
      PROVE  StillOpen(g, ends, i) /\ Len(fl) + 1 \in Own(g, ends, i)
  <2>1. \A j \in i+1..Len(g) : (j \in 1..Len(fl) /\ j \in i+1..Len(fl)) \/ j = Len(fl) + 1
    BY <1>1
  <2>2. StillOpen(g, ends, i)
    BY <1>1, <1>3, <2>1 DEF StillOpen
  <2>3. Len(fl) + 1 \in i+1..Len(g)
    BY <1>1, <1>3
  <2> QED BY <1>1, <2>2, <2>3 DEF StillOpen, Own
<1> QED BY <1>2, <1>3 DEF g

\* A list with one more entry, of the line that is read.
LEMMA ListGrows ==
  ASSUME NEW S, NEW es \in Seq(S), NEW e \in S
  PROVE  /\ Append(es, e) \in Seq(S) /\ Len(Append(es, e)) = Len(es) + 1 /\ Len(es) \in Nat
         /\ LinesOf(Append(es, e)) = LinesOf(es) \cup {e.line}
         /\ \A i \in 1..Len(Append(es, e)) :
              (i \in 1..Len(es) /\ Append(es, e)[i] = es[i])
                \/ (i = Len(es) + 1 /\ Append(es, e)[i] = e)
         /\ \A n \in Nat : /\ Ordered(es) /\ e.line = n + 1
                           /\ \A i \in 1..Len(es) : es[i].line \in 1..n
                           => Ordered(Append(es, e))
<1> DEFINE a == Append(es, e)
<1>1. /\ a \in Seq(S) /\ Len(es) \in Nat /\ Len(a) = Len(es) + 1
      /\ \A i \in 1..Len(es) : a[i] = es[i]
      /\ a[Len(es) + 1] = e
  BY AppendIs
<1> HIDE DEF a
<1>2. \A i \in 1..Len(a) : (i \in 1..Len(es) /\ a[i] = es[i]) \/ (i = Len(es) + 1 /\ a[i] = e)
  BY <1>1
<1>3. 1..Len(es) \subseteq 1..Len(a) /\ Len(es) + 1 \in 1..Len(a)
  BY <1>1
<1>4. LinesOf(a) = LinesOf(es) \cup {e.line}
  BY <1>1, <1>2, <1>3, Zenon DEF LinesOf
<1>5. ASSUME NEW n \in Nat, Ordered(es), e.line = n + 1,
             \A i \in 1..Len(es) : es[i].line \in 1..n
      PROVE  Ordered(a)
  <2> SUFFICES ASSUME NEW i \in 1..Len(a), NEW j \in 1..Len(a), i < j
               PROVE  a[i].line < a[j].line
    BY DEF Ordered
  <2>1. i \in 1..Len(es) /\ a[i] = es[i]
    BY <1>1
  <2>2. CASE j \in 1..Len(es) /\ a[j] = es[j]
    BY <1>5, <2>1, <2>2 DEF Ordered
  <2>3. CASE j = Len(es) + 1 /\ a[j] = e
    BY <1>5, <2>1, <2>3
  <2> QED BY <1>2, <2>2, <2>3
<1> QED BY <1>1, <1>2, <1>4, <1>5, Zenon DEF a

\* A list whose last entry is read on.
LEMMA ListChanges ==
  ASSUME NEW S, NEW es \in Seq(S), NEW e \in S, NEW d \in S, d.line = e.line
  PROVE  /\ LinesOf(Append(es, d)) = LinesOf(Append(es, e))
         /\ Ordered(Append(es, e)) => Ordered(Append(es, d))
<1> DEFINE a == Append(es, e)
           b == Append(es, d)
<1>1. /\ Len(es) \in Nat /\ Len(a) = Len(es) + 1
      /\ \A i \in 1..Len(a) :
           (i \in 1..Len(es) /\ a[i] = es[i]) \/ (i = Len(es) + 1 /\ a[i] = e)
      /\ LinesOf(a) = LinesOf(es) \cup {e.line}
  BY ListGrows
<1>2. /\ Len(b) = Len(es) + 1
      /\ \A i \in 1..Len(b) :
           (i \in 1..Len(es) /\ b[i] = es[i]) \/ (i = Len(es) + 1 /\ b[i] = d)
      /\ LinesOf(b) = LinesOf(es) \cup {d.line}
  BY ListGrows
<1> HIDE DEF a, b
<1>3. \A i \in 1..Len(b) : i \in 1..Len(a) /\ b[i].line = a[i].line
  BY <1>1, <1>2
<1>4. Ordered(a) => Ordered(b)
  BY <1>3, Zenon DEF Ordered
<1>5. LinesOf(b) = LinesOf(a)
  BY <1>1, <1>2
<1> QED BY <1>4, <1>5, Zenon DEF a, b

-----------------------------------------------------------------------------
(* pnpm: the name and the version in a key. *)

\* The last place of a token, or 0.
LastIn(s, token) == Max({0} \cup {i \in DOMAIN s : s[i] = token})

\* The last place of a token is one, or there is none.
LEMMA LastInIs ==
  ASSUME NEW S, NEW s \in Seq(S), NEW token
  PROVE  /\ LastIn(s, token) \in 0..Len(s)
         /\ LastIn(s, token) # 0 => s[LastIn(s, token)] = token
         /\ \A k \in 1..Len(s) : s[k] = token => k <= LastIn(s, token)
         /\ Pnpm!LastAt(s, token) = LastIn(s, token)
         /\ Yarn!LastAt(s, token) = LastIn(s, token)
         /\ Bun!LastAt(s, token) = LastIn(s, token)
<1> DEFINE T == {0} \cup {i \in DOMAIN s : s[i] = token}
<1>1. T \in SUBSET (0..Len(s)) /\ T # {} /\ Len(s) \in Nat
  OBVIOUS
<1>2. Max(T) \in T /\ \A k \in T : Max(T) >= k
  BY <1>1, GreatestNatural, Zenon
<1>3. LastIn(s, token) = Max(T)
  BY Zenon DEF LastIn
<1>4. /\ Pnpm!LastAt(s, token) = Max(T)
      /\ Yarn!LastAt(s, token) = Max(T)
      /\ Bun!LastAt(s, token) = Max(T)
  BY Zenon DEF Pnpm!LastAt, Pnpm!Max, Yarn!LastAt, Yarn!Max, Bun!LastAt, Bun!Max, Max
<1> DEFINE m == Max(T)
<1> HIDE DEF m
<1>5. m \in T /\ \A k \in T : m >= k
  BY <1>2 DEF m
<1>6. /\ m \in 0..Len(s) /\ (m # 0 => s[m] = token)
      /\ \A k \in 1..Len(s) : s[k] = token => k <= m
  BY <1>1, <1>5
<1> QED BY <1>3, <1>4, <1>6, Zenon DEF m

\* The tokens of every key are tokens.
LEMMA PnpmKeyType ==
  ASSUME NEW key \in Seq(Pnpm!Tokens), key # <<>>
  PROVE  /\ Pnpm!KeyName(key) \in Seq(Pnpm!Tokens)
         /\ Pnpm!KeyVersion(key) \in Seq(Pnpm!Tokens)
<1> DEFINE rest == Pnpm!Unslashed(key)
           cut == Pnpm!SplitAt(key)
           T == Pnpm!Tokens
<1>1. rest \in Seq(T)
  <2>1. Tail(key) \in Seq(T)
    OBVIOUS
  <2> QED BY <2>1, Zenon DEF Pnpm!Unslashed
<1>2. cut \in 0..Len(rest)
  <2>1. \A t : Pnpm!LastAt(rest, t) \in 0..Len(rest)
    BY <1>1, LastInIs, ZenonT(60)
  <2>2. cut = Pnpm!LastAt(rest, "/") \/ cut = Pnpm!LastAt(rest, "@")
    BY Zenon DEF Pnpm!SplitAt
  <2> QED BY <2>1, <2>2, Zenon
<1>3. "/" \in T
  BY DEF Pnpm!Tokens
<1>4. /\ Pnpm!KeyName(key) = [i \in 1..cut - 1 |-> IF rest[i] = "%2F" THEN "/" ELSE rest[i]]
      /\ Pnpm!KeyVersion(key) = SubSeq(rest, cut + 1, Len(rest))
  BY Zenon DEF Pnpm!KeyName, Pnpm!KeyVersion
<1> HIDE DEF rest, cut, T
<1>5. SubSeq(rest, cut + 1, Len(rest)) \in Seq(T)
  BY <1>1, <1>2
<1>6. [i \in 1..cut - 1 |-> IF rest[i] = "%2F" THEN "/" ELSE rest[i]] \in Seq(T)
  <2>1. \A i \in 1..cut - 1 : rest[i] \in T
    BY <1>1, <1>2
  <2>2. PICK n \in Nat : 1..cut - 1 = 1..n
    <3>1. CASE cut = 0
      <4>1. 1..cut - 1 = 1..0 /\ 0 \in Nat
        BY <3>1
      <4> QED BY <4>1, Zenon
    <3>2. CASE cut > 0
      <4>1. cut - 1 \in Nat
        BY <1>1, <1>2, <3>2
      <4> QED BY <4>1, Zenon
    <3> QED BY <1>1, <1>2, <3>1, <3>2
  <2>3. \A i \in 1..n : (IF rest[i] = "%2F" THEN "/" ELSE rest[i]) \in T
    BY <1>3, <2>1, <2>2, Zenon
  <2>4. [i \in 1..n |-> IF rest[i] = "%2F" THEN "/" ELSE rest[i]] \in Seq(T)
    BY <2>3
  <2> QED BY <2>2, <2>4, Zenon
<1> QED BY <1>4, <1>5, <1>6, Zenon DEF T

\* Where a key is cut that ends in a separator and a version.
LEMMA CutAtLast ==
  ASSUME NEW S, NEW m \in Seq(S), NEW sep \in S, NEW v \in S, v # sep
  PROVE  LET r == m \o <<sep, v>>
         IN  /\ r \in Seq(S) /\ Len(r) = Len(m) + 2 /\ Len(m) \in Nat
             /\ LastIn(r, sep) = Len(m) + 1
             /\ \A i \in 1..Len(m) : r[i] = m[i]
             /\ SubSeq(r, Len(m) + 2, Len(r)) = <<v>>
<1> DEFINE e == <<sep, v>>
           r == m \o e
<1>1. e \in Seq(S) /\ Len(e) = 2 /\ e[1] = sep /\ e[2] = v
  OBVIOUS
<1> HIDE DEF e
<1>2. /\ r \in Seq(S) /\ Len(r) = Len(m) + 2 /\ Len(m) \in Nat
      /\ \A i \in 1..Len(m) : r[i] = m[i]
      /\ r[Len(m) + 1] = sep /\ r[Len(m) + 2] = v
  <2>1. /\ r \in Seq(S) /\ Len(r) = Len(m) + Len(e)
        /\ \A i \in 1..Len(m) + Len(e) : r[i] = IF i <= Len(m) THEN m[i] ELSE e[i - Len(m)]
    BY <1>1, ConcatProperties, Zenon
  <2>2. Len(m) \in Nat
    OBVIOUS
  <2> HIDE DEF r
  <2> QED BY <1>1, <2>1, <2>2
<1> HIDE DEF r
<1>3. LastIn(r, sep) = Len(m) + 1
  <2>1. /\ LastIn(r, sep) \in 0..Len(r)
        /\ LastIn(r, sep) # 0 => r[LastIn(r, sep)] = sep
        /\ \A k \in 1..Len(r) : r[k] = sep => k <= LastIn(r, sep)
    BY <1>2, LastInIs, ZenonT(60)
  <2> QED BY <1>2, <2>1
<1>4. SubSeq(r, Len(m) + 2, Len(r)) = <<v>>
  <2> DEFINE u == SubSeq(r, Len(m) + 2, Len(r))
  <2>1. u \in Seq(S) /\ Len(u) = 1 /\ u[1] = v
    BY <1>2
  <2>2. <<v>> \in Seq(S) /\ Len(<<v>>) = 1 /\ <<v>>[1] = v
    OBVIOUS
  <2> HIDE DEF u
  <2>3. u = <<v>>
    BY <2>1, <2>2, SeqEqual
  <2> QED BY <2>3 DEF u
<1> QED BY <1>2, <1>3, <1>4, Zenon DEF r, e

\* A name, with what stands for its slash.
Decoded(m) == [i \in 1..Len(m) |-> IF m[i] = "%2F" THEN "/" ELSE m[i]]

\* A key that is cut after m says so.
KeySays(key, m) ==
  /\ Pnpm!SplitAt(key) = Len(m) + 1 /\ Len(Pnpm!Unslashed(key)) = Len(m) + 2
  /\ Pnpm!KeyName(key) = Decoded(m) /\ Pnpm!KeyVersion(key) = <<"v">>

\* What the name and the version of a key are when it is cut at a place.
LEMMA CutSays ==
  ASSUME NEW m \in Seq(Pnpm!Tokens), NEW key, NEW sep \in {"/", "@"},
         Pnpm!Unslashed(key) = m \o <<sep, "v">>,
         Pnpm!SplitAt(key) = Pnpm!LastAt(Pnpm!Unslashed(key), sep)
  PROVE  KeySays(key, m)
<1> DEFINE r == m \o <<sep, "v">>
           T == Pnpm!Tokens
<1>1. sep \in T /\ "v" \in T /\ "v" # sep
  BY DEF Pnpm!Tokens
<1>2. /\ r \in Seq(T) /\ Len(r) = Len(m) + 2 /\ Len(m) \in Nat
      /\ LastIn(r, sep) = Len(m) + 1
      /\ \A i \in 1..Len(m) : r[i] = m[i]
      /\ SubSeq(r, Len(m) + 2, Len(r)) = <<"v">>
  <2>1. ASSUME NEW v \in T, v # sep
        PROVE  LET u == m \o <<sep, v>>
               IN  /\ u \in Seq(T) /\ Len(u) = Len(m) + 2 /\ Len(m) \in Nat
                   /\ LastIn(u, sep) = Len(m) + 1
                   /\ \A i \in 1..Len(m) : u[i] = m[i]
                   /\ SubSeq(u, Len(m) + 2, Len(u)) = <<v>>
    <3>1. m \in Seq(T) /\ sep \in T
      BY <1>1, Zenon
    <3> HIDE DEF T
    <3> QED BY <2>1, <3>1, CutAtLast
  <2> QED BY <1>1, <2>1, Zenon
<1>3. Pnpm!LastAt(r, sep) = LastIn(r, sep)
  BY <1>2, LastInIs, ZenonT(60)
<1>4. Pnpm!SplitAt(key) = Len(m) + 1
  BY <1>2, <1>3, Zenon
<1>5. Len(m) + 1 - 1 = Len(m) /\ Len(m) + 1 + 1 = Len(m) + 2
  BY <1>2
<1> HIDE DEF r
<1>6. Pnpm!KeyVersion(key) = <<"v">>
  BY <1>2, <1>4, <1>5, Zenon DEF Pnpm!KeyVersion, r
<1>7. Pnpm!KeyName(key) = [i \in 1..Len(m) |-> IF r[i] = "%2F" THEN "/" ELSE r[i]]
  <2> DEFINE u == Pnpm!Unslashed(key)
  <2>1. Pnpm!KeyName(key)
          = [i \in 1..Pnpm!SplitAt(key) - 1 |-> IF u[i] = "%2F" THEN "/" ELSE u[i]]
    BY Zenon DEF Pnpm!KeyName
  <2>2. u = r
    BY Zenon DEF r
  <2> HIDE DEF u
  <2> QED BY <1>4, <1>5, <2>1, <2>2
<1>8. Pnpm!KeyName(key) = Decoded(m)
  BY <1>2, <1>7 DEF Decoded
<1> QED BY <1>2, <1>4, <1>6, <1>8, Zenon DEF KeySays, r

\* A key of four tokens.
LEMMA FourParts ==
  ASSUME NEW T, NEW a \in T, NEW b \in T, NEW c \in T, NEW d \in T,
         NEW s, s = <<a, b, c, d>>
  PROVE  /\ s \in Seq(T) /\ Len(s) = 4 /\ DOMAIN s = 1..4
         /\ s[1] = a /\ s[2] = b /\ s[3] = c /\ s[4] = d
OBVIOUS

\* The names, and the encoded one.
Encoded == <<"@", "s", "%2F", "n">>

\* The two names of the keys, scoped and not.
LEMMA NamesAre ==
  /\ Pnpm!plain \in Seq(Pnpm!Tokens) /\ Decoded(Pnpm!plain) = Pnpm!plain
  /\ Pnpm!scoped \in Seq(Pnpm!Tokens) /\ Decoded(Pnpm!scoped) = Pnpm!scoped
  /\ Encoded \in Seq(Pnpm!Tokens) /\ Decoded(Encoded) = Pnpm!scoped
  /\ Pnpm!SanitizePackageName(Pnpm!plain) /\ Pnpm!SanitizePackageName(Pnpm!scoped)
  /\ Len(Pnpm!plain) = 1 /\ Len(Pnpm!scoped) = 4 /\ Len(Encoded) = 4
  /\ "/" \notin Pnpm!Range(Pnpm!plain)
<1> DEFINE T == Pnpm!Tokens
<1>0. "@" \in T /\ "s" \in T /\ "n" \in T /\ "/" \in T /\ "%2F" \in T
  BY DEF Pnpm!Tokens
<1> HIDE DEF T
<1>1. /\ Pnpm!plain \in Seq(T) /\ Len(Pnpm!plain) = 1 /\ Pnpm!plain[1] = "n"
      /\ DOMAIN Pnpm!plain = 1..1
  BY <1>0 DEF Pnpm!plain
<1>2. /\ Pnpm!scoped \in Seq(T) /\ Len(Pnpm!scoped) = 4 /\ DOMAIN Pnpm!scoped = 1..4
      /\ Pnpm!scoped[1] = "@" /\ Pnpm!scoped[2] = "s" /\ Pnpm!scoped[3] = "/"
      /\ Pnpm!scoped[4] = "n"
  <2>1. Pnpm!scoped = <<"@", "s", "/", "n">>
    BY Zenon DEF Pnpm!scoped
  <2> QED BY <1>0, <2>1, FourParts
<1>3. /\ Encoded \in Seq(T) /\ Len(Encoded) = 4 /\ DOMAIN Encoded = 1..4
      /\ Encoded[1] = "@" /\ Encoded[2] = "s" /\ Encoded[3] = "%2F" /\ Encoded[4] = "n"
  <2>1. Encoded = <<"@", "s", "%2F", "n">>
    BY Zenon DEF Encoded
  <2> QED BY <1>0, <2>1, FourParts
<1>4. ASSUME NEW m \in Seq(T), NEW n \in Seq(T), Len(m) = Len(n),
             \A i \in 1..Len(m) : n[i] = IF m[i] = "%2F" THEN "/" ELSE m[i]
      PROVE  Decoded(m) = n
  <2> DEFINE d == Decoded(m)
  <2>1. /\ Len(m) \in Nat
        /\ d = [i \in 1..Len(m) |-> IF m[i] = "%2F" THEN "/" ELSE m[i]]
    BY Zenon, LenProperties DEF Decoded
  <2>2. \A i \in 1..Len(m) : (IF m[i] = "%2F" THEN "/" ELSE m[i]) \in T
    BY <1>0
  <2> HIDE DEF d
  <2>3. d \in Seq(T) /\ Len(d) = Len(m) /\ \A i \in 1..Len(m) : d[i] = n[i]
    BY <1>4, <2>1, <2>2
  <2>4. d = n
    BY <1>4, <2>3, SeqEqual
  <2> QED BY <2>4 DEF d
<1>5. Decoded(Pnpm!plain) = Pnpm!plain
  <2>1. \A i \in 1..1 : i = 1
    OBVIOUS
  <2> QED BY <1>1, <1>4, <2>1
<1>6. Decoded(Pnpm!scoped) = Pnpm!scoped /\ Decoded(Encoded) = Pnpm!scoped
  <2>1. \A i \in 1..4 : i = 1 \/ i = 2 \/ i = 3 \/ i = 4
    OBVIOUS
  <2> QED BY <1>2, <1>3, <1>4, <2>1
<1>7. Pnpm!SanitizePackageName(Pnpm!plain) /\ "/" \notin Pnpm!Range(Pnpm!plain)
  BY <1>1 DEF Pnpm!SanitizePackageName, Pnpm!Range
<1>8. Pnpm!SanitizePackageName(Pnpm!scoped)
  <2>1. \A i \in 1..4 : i = 1 \/ i = 2 \/ i = 3 \/ i = 4
    OBVIOUS
  <2> QED BY <1>2, <2>1 DEF Pnpm!SanitizePackageName
<1> QED BY <1>1, <1>2, <1>3, <1>5, <1>6, <1>7, <1>8, Zenon DEF T

\* A key that is cut after a name is taken.
LEMMA SaidAccepted ==
  ASSUME NEW m, NEW key, KeySays(key, m), Len(m) \in Nat, Len(m) > 0,
         Pnpm!SanitizePackageName(Decoded(m))
  PROVE  Pnpm!KeyAccepted(key)
<1>1. "/" \notin Pnpm!Range(<<"v">>)
  <2>1. \A i \in DOMAIN <<"v">> : <<"v">>[i] # "/"
    OBVIOUS
  <2> QED BY <2>1, Zenon DEF Pnpm!Range
<1>2. Len(m) + 1 > 1 /\ Len(m) + 1 < Len(m) + 2
  OBVIOUS
<1> QED BY <1>1, <1>2, Zenon DEF KeySays, Pnpm!KeyAccepted

\* Two sequences, one after the other; and one without its head.
LEMMA Joined ==
  ASSUME NEW S, NEW s \in Seq(S), NEW t \in Seq(S), NEW u, u = s \o t
  PROVE  /\ u \in Seq(S) /\ Len(u) = Len(s) + Len(t) /\ Len(s) \in Nat /\ Len(t) \in Nat
         /\ \A i \in 1..Len(s) : u[i] = s[i]
         /\ \A i \in 1..Len(t) : u[Len(s) + i] = t[i]
<1>1. Len(s) \in Nat /\ Len(t) \in Nat
  OBVIOUS
<1>2. /\ u \in Seq(S) /\ Len(u) = Len(s) + Len(t)
      /\ \A i \in 1..Len(s) + Len(t) : u[i] = IF i <= Len(s) THEN s[i] ELSE t[i - Len(s)]
  BY ConcatProperties, Zenon
<1>3. \A i \in 1..Len(s) : i \in 1..Len(s) + Len(t) /\ i <= Len(s)
  BY <1>1
<1>4. ASSUME NEW i \in 1..Len(t) PROVE u[Len(s) + i] = t[i]
  <2> DEFINE k == Len(s) + i
  <2>1. k \in 1..Len(s) + Len(t) /\ ~(k <= Len(s)) /\ k - Len(s) = i
    BY <1>1
  <2> HIDE DEF k
  <2>2. u[k] = t[k - Len(s)]
    BY <1>2, <2>1, Zenon
  <2> QED BY <2>1, <2>2, Zenon DEF k
<1> QED BY <1>1, <1>2, <1>3, <1>4, Zenon

\* The tail of a key.
LEMMA TailIs ==
  ASSUME NEW S, NEW s \in Seq(S), Len(s) > 0, NEW t, t = Tail(s)
  PROVE  /\ t \in Seq(S) /\ Len(t) = Len(s) - 1 /\ Head(s) = s[1]
         /\ \A i \in 1..Len(t) : t[i] = s[i + 1]
OBVIOUS

\* A key that begins with a slash is cut as if it did not.
LEMMA HeadAndTail ==
  ASSUME NEW S, NEW a \in S, NEW n \in Seq(S), NEW b \in Seq(S), NEW w, w = <<a>> \o n \o b
  PROVE  w \in Seq(S) /\ Head(w) = a /\ Tail(w) = n \o b
<1> DEFINE h == <<a>>
           u == h \o n
           x == n \o b
           t == Tail(w)
<1>1. h \in Seq(S) /\ Len(h) = 1 /\ h[1] = a
  OBVIOUS
<1>2. w = u \o b
  BY Zenon
<1> HIDE DEF h
<1>3. u = h \o n /\ x = n \o b /\ t = Tail(w)
  BY Zenon
<1> HIDE DEF u, x, t
<1>4. /\ u \in Seq(S) /\ Len(u) = 1 + Len(n) /\ Len(n) \in Nat
      /\ \A i \in 1..1 : u[i] = h[i]
      /\ \A i \in 1..Len(n) : u[1 + i] = n[i]
  <2>1. /\ u \in Seq(S) /\ Len(u) = Len(h) + Len(n) /\ Len(n) \in Nat
        /\ \A i \in 1..Len(h) : u[i] = h[i]
        /\ \A i \in 1..Len(n) : u[Len(h) + i] = n[i]
    <3>1. h \in Seq(S) /\ u = h \o n
      BY <1>1, <1>3, Zenon
    <3> QED BY <3>1, Joined
  <2> QED BY <1>1, <2>1, Zenon
<1>5. /\ w \in Seq(S) /\ Len(w) = Len(u) + Len(b) /\ Len(b) \in Nat
      /\ \A i \in 1..Len(u) : w[i] = u[i]
      /\ \A i \in 1..Len(b) : w[Len(u) + i] = b[i]
  BY <1>2, <1>4, Joined
<1>6. /\ x \in Seq(S) /\ Len(x) = Len(n) + Len(b)
      /\ \A i \in 1..Len(n) : x[i] = n[i]
      /\ \A i \in 1..Len(b) : x[Len(n) + i] = b[i]
  BY <1>3, Joined
<1>7. w[1] = a /\ Len(w) > 0
  BY <1>1, <1>4, <1>5
<1>8. t \in Seq(S) /\ Len(t) = Len(x) /\ Head(w) = a /\ \A i \in 1..Len(x) : t[i] = w[i + 1]
  <2>1. /\ t \in Seq(S) /\ Len(t) = Len(w) - 1 /\ Head(w) = w[1]
        /\ \A i \in 1..Len(t) : t[i] = w[i + 1]
    BY <1>3, <1>5, <1>7, TailIs
  <2>2. Len(w) - 1 = Len(x)
    BY <1>4, <1>5, <1>6
  <2> QED BY <1>7, <2>1, <2>2, Zenon
<1>9. \A i \in 1..Len(x) : w[i + 1] = x[i]
  <2> TAKE i \in 1..Len(x)
  <2>1. CASE i \in 1..Len(n)
    <3>1. i + 1 \in 1..Len(u) /\ i + 1 = 1 + i
      BY <1>4, <2>1
    <3> QED BY <1>4, <1>5, <1>6, <2>1, <3>1
  <2>2. CASE i \notin 1..Len(n)
    <3> DEFINE k == i - Len(n)
    <3>1. k \in 1..Len(b) /\ i = Len(n) + k /\ i + 1 = Len(u) + k
      BY <1>4, <1>6, <2>2
    <3> HIDE DEF k
    <3> QED BY <1>5, <1>6, <3>1, Zenon
  <2> QED BY <2>1, <2>2
<1>10. t = x
  BY <1>6, <1>8, <1>9, SeqEqual
<1> QED BY <1>5, <1>8, <1>10, Zenon DEF t, x

\* What a key of a name and two tokens is cut into.
LEMMA TwoOf ==
  ASSUME NEW T, NEW a \in T, NEW b \in T, NEW s, s = <<a, b>>
  PROVE  s \in Seq(T) /\ Len(s) = 2 /\ s[1] = a /\ s[2] = b
OBVIOUS

\* The key with the encoded slash.
LEMMA SevenParts ==
  ASSUME NEW a, NEW b, NEW c, NEW d, NEW e, NEW f, NEW g, NEW s, s = <<a, b, c, d, e, f, g>>,
         NEW m, m = <<b, c, d, e>>, NEW o, o = <<f, g>>
  PROVE  Head(s) = a /\ Tail(s) = m \o o
<1> DEFINE T == {a, b, c, d, e, f, g}
<1>0. a \in T /\ b \in T /\ c \in T /\ d \in T /\ e \in T /\ f \in T /\ g \in T
  BY Zenon
<1> HIDE DEF T
<1>1. /\ s \in Seq(T) /\ Len(s) = 7
      /\ s[1] = a /\ s[2] = b /\ s[3] = c /\ s[4] = d /\ s[5] = e /\ s[6] = f /\ s[7] = g
  BY <1>0
<1>2. m \in Seq(T) /\ Len(m) = 4 /\ m[1] = b /\ m[2] = c /\ m[3] = d /\ m[4] = e
  BY <1>0, FourParts
<1>3. o \in Seq(T) /\ Len(o) = 2 /\ o[1] = f /\ o[2] = g
  BY <1>0, TwoOf
<1> DEFINE x == m \o o
           t == Tail(s)
<1>4. x = m \o o /\ t = Tail(s)
  BY Zenon
<1> HIDE DEF x, t
<1>5. /\ x \in Seq(T) /\ Len(x) = 6
      /\ x[1] = b /\ x[2] = c /\ x[3] = d /\ x[4] = e /\ x[5] = f /\ x[6] = g
  <2>1. /\ x \in Seq(T) /\ Len(x) = Len(m) + Len(o)
        /\ \A i \in 1..Len(m) : x[i] = m[i]
        /\ \A i \in 1..Len(o) : x[Len(m) + i] = o[i]
    BY <1>2, <1>3, <1>4, Joined
  <2> QED BY <1>2, <1>3, <2>1
<1>51. /\ t \in Seq(T) /\ Len(t) = 6 /\ Head(s) = a
       /\ t[1] = b /\ t[2] = c /\ t[3] = d /\ t[4] = e /\ t[5] = f /\ t[6] = g
  <2>1. t \in Seq(T) /\ Len(t) = 6 /\ Head(s) = a /\ \A i \in 1..6 : t[i] = s[i + 1]
    BY <1>1, <1>4, TailIs
  <2> QED BY <1>1, <2>1
<1>6. \A i \in 1..6 : i = 1 \/ i = 2 \/ i = 3 \/ i = 4 \/ i = 5 \/ i = 6
  OBVIOUS
<1>7. t = x
  BY <1>5, <1>51, <1>6, SeqEqual
<1> QED BY <1>1, <1>51, <1>7, Zenon DEF t, x

\* A key of a form that parseLockfileKey lists is taken for what it is.
LEMMA ListedKeyIs ==
  ASSUME NEW k \in Pnpm!ListedKeys
  PROVE  /\ Pnpm!KeyAccepted(k.tokens)
         /\ Pnpm!KeyName(k.tokens) = k.name /\ Pnpm!KeyVersion(k.tokens) = <<"v">>
<1> DEFINE key == k.tokens
           N == {Pnpm!plain, Pnpm!scoped}
           Goal == /\ Pnpm!KeyAccepted(key)
                   /\ Pnpm!KeyName(key) = k.name /\ Pnpm!KeyVersion(key) = <<"v">>
<1>0. "/" \in Pnpm!Tokens /\ "v" \in Pnpm!Tokens /\ "@" \in Pnpm!Tokens
      /\ "s" \in Pnpm!Tokens /\ "n" \in Pnpm!Tokens /\ "%2F" \in Pnpm!Tokens
  BY DEF Pnpm!Tokens
<1>1. \A n \in N : /\ n \in Seq(Pnpm!Tokens) /\ Decoded(n) = n /\ Pnpm!SanitizePackageName(n)
                   /\ Len(n) \in Nat /\ Len(n) > 0
  <2>1. 1 \in Nat /\ 1 > 0 /\ 4 \in Nat /\ 4 > 0
    OBVIOUS
  <2> QED BY <2>1, NamesAre, Zenon
<1>2. \A t \in {"/", "@"} : <<t, "v">> \in Seq(Pnpm!Tokens)
  BY <1>0, TwoOf
<1>3. ASSUME NEW m \in Seq(Pnpm!Tokens), Len(m) \in Nat, Len(m) > 0, Decoded(m) = k.name,
             k.name \in N,
             KeySays(key, m)
      PROVE  Goal
  BY <1>1, <1>3, SaidAccepted, Zenon DEF KeySays
<1>4. ASSUME NEW m \in Seq(Pnpm!Tokens), Len(m) \in Nat, Len(m) > 0, Decoded(m) = k.name,
             k.name \in N,
             Head(key) = "/", Tail(key) = m \o <<"/", "v">>
      PROVE  Goal
  <2> DEFINE r == m \o <<"/", "v">>
  <2>1. Pnpm!Unslashed(key) = r
    BY <1>4, Zenon DEF Pnpm!Unslashed
  <2>2. Pnpm!LastAt(r, "/") > 0
    <3> DEFINE e == <<"/", "v">>
    <3>1. e \in Seq(Pnpm!Tokens) /\ Len(e) = 2 /\ e[1] = "/"
      BY <1>0, TwoOf
    <3> HIDE DEF e
    <3> DEFINE u == m \o e
    <3>0. u = m \o e
      BY Zenon
    <3> HIDE DEF u
    <3>2. /\ u \in Seq(Pnpm!Tokens) /\ Len(u) = Len(m) + Len(e) /\ Len(m) \in Nat
          /\ \A i \in 1..Len(m) : u[i] = m[i]
          /\ \A i \in 1..Len(e) : u[Len(m) + i] = e[i]
      <4>1. m \in Seq(Pnpm!Tokens) /\ e \in Seq(Pnpm!Tokens)
        BY <3>1, Zenon
      <4> HIDE DEF N, Goal, r
      <4> QED BY <3>0, <4>1, Joined, SMTT(30)
    <3>3. /\ Pnpm!LastAt(u, "/") \in 0..Len(u)
          /\ \A i \in 1..Len(u) : u[i] = "/" => i <= Pnpm!LastAt(u, "/")
      BY <3>2, LastInIs, ZenonT(60)
    <3>4. Pnpm!LastAt(u, "/") > 0
      <4>1. Len(m) + 1 \in 1..Len(u) /\ u[Len(m) + 1] = "/"
        BY <3>1, <3>2
      <4> QED BY <3>2, <3>3, <4>1
    <3> QED BY <3>4, Zenon DEF u, e
  <2>3. Pnpm!SplitAt(key) = Pnpm!LastAt(Pnpm!Unslashed(key), "/")
    BY <1>4, <2>1, <2>2, Zenon DEF Pnpm!SplitAt
  <2>4. KeySays(key, m)
    BY <2>1, <2>3, CutSays, Zenon
  <2> QED BY <1>3, <1>4, <2>4, Zenon
<1>5. ASSUME NEW m \in N, k.name = m, Pnpm!Unslashed(key) = m \o <<"@", "v">>,
             Head(key) = "/" => m = Pnpm!plain
      PROVE  Goal
  <2> DEFINE r == m \o <<"@", "v">>
  <2>1. m = Pnpm!plain => Pnpm!LastAt(r, "/") = 0
    <3> DEFINE e == <<"@", "v">>
    <3>1. e \in Seq(Pnpm!Tokens) /\ Len(e) = 2 /\ e[1] = "@" /\ e[2] = "v"
      BY <1>0, TwoOf
    <3> HIDE DEF e
    <3> DEFINE u == m \o e
    <3>0. u = m \o e
      BY Zenon
    <3> HIDE DEF u
    <3>2. /\ u \in Seq(Pnpm!Tokens) /\ Len(u) = Len(m) + Len(e) /\ Len(m) \in Nat
          /\ \A i \in 1..Len(m) : u[i] = m[i]
          /\ \A i \in 1..Len(e) : u[Len(m) + i] = e[i]
      <4>1. m \in Seq(Pnpm!Tokens) /\ e \in Seq(Pnpm!Tokens)
        BY <1>1, <3>1, Zenon
      <4> HIDE DEF N, Goal, r
      <4> QED BY <3>0, <4>1, Joined, SMTT(30)
    <3>3. /\ Pnpm!LastAt(u, "/") \in 0..Len(u)
          /\ Pnpm!LastAt(u, "/") # 0 => u[Pnpm!LastAt(u, "/")] = "/"
      BY <3>2, LastInIs
    <3>4. m = Pnpm!plain => m[1] = "n" /\ Len(m) = 1
      <4>1. Pnpm!plain[1] = "n" /\ Len(Pnpm!plain) = 1
        BY DEF Pnpm!plain
      <4> QED BY <4>1, Zenon
    <3>5. m = Pnpm!plain => Pnpm!LastAt(u, "/") = 0
      <4> SUFFICES ASSUME m = Pnpm!plain, Pnpm!LastAt(u, "/") # 0 PROVE FALSE
        BY Zenon
      <4>1. m[1] = "n" /\ Len(m) = 1
        BY <3>4, Zenon
      <4>2. Len(u) = 3 /\ u[1] = "n" /\ u[2] = "@" /\ u[3] = "v"
        BY <3>1, <3>2, <4>1
      <4>3. Pnpm!LastAt(u, "/") \in 1..3 /\ u[Pnpm!LastAt(u, "/")] = "/"
        BY <3>3, <4>2
      <4> QED BY <4>2, <4>3
    <3> QED BY <3>5, Zenon DEF u, e
  <2>2. Pnpm!SplitAt(key) = Pnpm!LastAt(Pnpm!Unslashed(key), "@")
    <3>1. ~(0 > 0)
      OBVIOUS
    <3> QED BY <1>5, <2>1, <3>1, Zenon DEF Pnpm!SplitAt
  <2>3. KeySays(key, m)
    BY <1>1, <1>5, <2>2, CutSays, Zenon
  <2> QED BY <1>1, <1>3, <1>5, <2>3, Zenon
<1>6. CASE \E n \in N : k = [tokens |-> <<"/">> \o n \o <<"/", "v">>, name |-> n]
  <2>1. PICK n \in N : k = [tokens |-> <<"/">> \o n \o <<"/", "v">>, name |-> n]
    BY <1>6
  <2>2. key = <<"/">> \o n \o <<"/", "v">> /\ k.name = n
    BY <2>1, Zenon
  <2>3. Head(key) = "/" /\ Tail(key) = n \o <<"/", "v">>
    <3> DEFINE e == <<"/", "v">>
    <3>1. e \in Seq(Pnpm!Tokens) /\ n \in Seq(Pnpm!Tokens) /\ key = <<"/">> \o n \o e
      BY <1>1, <1>2, <2>2, Zenon
    <3> HIDE DEF e, key
    <3>2. Head(key) = "/" /\ Tail(key) = n \o e
      BY <1>0, <3>1, HeadAndTail
    <3> QED BY <3>2, Zenon DEF e
  <2> QED BY <1>1, <1>4, <2>2, <2>3, Zenon
<1>7. CASE k = [tokens |-> <<"/", "@", "s", "%2F", "n", "/", "v">>, name |-> Pnpm!scoped]
  <2>1. key = <<"/", "@", "s", "%2F", "n", "/", "v">> /\ k.name = Pnpm!scoped
    BY <1>7, Zenon
  <2>2. Encoded = <<"@", "s", "%2F", "n">>
    BY Zenon DEF Encoded
  <2>3. Head(key) = "/" /\ Tail(key) = Encoded \o <<"/", "v">>
    <3> DEFINE e == <<"/", "v">>
    <3>1. e = <<"/", "v">>
      BY Zenon
    <3> HIDE DEF e, key
    <3>2. Head(key) = "/" /\ Tail(key) = Encoded \o e
      <4>1. ASSUME NEW s, s = <<"/", "@", "s", "%2F", "n", "/", "v">>,
                   NEW m, m = <<"@", "s", "%2F", "n">>, NEW o, o = <<"/", "v">>
            PROVE  Head(s) = "/" /\ Tail(s) = m \o o
        BY <4>1, SevenParts
      <4> QED BY <2>1, <2>2, <3>1, <4>1, Zenon
    <3> QED BY <3>2, Zenon DEF e
  <2>4. Encoded \in Seq(Pnpm!Tokens) /\ Len(Encoded) \in Nat /\ Len(Encoded) > 0
        /\ Decoded(Encoded) = k.name
    BY <2>1, NamesAre
  <2> QED BY <1>4, <2>1, <2>3, <2>4, Zenon
<1>8. CASE k = [tokens |-> <<"/">> \o Pnpm!plain \o <<"@", "v">>, name |-> Pnpm!plain]
  <2>1. key = <<"/">> \o Pnpm!plain \o <<"@", "v">> /\ k.name = Pnpm!plain
    BY <1>8, Zenon
  <2>2. Head(key) = "/" /\ Tail(key) = Pnpm!plain \o <<"@", "v">>
    <3> DEFINE e == <<"@", "v">>
    <3>1. e \in Seq(Pnpm!Tokens) /\ Pnpm!plain \in Seq(Pnpm!Tokens)
          /\ key = <<"/">> \o Pnpm!plain \o e
      BY <1>1, <1>2, <2>1, Zenon
    <3> HIDE DEF e, key
    <3>2. Head(key) = "/" /\ Tail(key) = Pnpm!plain \o e
      BY <1>0, <3>1, HeadAndTail
    <3> QED BY <3>2, Zenon DEF e
  <2>3. Pnpm!Unslashed(key) = Pnpm!plain \o <<"@", "v">>
    BY <2>2, Zenon DEF Pnpm!Unslashed
  <2> QED BY <1>5, <2>1, <2>3, Zenon
<1>9. CASE \E n \in N : k = [tokens |-> n \o <<"@", "v">>, name |-> n]
  <2>1. PICK n \in N : k = [tokens |-> n \o <<"@", "v">>, name |-> n]
    BY <1>9
  <2>2. key = n \o <<"@", "v">> /\ k.name = n
    BY <2>1, Zenon
  <2>3. Head(key) # "/"
    <3>1. n[1] # "/"
      BY DEF Pnpm!plain, Pnpm!scoped
    <3> DEFINE e == <<"@", "v">>
    <3>2. e \in Seq(Pnpm!Tokens)
      BY <1>2, Zenon
    <3> HIDE DEF e
    <3> DEFINE u == n \o e
    <3>3. u \in Seq(Pnpm!Tokens) /\ u[1] = n[1] /\ Len(u) > 0
      BY <1>1, <3>2
    <3> HIDE DEF u
    <3>4. Head(u) = n[1]
      BY <3>3
    <3> QED BY <2>2, <3>1, <3>4, Zenon DEF u, e
  <2>4. Pnpm!Unslashed(key) = n \o <<"@", "v">>
    BY <2>2, <2>3, Zenon DEF Pnpm!Unslashed
  <2> QED BY <1>5, <2>2, <2>3, <2>4, Zenon
<1> QED BY <1>6, <1>7, <1>8, <1>9, Zenon DEF Pnpm!ListedKeys

-----------------------------------------------------------------------------
(* pnpm: the list is what is read. *)

\* The lines that end the block of a package.
PnpmEnds == {"key", "text"}

\* What is listed for a line of the file is what the file says there.
PnpmEntry(fl, e) ==
  /\ e.line \in 1..Len(fl) /\ fl[e.line].word = "key"
  /\ e.name = Pnpm!KeyName(fl[e.line].key.tokens)
  /\ e.version = Pnpm!KeyVersion(fl[e.line].key.tokens)
  /\ {e.integrity, e.resolved} \subseteq {0} \cup Own(fl, PnpmEnds, e.line)

PnpmEntries(fl, es) == \A i \in 1..Len(es) : PnpmEntry(fl, es[i])

\* The packages of the file.
PnpmBegun(fl) == \E j \in 1..Len(fl) : fl[j].word = "packages"
PnpmKeys(fl) ==
  {i \in 1..Len(fl) : fl[i].word = "key" /\ \E j \in 1..i : fl[j].word = "packages"}

\* The inductive invariant of pnpm.
PnpmInv ==
  /\ Pnpm!TypeOK
  /\ inPackages <=> PnpmBegun(file)
  /\ ~inPackages => current = Nil /\ entries = <<>>
  /\ current # Nil /\ result # "rejected" => StillOpen(file, PnpmEnds, current.line)
  /\ PnpmEntries(file, Pnpm!flushEntry)
  /\ Ordered(Pnpm!flushEntry)
  /\ result # "rejected" => LinesOf(Pnpm!flushEntry) = PnpmKeys(file)
  /\ result = "rejected" /\ Len(entries) <= maxEntries /\ Pnpm!at = "key" =>
       ~Pnpm!KeyAccepted(file[Len(file)].key.tokens)

\* What is known of a line by its indent and its word.
LEMMA PnpmLineIs ==
  ASSUME NEW l \in Pnpm!Line
  PROVE  /\ l.indent \in {0, 2, 3, 4, 6, 8}
         /\ l.indent = 0 <=> l.word \in {"blank", "packages", "text", "long"}
         /\ l.indent = 2 <=> l.word \in {"key", "line"}
         /\ l.indent = 4 => l.word \in {"resolution", "resolved", "other"}
         /\ l.indent = 6 => l.word \in {"integrity", "other"}
         /\ l.word = "key" => l.key \in Pnpm!AllKeys
         /\ l.word \in {"resolution", "resolved", "integrity"} => l.val \in BOOLEAN
<1>1. CASE l \in [indent : {0}, word : {"blank", "packages", "text", "long"}, val : {FALSE}]
  BY <1>1
<1>2. CASE l \in [indent : {2}, word : {"key"}, key : Pnpm!AllKeys]
  BY <1>2
<1>3. CASE l \in [indent : {2}, word : {"line"}, val : {FALSE}]
  BY <1>3
<1>4. CASE l \in [indent : {3}, word : {"other"}, val : {FALSE}]
  BY <1>4
<1>5. CASE \/ l \in [indent : {4}, word : {"resolution"}, val : BOOLEAN, tarball : BOOLEAN]
           \/ l \in [indent : {4}, word : {"resolved"}, val : BOOLEAN]
  <2>1. CASE l \in [indent : {4}, word : {"resolution"}, val : BOOLEAN, tarball : BOOLEAN]
    BY <2>1
  <2>2. CASE l \in [indent : {4}, word : {"resolved"}, val : BOOLEAN]
    BY <2>2
  <2> QED BY <1>5, <2>1, <2>2
<1>6. CASE l \in [indent : {4}, word : {"other"}, val : {FALSE}]
  BY <1>6
<1>7. CASE l \in [indent : {6}, word : {"integrity"}, val : BOOLEAN]
  BY <1>7
<1>8. CASE l \in [indent : {6, 8}, word : {"other"}, val : {FALSE}]
  BY <1>8
<1> QED BY <1>1, <1>2, <1>3, <1>4, <1>5, <1>6, <1>7, <1>8, Zenon DEF Pnpm!Line

\* The tokens of every key are tokens, and it has some.
LEMMA PnpmKeyIs ==
  ASSUME NEW k \in Pnpm!AllKeys
  PROVE  k.tokens \in Seq(Pnpm!Tokens) /\ k.tokens # <<>>
<1>0. "/" \in Pnpm!Tokens /\ "v" \in Pnpm!Tokens /\ "@" \in Pnpm!Tokens
      /\ "s" \in Pnpm!Tokens /\ "n" \in Pnpm!Tokens /\ "%2F" \in Pnpm!Tokens
  BY DEF Pnpm!Tokens
<1>1. ASSUME NEW n \in Seq(Pnpm!Tokens), NEW t \in Pnpm!Tokens, NEW a \in Pnpm!Tokens
      PROVE  /\ <<a>> \o n \o <<t, "v">> \in Seq(Pnpm!Tokens) /\ <<a>> \o n \o <<t, "v">> # <<>>
             /\ n \o <<t, "v">> \in Seq(Pnpm!Tokens) /\ n \o <<t, "v">> # <<>>
  <2> DEFINE e == <<t, "v">>
             h == <<a>>
  <2>1. e \in Seq(Pnpm!Tokens) /\ Len(e) = 2 /\ h \in Seq(Pnpm!Tokens) /\ Len(h) = 1
    <3> QED BY <1>0
  <2> HIDE DEF e, h
  <2> DEFINE u == h \o n
             w == u \o e
             x == n \o e
  <2>2. \A c, d \in Seq(Pnpm!Tokens) : /\ c \o d \in Seq(Pnpm!Tokens)
                                        /\ Len(c \o d) = Len(c) + Len(d) /\ Len(c) \in Nat
    OBVIOUS
  <2>3. u \in Seq(Pnpm!Tokens)
    BY <2>1, <2>2, Zenon
  <2> HIDE DEF u
  <2>4. w \in Seq(Pnpm!Tokens) /\ Len(w) = Len(u) + 2 /\ Len(u) \in Nat
    BY <2>1, <2>2, <2>3, Zenon
  <2>5. x \in Seq(Pnpm!Tokens) /\ Len(x) = Len(n) + 2 /\ Len(n) \in Nat
    BY <2>1, <2>2, Zenon
  <2> HIDE DEF w, x
  <2>6. w # <<>> /\ x # <<>>
    BY <2>4, <2>5
  <2> QED BY <2>4, <2>5, <2>6, Zenon DEF w, x, u, e, h
<1>2. /\ Pnpm!plain \in Seq(Pnpm!Tokens) /\ Pnpm!scoped \in Seq(Pnpm!Tokens)
         /\ Encoded \in Seq(Pnpm!Tokens)
      /\ Pnpm!plain # <<>>
  <2>1. Pnpm!plain # <<>>
    BY DEF Pnpm!plain
  <2> QED BY <2>1, NamesAre, Zenon
<1>3. ASSUME NEW s, s = <<"/", "@", "s", "%2F", "n", "/", "v">>
      PROVE s \in Seq(Pnpm!Tokens) /\ s # <<>>
  <2> QED BY <1>0, <1>3
<1>4. ASSUME NEW s, s = <<"/", "/", "n", "/", "v">> PROVE s \in Seq(Pnpm!Tokens) /\ s # <<>>
  <2> QED BY <1>0, <1>4
<1>5. CASE k \in Pnpm!MalformedKeys
  <2>1. k.tokens = Pnpm!plain \/ k.tokens = <<"/", "/", "n", "/", "v">>
    BY <1>5 DEF Pnpm!MalformedKeys
  <2> QED BY <1>2, <1>4, <2>1, Zenon
<1>6. CASE k = Pnpm!ScopedKey
  <2>1. k.tokens = <<"/">> \o Pnpm!scoped \o <<"@", "v">>
    BY <1>6 DEF Pnpm!ScopedKey
  <2> QED BY <1>0, <1>1, <1>2, <2>1, Zenon
<1>7. CASE k \in Pnpm!ListedKeys
  <2>1. \/ \E n \in {Pnpm!plain, Pnpm!scoped} : k.tokens = <<"/">> \o n \o <<"/", "v">>
        \/ k.tokens = <<"/", "@", "s", "%2F", "n", "/", "v">>
        \/ k.tokens = <<"/">> \o Pnpm!plain \o <<"@", "v">>
        \/ \E n \in {Pnpm!plain, Pnpm!scoped} : k.tokens = n \o <<"@", "v">>
    <3>1. CASE \E n \in {Pnpm!plain, Pnpm!scoped} :
                 k = [tokens |-> <<"/">> \o n \o <<"/", "v">>, name |-> n]
      <4>1. PICK n \in {Pnpm!plain, Pnpm!scoped} :
              k = [tokens |-> <<"/">> \o n \o <<"/", "v">>, name |-> n]
        BY <3>1, Zenon
      <4>2. k.tokens = <<"/">> \o n \o <<"/", "v">>
        BY <4>1, Zenon
      <4> QED BY <4>2, Zenon
    <3>2. CASE \E n \in {Pnpm!plain, Pnpm!scoped} : k = [tokens |-> n \o <<"@", "v">>, name |-> n]
      <4>1. PICK n \in {Pnpm!plain, Pnpm!scoped} : k = [tokens |-> n \o <<"@", "v">>, name |-> n]
        BY <3>2, Zenon
      <4>2. k.tokens = n \o <<"@", "v">>
        BY <4>1, Zenon
      <4> QED BY <4>2, Zenon
    <3>3. CASE k = [tokens |-> <<"/", "@", "s", "%2F", "n", "/", "v">>, name |-> Pnpm!scoped]
      BY <3>3, Zenon
    <3>4. CASE k = [tokens |-> <<"/">> \o Pnpm!plain \o <<"@", "v">>, name |-> Pnpm!plain]
      BY <3>4, Zenon
    <3> QED BY <1>7, <3>1, <3>2, <3>3, <3>4, Zenon DEF Pnpm!ListedKeys
  <2> QED BY <1>0, <1>1, <1>2, <1>3, <2>1, Zenon
<1> QED BY <1>5, <1>6, <1>7, Zenon DEF Pnpm!AllKeys

\* What is listed stays true when a line is read.
LEMMA PnpmEntryGrows ==
  ASSUME NEW fl \in Seq(Pnpm!Line), NEW l \in Pnpm!Line, NEW e, PnpmEntry(fl, e)
  PROVE  PnpmEntry(Append(fl, l), e)
<1> DEFINE g == Append(fl, l)
<1>1. /\ Len(fl) \in Nat /\ Len(g) = Len(fl) + 1 /\ \A k \in 1..Len(fl) : g[k] = fl[k]
  BY AppendIs
<1>2. e.line \in 1..Len(fl)
  BY Zenon DEF PnpmEntry
<1>3. e.line \in Nat /\ e.line \in 1..Len(fl) + 1
  BY <1>1, <1>2
<1>4. Own(fl, PnpmEnds, e.line) \subseteq Own(g, PnpmEnds, e.line)
  BY <1>3, OwnGrows, Zenon
<1> HIDE DEF g
<1>5. g[e.line] = fl[e.line]
  BY <1>1, <1>2
<1> QED BY <1>1, <1>3, <1>4, <1>5, Zenon DEF PnpmEntry, g

\* One more line: the packages of the file are the same and the line, if it is a key.
LEMMA PnpmKeysGrow ==
  ASSUME NEW fl \in Seq(Pnpm!Line), NEW l \in Pnpm!Line
  PROVE  /\ PnpmBegun(Append(fl, l)) <=> PnpmBegun(fl) \/ l.word = "packages"
         /\ PnpmKeys(Append(fl, l))
              = PnpmKeys(fl) \cup (IF l.word = "key" /\ PnpmBegun(fl) THEN {Len(fl) + 1} ELSE {})
<1> DEFINE g == Append(fl, l)
<1>1. /\ Len(fl) \in Nat /\ Len(g) = Len(fl) + 1 /\ \A k \in 1..Len(fl) : g[k] = fl[k]
      /\ g[Len(fl) + 1] = l
  BY AppendIs
<1> HIDE DEF g
<1>2. \A k \in 1..Len(g) : k \in 1..Len(fl) \/ k = Len(fl) + 1
  BY <1>1
<1>3. 1..Len(fl) \subseteq 1..Len(g) /\ Len(fl) + 1 \in 1..Len(g)
  BY <1>1
<1>4. PnpmBegun(g) <=> PnpmBegun(fl) \/ l.word = "packages"
  BY <1>1, <1>2, <1>3, Zenon DEF PnpmBegun
<1>5. ASSUME NEW i \in 1..Len(fl)
      PROVE  (\E j \in 1..i : g[j].word = "packages") <=> \E j \in 1..i : fl[j].word = "packages"
  <2>1. 1..i \subseteq 1..Len(fl)
    BY <1>1
  <2> QED BY <1>1, <2>1, Zenon
<1>6. l.word = "key" => ((\E j \in 1..Len(fl) + 1 : g[j].word = "packages") <=> PnpmBegun(fl))
  <2>1. PnpmBegun(g) <=> \E j \in 1..Len(fl) + 1 : g[j].word = "packages"
    BY <1>1, Zenon DEF PnpmBegun
  <2> QED BY <1>4, <2>1
<1>7. PnpmKeys(g)
        = PnpmKeys(fl) \cup (IF l.word = "key" /\ PnpmBegun(fl) THEN {Len(fl) + 1} ELSE {})
  <2>1. ASSUME NEW i \in 1..Len(fl) PROVE i \in PnpmKeys(g) <=> i \in PnpmKeys(fl)
    BY <1>1, <1>3, <1>5, Zenon DEF PnpmKeys
  <2>2. Len(fl) + 1 \in PnpmKeys(g) <=> l.word = "key" /\ PnpmBegun(fl)
    BY <1>1, <1>3, <1>6, Zenon DEF PnpmKeys
  <2>3. PnpmKeys(g) \subseteq 1..Len(g) /\ PnpmKeys(fl) \subseteq 1..Len(fl)
    BY Zenon DEF PnpmKeys
  <2> HIDE DEF g
  <2> QED BY <1>2, <2>1, <2>2, <2>3, Zenon
<1> QED BY <1>4, <1>7, Zenon DEF g

\* The types of what pnpm reads, and that no entry is Nil.
LEMMA PnpmTypes ==
  ASSUME Pnpm!TypeOK
  PROVE  /\ scope \in PnpmScopes /\ scope.lines \in Nat /\ maxEntries \in Nat
         /\ file \in Seq(Pnpm!Line) /\ Len(file) \in Nat /\ Len(file) <= scope.lines
         /\ DOMAIN file = 1..Len(file)
         /\ Nil \notin Pnpm!Entry
         /\ entries \in Seq(Pnpm!Entry) /\ Len(entries) \in Nat
         /\ current # Nil => current \in Pnpm!Entry
         /\ Pnpm!flushEntry \in Seq(Pnpm!Entry) /\ Len(Pnpm!flushEntry) \in Nat
<1>1. /\ scope \in PnpmScopes /\ file \in Seq(Pnpm!Line) /\ Len(file) <= scope.lines
      /\ entries \in Seq(Pnpm!Entry) /\ current \in Pnpm!Entry \cup {Nil}
  BY Zenon DEF Pnpm!TypeOK
<1>2. scope.lines \in Nat /\ maxEntries \in Nat /\ Nil \notin Pnpm!Entries(Nat)
  <2>1. /\ PnpmScopes \subseteq [written : BOOLEAN, lines : Nat, keys : SUBSET Pnpm!AllKeys]
        /\ maxEntries \in Nat /\ Nil \notin Pnpm!Entries(Nat)
    BY ParsersAssumption, Zenon DEF ParsersAssumption, Pnpm!ParserAssumption
  <2> QED BY <1>1, <2>1
<1>3. Nil \notin Pnpm!Entry
  <2>1. Pnpm!Place \subseteq Nat
    BY <1>2 DEF Pnpm!Place
  <2>2. Pnpm!Entry \subseteq Pnpm!Entries(Nat)
    BY <2>1 DEF Pnpm!Entry, Pnpm!Entries
  <2> QED BY <1>2, <2>2
<1>4. Pnpm!flushEntry \in Seq(Pnpm!Entry)
  <2>1. CASE current = Nil
    BY <1>1, <2>1, Zenon DEF Pnpm!flushEntry
  <2>2. CASE current # Nil
    <3>1. current \in Pnpm!Entry
      BY <1>1, <2>2
    <3>2. Append(entries, current) \in Seq(Pnpm!Entry)
      BY <1>1, <3>1, AppendIs, Zenon
    <3> QED BY <2>2, <3>2, Zenon DEF Pnpm!flushEntry
  <2> QED BY <2>1, <2>2
<1> QED BY <1>1, <1>2, <1>3, <1>4, LenProperties

\* pnpm begins in its invariant.
LEMMA PnpmInit ==
  ASSUME Pnpm!Init PROVE PnpmInv
<1>1. file = <<>> /\ entries = <<>> /\ current = Nil /\ Pnpm!flushEntry = <<>>
  BY Zenon DEF Pnpm!Init, Pnpm!flushEntry
<1>2. scope \in PnpmScopes /\ scope.lines \in Nat /\ maxEntries \in Nat
  <2>1. /\ PnpmScopes \subseteq [written : BOOLEAN, lines : Nat, keys : SUBSET Pnpm!AllKeys]
        /\ maxEntries \in Nat
    BY ParsersAssumption, Zenon DEF ParsersAssumption, Pnpm!ParserAssumption
  <2>2. scope \in PnpmScopes
    BY Zenon DEF Pnpm!Init
  <2> QED BY <2>1, <2>2
<1>3. Len(<<>>) = 0 /\ \A S : <<>> \in Seq(S)
  OBVIOUS
<1>4. Pnpm!TypeOK
  <2>1. Len(file) <= scope.lines
    BY <1>1, <1>2, <1>3
  <2>2. "reading" # "listed"
    OBVIOUS
  <2> QED BY <1>1, <1>2, <1>3, <2>1, <2>2, Zenon DEF Pnpm!Init, Pnpm!TypeOK
<1>5. LinesOf(<<>>) = {} /\ Ordered(<<>>)
  BY DEF LinesOf, Ordered
<1>6. PnpmKeys(<<>>) = {} /\ ~PnpmBegun(<<>>) /\ PnpmEntries(<<>>, <<>>)
  BY DEF PnpmKeys, PnpmBegun, PnpmEntries
<1> QED BY <1>1, <1>4, <1>5, <1>6, Zenon DEF PnpmInv, Pnpm!Init

\* What holds of the file with one more line before the line is looked at.
LEMMA PnpmRead ==
  ASSUME PnpmInv, NEW l \in Pnpm!Line, Pnpm!Read(l)
  PROVE  /\ result = "reading" /\ scope' = scope /\ file' = Append(file, l)
         /\ file' \in Seq(Pnpm!Line) /\ Len(file') = Len(file) + 1 /\ Len(file') <= scope.lines
         /\ file'[Len(file')] = l /\ file' # <<>>
         /\ Pnpm!at' = l.word
         /\ Pnpm!Place' = Pnpm!Place /\ Pnpm!Entry' = Pnpm!Entry
         /\ Pnpm!here = Len(file) + 1 /\ Pnpm!here \in Pnpm!Place
         /\ PnpmBegun(file') <=> inPackages \/ l.word = "packages"
         /\ PnpmKeys(file')
              = PnpmKeys(file) \cup (IF l.word = "key" /\ inPackages THEN {Len(file) + 1} ELSE {})
         /\ PnpmEntries(file', Pnpm!flushEntry)
         /\ Ordered(Pnpm!flushEntry)
         /\ LinesOf(Pnpm!flushEntry) = PnpmKeys(file)
         /\ \A i \in 1..Len(Pnpm!flushEntry) : Pnpm!flushEntry[i].line \in 1..Len(file)
<1>1. /\ file \in Seq(Pnpm!Line) /\ Len(file) \in Nat /\ scope.lines \in Nat
  BY PnpmTypes, Zenon DEF PnpmInv
<1>2. /\ result = "reading" /\ scope' = scope /\ file' = Append(file, l)
      /\ Len(file) < scope.lines
  BY Zenon DEF Pnpm!Read
<1>3. /\ file' \in Seq(Pnpm!Line) /\ Len(file') = Len(file) + 1
      /\ file'[Len(file')] = l
  <2>1. /\ Append(file, l) \in Seq(Pnpm!Line) /\ Len(Append(file, l)) = Len(file) + 1
        /\ Append(file, l)[Len(file) + 1] = l
    BY <1>1, AppendIs
  <2> QED BY <1>2, <2>1, Zenon
<1>4. file' # <<>> /\ Len(file') <= scope.lines /\ Pnpm!here \in Pnpm!Place
      /\ Pnpm!here = Len(file) + 1
  BY <1>1, <1>2, <1>3 DEF Pnpm!here, Pnpm!Place
<1>5. Pnpm!at' = l.word
  BY <1>3, <1>4, Zenon DEF Pnpm!at
<1>6. Pnpm!Place' = Pnpm!Place
  BY <1>2, Zenon DEF Pnpm!Place
<1>7. Pnpm!Entry' = Pnpm!Entry
  BY <1>6, Zenon DEF Pnpm!Entry
<1>8. /\ PnpmBegun(file') <=> inPackages \/ l.word = "packages"
      /\ PnpmKeys(file')
           = PnpmKeys(file) \cup (IF l.word = "key" /\ inPackages THEN {Len(file) + 1} ELSE {})
  <2>1. inPackages <=> PnpmBegun(file)
    BY Zenon DEF PnpmInv
  <2>2. /\ PnpmBegun(file') <=> PnpmBegun(file) \/ l.word = "packages"
        /\ PnpmKeys(file')
             = PnpmKeys(file)
                 \cup (IF l.word = "key" /\ PnpmBegun(file) THEN {Len(file) + 1} ELSE {})
    BY <1>1, <1>2, PnpmKeysGrow, Zenon
  <2> QED BY <2>1, <2>2
<1>9. PnpmEntries(file, Pnpm!flushEntry) /\ Ordered(Pnpm!flushEntry)
      /\ LinesOf(Pnpm!flushEntry) = PnpmKeys(file)
  <2>1. result # "rejected"
    BY <1>2
  <2> QED BY <2>1, Zenon DEF PnpmInv
<1>10. PnpmEntries(file', Pnpm!flushEntry)
  BY <1>1, <1>2, <1>9, PnpmEntryGrows, Zenon DEF PnpmEntries
<1>11. \A i \in 1..Len(Pnpm!flushEntry) : Pnpm!flushEntry[i].line \in 1..Len(file)
  BY <1>9, Zenon DEF PnpmEntries, PnpmEntry
<1> QED BY <1>2, <1>3, <1>4, <1>5, <1>6, <1>7, <1>8, <1>9, <1>10, <1>11, Zenon

\* A line that is not a key of a package: the entry that is read may change.
LEMMA PnpmLineRead ==
  ASSUME PnpmInv, NEW l \in Pnpm!Line, Pnpm!Read(l),
         entries' = entries, result' = result,
         resolutionPending' \in BOOLEAN, resolvedPending' \in BOOLEAN, inPackages' \in BOOLEAN,
         inPackages' <=> inPackages \/ l.word = "packages",
         ~(l.word = "key" /\ inPackages),
         current # Nil => l.word \notin PnpmEnds,
         \/ current' = current
         \/ /\ current # Nil /\ current' \in Pnpm!Entry
            /\ current'.line = current.line /\ current'.name = current.name
            /\ current'.version = current.version
            /\ {current'.integrity, current'.resolved}
                 \subseteq {current.integrity, current.resolved, Pnpm!here}
  PROVE  PnpmInv'
<1> DEFINE L == Pnpm!flushEntry
<1>1. /\ result = "reading" /\ scope' = scope /\ file' = Append(file, l)
      /\ file' \in Seq(Pnpm!Line) /\ Len(file') = Len(file) + 1 /\ Len(file') <= scope.lines
      /\ Pnpm!Place' = Pnpm!Place /\ Pnpm!Entry' = Pnpm!Entry /\ Pnpm!here = Len(file) + 1
      /\ PnpmBegun(file') <=> inPackages \/ l.word = "packages"
      /\ PnpmKeys(file')
           = PnpmKeys(file) \cup (IF l.word = "key" /\ inPackages THEN {Len(file) + 1} ELSE {})
      /\ PnpmEntries(file', L) /\ Ordered(L) /\ LinesOf(L) = PnpmKeys(file)
      /\ \A i \in 1..Len(L) : L[i].line \in 1..Len(file)
  BY PnpmRead, Zenon
<1>2. /\ file \in Seq(Pnpm!Line) /\ Len(file) \in Nat /\ Nil \notin Pnpm!Entry
      /\ entries \in Seq(Pnpm!Entry)
      /\ current # Nil => current \in Pnpm!Entry
      /\ scope \in PnpmScopes
  BY PnpmTypes, Zenon DEF PnpmInv
<1>3. Pnpm!TypeOK'
  <2>1. current' \in Pnpm!Entry \cup {Nil}
    BY <1>2
  <2>2. Len(file') <= scope'.lines /\ scope' \in PnpmScopes /\ file' \in Seq(Pnpm!Line)
    BY <1>1, <1>2, Zenon
  <2>3. result' = "reading" /\ "reading" # "listed"
        /\ "reading" \in {"reading", "listed", "rejected"}
    BY <1>1
  <2>4. entries' \in Seq(Pnpm!Entry') /\ current' \in Pnpm!Entry' \cup {Nil}
    BY <1>1, <1>2, <2>1, Zenon
  <2> QED BY <2>2, <2>3, <2>4, Zenon DEF Pnpm!TypeOK
<1>4. PnpmKeys(file') = PnpmKeys(file)
  BY <1>1
<1>5. CASE current = Nil
  <2>1. current' = Nil /\ L = entries /\ Pnpm!flushEntry' = entries
    BY <1>5, Zenon DEF Pnpm!flushEntry
  <2>2. ~inPackages' => entries' = <<>>
    BY Zenon DEF PnpmInv
  <2> QED BY <1>1, <1>3, <1>4, <2>1, <2>2, Zenon DEF PnpmInv
<1>6. CASE current # Nil
  <2>1. /\ current \in Pnpm!Entry /\ current' \in Pnpm!Entry /\ current' # Nil
        /\ current'.line = current.line /\ current'.name = current.name
        /\ current'.version = current.version
        /\ {current'.integrity, current'.resolved}
             \subseteq {current.integrity, current.resolved, Pnpm!here}
    <3>1. current \in Pnpm!Entry /\ Nil \notin Pnpm!Entry
      BY <1>2, <1>6, Zenon
    <3>2. current' \in Pnpm!Entry => current' # Nil
      BY <3>1, Zenon
    <3>3. CASE current' = current
      BY <3>1, <3>2, <3>3
    <3> QED BY <3>1, <3>2, <3>3, Zenon
  <2>2. L = Append(entries, current) /\ Pnpm!flushEntry' = Append(entries, current')
    BY <1>6, <2>1, Zenon DEF Pnpm!flushEntry
  <2> DEFINE M == Append(entries, current')
  <2>3. /\ Len(entries) \in Nat /\ Len(L) = Len(entries) + 1
        /\ \A i \in 1..Len(entries) : L[i] = entries[i]
        /\ L[Len(entries) + 1] = current
    <3>1. L = Append(entries, current)
      BY <2>2, Zenon
    <3> HIDE DEF L
    <3> QED BY <1>2, <2>1, <3>1, AppendIs
  <2>4. LinesOf(M) = LinesOf(L) /\ Ordered(M)
    <3>1. L = Append(entries, current) /\ M = Append(entries, current')
      BY <2>2, Zenon
    <3>2. Ordered(L)
      BY <1>1, Zenon
    <3> HIDE DEF L, M
    <3> QED BY <1>2, <2>1, <3>1, <3>2, ListChanges
  <2>5. current.line \in 1..Len(file) /\ current.line \in Nat /\ current.line <= Len(file)
        /\ PnpmEntry(file', current)
    <3>1. Len(entries) + 1 \in 1..Len(L)
      BY <2>3
    <3>2. current.line \in 1..Len(file) /\ PnpmEntry(file', current)
      BY <1>1, <2>3, <3>1, Zenon DEF PnpmEntries
    <3> QED BY <1>2, <3>2
  <2>6. StillOpen(file', PnpmEnds, current.line)
        /\ Pnpm!here \in Own(file', PnpmEnds, current.line)
    <3>1. StillOpen(file, PnpmEnds, current.line)
      <4>1. result # "rejected"
        BY <1>1
      <4> QED BY <1>6, <4>1, Zenon DEF PnpmInv
    <3> QED BY <1>1, <1>2, <1>6, <2>5, <3>1, OwnGrows, Zenon
  <2>7. PnpmEntry(file', current')
    <3>1. {current.integrity, current.resolved} \subseteq {0}
              \cup Own(file', PnpmEnds, current.line)
      BY <2>5, Zenon DEF PnpmEntry
    <3>2. {current'.integrity, current'.resolved} \subseteq {0}
              \cup Own(file', PnpmEnds, current.line)
      BY <2>1, <2>6, <3>1
    <3> QED BY <2>1, <2>5, <3>2, Zenon DEF PnpmEntry
  <2>8. PnpmEntries(file', M)
    <3>1. \A i \in 1..Len(M) : (i \in 1..Len(entries) /\ M[i] = entries[i])
                                 \/ (i = Len(entries) + 1 /\ M[i] = current')
      BY <1>2, <2>1, ListGrows
    <3>2. 1..Len(entries) \subseteq 1..Len(L)
      BY <2>3
    <3> QED BY <1>1, <2>3, <2>7, <3>1, <3>2, Zenon DEF PnpmEntries
  <2>9. inPackages'
    BY <1>6, Zenon DEF PnpmInv
  <2> QED BY <1>1, <1>3, <1>4, <2>1, <2>2, <2>4, <2>6, <2>8, <2>9, Zenon DEF PnpmInv
<1> QED BY <1>5, <1>6

\* Of a property that has a value something is taken, and of one that has none
\* nothing.
LEMMA PnpmExtracts ==
  ASSUME NEW l \in Pnpm!Line, l.word \in {"resolution", "resolved"}
  PROVE  /\ (Pnpm!Extracted(l) = {}) = (~l.val)
         /\ l.val => Pnpm!Values(l) # {}
         /\ \A o : Pnpm!Given(l, o) = IF l.val THEN Pnpm!here ELSE o
<1>1. l.val \in BOOLEAN
  BY PnpmLineIs, Zenon
<1>2. "value" \in Pnpm!Values(l) <=> l.val
  BY DEF Pnpm!Values
<1>3. "tarball" \in Pnpm!Values(l) => l.word = "resolution"
  BY DEF Pnpm!Values
<1>4. Pnpm!Values(l) \subseteq {"value", "tarball"}
  BY DEF Pnpm!Values
<1>5. CASE l.val = TRUE
  <2>1. Pnpm!Values(l) # {}
    BY <1>2, <1>5
  <2>2. Pnpm!Extracted(l) = Pnpm!Values(l)
    BY <1>5, Zenon DEF Pnpm!Extracted, Pnpm!extractInlineIntegrity
  <2> QED BY <1>5, <2>1, <2>2 DEF Pnpm!Given
<1>6. CASE l.val = FALSE
  <2>1. Pnpm!Extracted(l) = {}
    <3>1. CASE l.word = "resolution"
      BY <1>6, <3>1, Zenon DEF Pnpm!Extracted, Pnpm!extractInlineIntegrity
    <3>2. CASE l.word # "resolution"
      <4>1. Pnpm!Values(l) = {}
        BY <1>2, <1>3, <1>4, <1>6, <3>2
      <4> QED BY <3>2, <4>1, Zenon DEF Pnpm!Extracted
    <3> QED BY <3>1, <3>2
  <2> QED BY <1>6, <2>1 DEF Pnpm!Given
<1> QED BY <1>1, <1>5, <1>6

\* The facts about a line that is read, of which its handlers make use.
LEMMA PnpmLineOf ==
  ASSUME PnpmInv, NEW l \in Pnpm!Line, Pnpm!Read(l), ~Pnpm!Rejected(l)
  PROVE  /\ Pnpm!Blank(l) => PnpmInv'
         /\ Pnpm!Preamble(l) => PnpmInv'
         /\ Pnpm!Property(l) => PnpmInv'
         /\ Pnpm!SubProperty(l) => PnpmInv'
         /\ Pnpm!Skipped(l) => PnpmInv'
<1>1. /\ l.indent \in {0, 2, 3, 4, 6, 8}
      /\ l.indent = 0 <=> l.word \in {"blank", "packages", "text", "long"}
      /\ l.indent = 2 <=> l.word \in {"key", "line"}
      /\ l.indent = 4 => l.word \in {"resolution", "resolved", "other"}
      /\ l.indent = 6 => l.word \in {"integrity", "other"}
      /\ l.word \in {"resolution", "resolved", "integrity"} => l.val \in BOOLEAN
  BY PnpmLineIs, Zenon
<1>2. /\ inPackages \in BOOLEAN /\ resolutionPending \in BOOLEAN /\ resolvedPending \in BOOLEAN
      /\ Nil \notin Pnpm!Entry /\ (current # Nil => current \in Pnpm!Entry)
      /\ ~inPackages => current = Nil
      /\ Pnpm!here \in Pnpm!Place
  <2>1. inPackages \in BOOLEAN /\ resolutionPending \in BOOLEAN /\ resolvedPending \in BOOLEAN
    BY Zenon DEF PnpmInv, Pnpm!TypeOK
  <2>2. ~inPackages => current = Nil
    BY Zenon DEF PnpmInv
  <2>3. Pnpm!here \in Pnpm!Place
    BY PnpmRead, Zenon
  <2>4. Pnpm!TypeOK
    BY Zenon DEF PnpmInv
  <2> QED BY <2>1, <2>2, <2>3, <2>4, PnpmTypes, Zenon
<1>3. ASSUME Pnpm!Blank(l) PROVE PnpmInv'
  <2>1. /\ l.word = "blank" /\ resolutionPending' = FALSE /\ resolvedPending' = FALSE
        /\ current' = current /\ inPackages' = inPackages /\ entries' = entries /\ result' = result
    BY <1>3, Zenon DEF Pnpm!Blank
  <2>2. l.word # "packages" /\ l.word # "key" /\ l.word \notin PnpmEnds
    BY <2>1 DEF PnpmEnds
  <2> QED BY <1>2, <2>1, <2>2, PnpmLineRead, Zenon
<1>4. ASSUME Pnpm!Preamble(l) PROVE PnpmInv'
  <2>1. /\ ~inPackages /\ inPackages' = (l.word = "packages")
        /\ current' = current /\ resolutionPending' = resolutionPending
        /\ resolvedPending' = resolvedPending /\ entries' = entries /\ result' = result
    BY <1>4, Zenon DEF Pnpm!Preamble
  <2>2. inPackages' \in BOOLEAN
    BY <2>1
  <2> QED BY <1>2, <2>1, <2>2, PnpmLineRead, Zenon
<1>5. ASSUME Pnpm!Skipped(l) PROVE PnpmInv'
  <2>1. /\ inPackages /\ (l.indent = 8 \/ l.word = "line")
        /\ inPackages' = inPackages
        /\ current' = current /\ resolutionPending' = resolutionPending
        /\ resolvedPending' = resolvedPending /\ entries' = entries /\ result' = result
    BY <1>5, Zenon DEF Pnpm!Skipped, Pnpm!state
  <2>2. l.word # "packages" /\ l.word # "key" /\ l.word # "text"
    BY <1>1, <2>1
  <2>3. l.word \notin PnpmEnds
    BY <2>2 DEF PnpmEnds
  <2> QED BY <1>2, <2>1, <2>2, <2>3, PnpmLineRead, Zenon
<1>6. ASSUME inPackages, l.indent \in {4, 6}
      PROVE  /\ current # Nil /\ current \in Pnpm!Entry
             /\ l.word # "packages" /\ l.word # "key" /\ l.word \notin PnpmEnds
  <2>1. current # Nil
    BY <1>6, Zenon DEF Pnpm!Rejected
  <2>2. l.word # "packages" /\ l.word # "key" /\ l.word # "text"
    BY <1>1, <1>6
  <2>3. l.word \notin PnpmEnds
    BY <2>2 DEF PnpmEnds
  <2> QED BY <1>2, <2>1, <2>2, <2>3, Zenon
<1>7. ASSUME NEW x \in Pnpm!Place, current \in Pnpm!Entry, x \in {current.integrity, Pnpm!here}
      PROVE  LET c == [current EXCEPT !.integrity = x]
             IN  /\ c \in Pnpm!Entry
                 /\ c.line = current.line /\ c.name = current.name
                 /\ c.version = current.version
                 /\ {c.integrity, c.resolved}
                      \subseteq {current.integrity, current.resolved, Pnpm!here}
  <2> HIDE DEF Pnpm!here, Pnpm!Place
  <2> QED BY <1>7 DEF Pnpm!Entry, Pnpm!Entries
<1>8. ASSUME NEW x \in Pnpm!Place, current \in Pnpm!Entry, x \in {current.resolved, Pnpm!here}
      PROVE  LET c == [current EXCEPT !.resolved = x]
             IN  /\ c \in Pnpm!Entry
                 /\ c.line = current.line /\ c.name = current.name
                 /\ c.version = current.version
                 /\ {c.integrity, c.resolved}
                      \subseteq {current.integrity, current.resolved, Pnpm!here}
  <2> HIDE DEF Pnpm!here, Pnpm!Place
  <2> QED BY <1>8 DEF Pnpm!Entry, Pnpm!Entries
<1>9. current \in Pnpm!Entry => current.integrity \in Pnpm!Place /\ current.resolved \in Pnpm!Place
  BY DEF Pnpm!Entry, Pnpm!Entries
<1>10. \A o : Pnpm!Given(l, o) \in {o, Pnpm!here}
  BY Zenon DEF Pnpm!Given
<1>11. ASSUME Pnpm!Property(l) PROVE PnpmInv'
  <2>1. /\ inPackages /\ l.indent = 4
        /\ inPackages' = inPackages /\ entries' = entries /\ result' = result
    BY <1>11, Zenon DEF Pnpm!Property
  <2>2. \/ /\ l.word = "resolution" /\ current' = [current EXCEPT !.integrity = Pnpm!Given(l, @)]
           /\ resolutionPending' = (Pnpm!Extracted(l) = {}) /\ resolvedPending' = resolvedPending
        \/ /\ l.word = "resolved" /\ current' = [current EXCEPT !.resolved = Pnpm!Given(l, @)]
           /\ resolvedPending' = (Pnpm!Extracted(l) = {}) /\ resolutionPending' = resolutionPending
        \/ /\ l.word = "other"
           /\ resolutionPending' = FALSE /\ resolvedPending' = FALSE /\ current' = current
    <3>1. l.word \in {"resolution", "resolved", "other"}
      BY <1>1, <2>1
    <3> DEFINE A == /\ current' = [current EXCEPT !.integrity = Pnpm!Given(l, @)]
                    /\ resolutionPending' = (Pnpm!Extracted(l) = {}) /\ UNCHANGED resolvedPending
               B == /\ current' = [current EXCEPT !.resolved = Pnpm!Given(l, @)]
                    /\ resolvedPending' = (Pnpm!Extracted(l) = {}) /\ UNCHANGED resolutionPending
               C == /\ resolutionPending' = FALSE /\ resolvedPending' = FALSE /\ UNCHANGED current
    <3>2. (CASE l.word = "resolution" -> A [] l.word = "resolved" -> B [] l.word = "other" -> C)
      BY <1>11, Zenon DEF Pnpm!Property
    <3> HIDE DEF A, B, C
    <3>3. (l.word = "resolution" /\ A) \/ (l.word = "resolved" /\ B) \/ (l.word = "other" /\ C)
      BY <3>1, <3>2
    <3> QED BY <3>3, Zenon DEF A, B, C
  <2>3. /\ current # Nil /\ current \in Pnpm!Entry
        /\ l.word # "packages" /\ l.word # "key" /\ l.word \notin PnpmEnds
    BY <1>6, <2>1
  <2>4. resolutionPending' \in BOOLEAN /\ resolvedPending' \in BOOLEAN
    BY <1>2, <2>2
  <2>5. \/ current' = current
        \/ /\ current # Nil /\ current' \in Pnpm!Entry
           /\ current'.line = current.line /\ current'.name = current.name
           /\ current'.version = current.version
           /\ {current'.integrity, current'.resolved}
                \subseteq {current.integrity, current.resolved, Pnpm!here}
    <3>1. CASE current' = current
      BY <3>1
    <3>2. CASE current' = [current EXCEPT !.integrity = Pnpm!Given(l, @)]
      <4>1. current' = [current EXCEPT !.integrity = Pnpm!Given(l, current.integrity)]
        BY <3>2
      <4>2. Pnpm!Given(l, current.integrity) \in Pnpm!Place
        BY <1>2, <1>9, <1>10, <2>3, Zenon
      <4> QED BY <1>7, <1>10, <2>3, <4>1, <4>2, Zenon
    <3>3. CASE current' = [current EXCEPT !.resolved = Pnpm!Given(l, @)]
      <4>1. current' = [current EXCEPT !.resolved = Pnpm!Given(l, current.resolved)]
        BY <3>3
      <4>2. Pnpm!Given(l, current.resolved) \in Pnpm!Place
        BY <1>2, <1>9, <1>10, <2>3, Zenon
      <4> QED BY <1>8, <1>10, <2>3, <4>1, <4>2, Zenon
    <3> QED BY <2>2, <3>1, <3>2, <3>3, Zenon
  <2> QED BY <1>2, <2>1, <2>3, <2>4, <2>5, PnpmLineRead, Zenon
<1>12. ASSUME Pnpm!SubProperty(l) PROVE PnpmInv'
  <2>1. /\ inPackages /\ l.indent = 6
        /\ inPackages' = inPackages /\ entries' = entries /\ result' = result
    BY <1>12, Zenon DEF Pnpm!SubProperty
  <2>2. \/ /\ current' = [current EXCEPT !.integrity = Pnpm!here]
           /\ resolutionPending' = FALSE
           /\ resolvedPending' = (resolvedPending /\ resolutionPending)
        \/ /\ current' = current /\ resolutionPending' = resolutionPending
           /\ resolvedPending' = resolvedPending
    BY <1>12, Zenon DEF Pnpm!SubProperty
  <2>3. /\ current # Nil /\ current \in Pnpm!Entry
        /\ l.word # "packages" /\ l.word # "key" /\ l.word \notin PnpmEnds
    BY <1>6, <2>1
  <2>4. resolutionPending' \in BOOLEAN /\ resolvedPending' \in BOOLEAN
    BY <1>2, <2>2
  <2>5. \/ current' = current
        \/ /\ current # Nil /\ current' \in Pnpm!Entry
           /\ current'.line = current.line /\ current'.name = current.name
           /\ current'.version = current.version
           /\ {current'.integrity, current'.resolved}
                \subseteq {current.integrity, current.resolved, Pnpm!here}
    BY <1>2, <1>7, <2>2, <2>3, Zenon
  <2> QED BY <1>2, <2>1, <2>3, <2>4, <2>5, PnpmLineRead, Zenon
<1> QED BY <1>3, <1>4, <1>5, <1>11, <1>12, Zenon

\* A line that makes the parser give up: the list stays what it is.
LEMMA PnpmRejects ==
  ASSUME PnpmInv, NEW l \in Pnpm!Line, Pnpm!Read(l), Pnpm!Reject(l)
  PROVE  PnpmInv'
<1>1. /\ scope' = scope /\ file' = Append(file, l)
      /\ file' \in Seq(Pnpm!Line) /\ Len(file') <= scope.lines
      /\ file'[Len(file')] = l /\ Pnpm!at' = l.word
      /\ Pnpm!Place' = Pnpm!Place /\ Pnpm!Entry' = Pnpm!Entry
      /\ PnpmBegun(file') <=> inPackages \/ l.word = "packages"
      /\ PnpmEntries(file', Pnpm!flushEntry) /\ Ordered(Pnpm!flushEntry)
  BY PnpmRead, Zenon
<1>2. /\ Pnpm!Rejected(l) /\ result' = "rejected" /\ current' = current
      /\ inPackages' = inPackages /\ resolutionPending' = resolutionPending
      /\ resolvedPending' = resolvedPending /\ entries' = entries
  BY Zenon DEF Pnpm!Reject, Pnpm!state
<1>3. Pnpm!flushEntry' = Pnpm!flushEntry
  BY <1>2, Zenon DEF Pnpm!flushEntry
<1>4. "rejected" # "listed" /\ "rejected" \in {"reading", "listed", "rejected"}
      /\ "long" # "packages" /\ "long" # "key"
  OBVIOUS
<1>5. Pnpm!TypeOK'
  <2>1. Pnpm!TypeOK
    BY Zenon DEF PnpmInv
  <2> QED BY <1>1, <1>2, <1>4, <2>1, Zenon DEF Pnpm!TypeOK
<1>6. PnpmBegun(file') <=> inPackages
  <2>1. l.word = "packages" => inPackages
    BY <1>2, <1>4, Zenon DEF Pnpm!Rejected
  <2> QED BY <1>1, <2>1
<1>7. Pnpm!at' = "key" => ~Pnpm!KeyAccepted(l.key.tokens)
  <2> SUFFICES ASSUME l.word = "key" PROVE ~Pnpm!KeyAccepted(l.key.tokens)
    BY <1>1, Zenon
  <2>1. l.indent = 2 /\ l.word # "long" /\ l.word # "integrity"
    BY PnpmLineIs
  <2>2. l.indent # 3 /\ l.indent \notin {4, 6}
    BY <2>1
  <2> QED BY <1>2, <2>1, <2>2, Zenon DEF Pnpm!Rejected
<1> DEFINE bad(f) == Pnpm!KeyAccepted(f[Len(f)].key.tokens)
<1>8. bad(file') <=> Pnpm!KeyAccepted(l.key.tokens)
  BY <1>1, Zenon
<1>9. ~inPackages => current = Nil /\ entries = <<>>
  BY Zenon DEF PnpmInv
<1> QED BY <1>1, <1>2, <1>3, <1>4, <1>5, <1>6, <1>7, <1>8, <1>9, Zenon DEF PnpmInv

\* Both ends of the section: the entry that is read is the last one.
LEMMA PnpmFinishes ==
  ASSUME PnpmInv, Pnpm!Finish, scope' = scope, result = "reading",
         file' \in Seq(Pnpm!Line), Len(file') <= scope.lines,
         Pnpm!at' = "key" => file' = file,
         inPackages <=> PnpmBegun(file'),
         PnpmKeys(file') = PnpmKeys(file), PnpmEntries(file', Pnpm!flushEntry)
  PROVE  PnpmInv'
<1> DEFINE L == Pnpm!flushEntry
<1>1. /\ entries' = L /\ current' = Nil
      /\ result' = (IF Len(L) > maxEntries THEN "rejected" ELSE "listed")
      /\ inPackages' = inPackages /\ resolutionPending' = resolutionPending
      /\ resolvedPending' = resolvedPending
  BY Zenon DEF Pnpm!Finish
<1>2. L \in Seq(Pnpm!Entry) /\ Len(L) \in Nat /\ maxEntries \in Nat
  BY PnpmTypes, Zenon DEF PnpmInv
<1>3. Pnpm!flushEntry' = L
  BY <1>1, Zenon DEF Pnpm!flushEntry
<1>4. Pnpm!Entry' = Pnpm!Entry
  BY Zenon DEF Pnpm!Entry, Pnpm!Place
<1>5. /\ result' \in {"reading", "listed", "rejected"}
      /\ result' = "listed" => Len(entries') <= maxEntries
      /\ result' = "rejected" => ~(Len(entries') <= maxEntries)
  <2> HIDE DEF L
  <2> QED BY <1>1, <1>2
<1>6. Pnpm!TypeOK'
  <2>1. Pnpm!TypeOK
    BY Zenon DEF PnpmInv
  <2>2. entries' \in Seq(Pnpm!Entry') /\ current' \in Pnpm!Entry' \cup {Nil}
    BY <1>1, <1>2, <1>4, Zenon
  <2> QED BY <1>1, <1>5, <2>1, <2>2, Zenon DEF Pnpm!TypeOK
<1>7. Ordered(L) /\ LinesOf(L) = PnpmKeys(file')
  <2>1. result # "rejected"
    OBVIOUS
  <2> QED BY <2>1, Zenon DEF PnpmInv
<1>8. ~inPackages' => entries' = <<>>
  <2>1. ~inPackages => current = Nil /\ entries = <<>>
    BY Zenon DEF PnpmInv
  <2> QED BY <1>1, <2>1, Zenon DEF Pnpm!flushEntry
<1> QED BY <1>1, <1>3, <1>5, <1>6, <1>7, <1>8, Zenon DEF PnpmInv

\* A key: the entry before it is listed, and one for it begun.
LEMMA PnpmKeyRead ==
  ASSUME PnpmInv, NEW l \in Pnpm!Line, Pnpm!Read(l), Pnpm!Key(l)
  PROVE  PnpmInv'
<1> DEFINE L == Pnpm!flushEntry
           e == Pnpm!EntryFor(l.key.tokens)
<1>1. /\ result = "reading" /\ scope' = scope /\ file' = Append(file, l)
      /\ file' \in Seq(Pnpm!Line) /\ Len(file') = Len(file) + 1 /\ Len(file') <= scope.lines
      /\ file'[Len(file')] = l
      /\ Pnpm!Place' = Pnpm!Place /\ Pnpm!Entry' = Pnpm!Entry
      /\ Pnpm!here = Len(file) + 1 /\ Pnpm!here \in Pnpm!Place
      /\ PnpmBegun(file') <=> inPackages \/ l.word = "packages"
      /\ PnpmKeys(file')
           = PnpmKeys(file) \cup (IF l.word = "key" /\ inPackages THEN {Len(file) + 1} ELSE {})
      /\ PnpmEntries(file', L) /\ Ordered(L) /\ LinesOf(L) = PnpmKeys(file)
      /\ \A i \in 1..Len(L) : L[i].line \in 1..Len(file)
  BY PnpmRead, Zenon
<1>2. /\ inPackages /\ l.word = "key" /\ entries' = L /\ current' = e
      /\ resolutionPending' = FALSE /\ resolvedPending' = FALSE
      /\ inPackages' = inPackages /\ result' = result
  BY Zenon DEF Pnpm!Key
<1>3. /\ L \in Seq(Pnpm!Entry) /\ Nil \notin Pnpm!Entry /\ Len(file) \in Nat
      /\ scope.lines \in Nat
  BY PnpmTypes, Zenon DEF PnpmInv
<1>4. l.key \in Pnpm!AllKeys
  BY <1>2, PnpmLineIs, Zenon
<1>5. /\ e.line = Len(file) + 1 /\ e.name = Pnpm!KeyName(l.key.tokens)
      /\ e.version = Pnpm!KeyVersion(l.key.tokens) /\ e.integrity = 0 /\ e.resolved = 0
  BY <1>1, Zenon DEF Pnpm!EntryFor
<1>6. e \in Pnpm!Entry
  <2>1. l.key.tokens \in Seq(Pnpm!Tokens) /\ l.key.tokens # <<>>
    BY <1>4, PnpmKeyIs, Zenon
  <2>2. /\ Pnpm!KeyName(l.key.tokens) \in Seq(Pnpm!Tokens)
        /\ Pnpm!KeyVersion(l.key.tokens) \in Seq(Pnpm!Tokens)
    BY <2>1, PnpmKeyType, Zenon
  <2>3. 0 \in Pnpm!Place
    BY <1>3 DEF Pnpm!Place
  <2> QED BY <1>1, <2>2, <2>3, Zenon DEF Pnpm!EntryFor, Pnpm!Entry, Pnpm!Entries
<1> HIDE DEF e
<1>7. e # Nil /\ Pnpm!flushEntry' = Append(L, e)
  <2>1. e # Nil
    BY <1>3, <1>6, Zenon
  <2> QED BY <1>2, <2>1, Zenon DEF Pnpm!flushEntry
<1>8. /\ LinesOf(Append(L, e)) = PnpmKeys(file') /\ Ordered(Append(L, e))
      /\ \A i \in 1..Len(Append(L, e)) :
              (i \in 1..Len(L) /\ Append(L, e)[i] = L[i])
                \/ (i = Len(L) + 1 /\ Append(L, e)[i] = e)
  <2>1. PnpmKeys(file') = PnpmKeys(file) \cup {e.line}
    BY <1>1, <1>2, <1>5
  <2>2. /\ LinesOf(Append(L, e)) = LinesOf(L) \cup {e.line}
        /\ \A i \in 1..Len(Append(L, e)) :
              (i \in 1..Len(L) /\ Append(L, e)[i] = L[i])
                \/ (i = Len(L) + 1 /\ Append(L, e)[i] = e)
        /\ Ordered(L) /\ e.line = Len(file) + 1 /\ (\A i \in 1..Len(L) : L[i].line \in 1..Len(file))
              => Ordered(Append(L, e))
    BY <1>3, <1>6, ListGrows, ZenonT(60)
  <2> QED BY <1>1, <1>5, <2>1, <2>2, Zenon
<1>9. PnpmEntry(file', e)
  <2>1. e.line \in 1..Len(file') /\ file'[e.line] = l
    BY <1>1, <1>3, <1>5
  <2>2. {e.integrity, e.resolved} \subseteq {0} \cup Own(file', PnpmEnds, e.line)
    BY <1>5
  <2> QED BY <1>2, <1>5, <2>1, <2>2, Zenon DEF PnpmEntry
<1>10. PnpmEntries(file', Append(L, e))
  BY <1>1, <1>8, <1>9, Zenon DEF PnpmEntries
<1>11. StillOpen(file', PnpmEnds, e.line)
  <2>1. \A j : j \notin e.line + 1..Len(file')
    BY <1>1, <1>3, <1>5
  <2> QED BY <2>1, Zenon DEF StillOpen
<1>12. Pnpm!TypeOK'
  <2>1. Pnpm!TypeOK /\ "reading" # "listed" /\ FALSE \in BOOLEAN
    BY Zenon DEF PnpmInv
  <2>2. entries' \in Seq(Pnpm!Entry') /\ current' \in Pnpm!Entry' \cup {Nil}
    BY <1>1, <1>2, <1>3, <1>6, Zenon
  <2> QED BY <1>1, <1>2, <2>1, <2>2, Zenon DEF Pnpm!TypeOK
<1>13. result' # "rejected"
  BY <1>1, <1>2
<1>14. PnpmBegun(file') /\ inPackages'
  BY <1>1, <1>2, Zenon
<1> QED BY <1>2, <1>7, <1>8, <1>10, <1>11, <1>12, <1>13, <1>14, Zenon DEF PnpmInv

\* Every step of pnpm keeps it.
LEMMA PnpmStep ==
  ASSUME PnpmInv, Pnpm!Next PROVE PnpmInv'
<1>1. ASSUME NEW l \in Pnpm!Line, Pnpm!ReadLine(l) PROVE PnpmInv'
  <2>1. Pnpm!Read(l)
    BY <1>1, Zenon DEF Pnpm!ReadLine
  <2>2. CASE Pnpm!SectionEnds(l)
    <3>1. /\ inPackages /\ l.word \in {"packages", "text"} /\ Pnpm!Finish
      BY <2>2, Zenon DEF Pnpm!SectionEnds
    <3>2. l.word # "key"
      BY <3>1
    <3>3. /\ result = "reading" /\ scope' = scope
          /\ file' \in Seq(Pnpm!Line) /\ Len(file') <= scope.lines /\ Pnpm!at' = l.word
          /\ PnpmBegun(file') <=> inPackages \/ l.word = "packages"
          /\ PnpmKeys(file')
               = PnpmKeys(file) \cup (IF l.word = "key" /\ inPackages THEN {Len(file) + 1} ELSE {})
          /\ PnpmEntries(file', Pnpm!flushEntry)
      BY <2>1, PnpmRead, Zenon
    <3>4. PnpmKeys(file') = PnpmKeys(file)
      BY <3>2, <3>3
    <3> QED BY <3>1, <3>2, <3>3, <3>4, PnpmFinishes, Zenon
  <2> QED BY <1>1, <2>1, <2>2, PnpmRejects, PnpmKeyRead, PnpmLineOf, Zenon DEF Pnpm!ReadLine
<1>2. ASSUME Pnpm!EndOfFile PROVE PnpmInv'
  <2>1. result = "reading" /\ Pnpm!Finish /\ scope' = scope /\ file' = file
    BY <1>2, Zenon DEF Pnpm!EndOfFile
  <2>2. file \in Seq(Pnpm!Line) /\ Len(file) <= scope.lines
    BY PnpmTypes, Zenon DEF PnpmInv
  <2>3. inPackages <=> PnpmBegun(file)
    BY Zenon DEF PnpmInv
  <2>4. PnpmEntries(file, Pnpm!flushEntry)
    BY Zenon DEF PnpmInv
  <2> QED BY <2>1, <2>2, <2>3, <2>4, PnpmFinishes, Zenon
<1> QED BY <1>1, <1>2, Zenon DEF Pnpm!Next

\* What the properties of the parser of pnpm say, from its invariant.
LEMMA PnpmShown ==
  ASSUME PnpmInv
  PROVE  Pnpm!TypeOK /\ Pnpm!EveryKeyListed /\ Pnpm!ListedKeysUnderstood
<1> DEFINE L == Pnpm!flushEntry
<1>1. /\ file \in Seq(Pnpm!Line) /\ Len(file) \in Nat /\ DOMAIN file = 1..Len(file)
      /\ L \in Seq(Pnpm!Entry) /\ entries \in Seq(Pnpm!Entry)
  BY PnpmTypes, Zenon DEF PnpmInv
<1>2. DOMAIN L = 1..Len(L) /\ DOMAIN entries = 1..Len(entries)
  BY <1>1, LenProperties, Zenon
<1>3. ASSUME NEW e \in Pnpm!Range(L) PROVE PnpmEntry(file, e)
  <2>1. PICK i \in DOMAIN L : e = L[i]
    BY Zenon DEF Pnpm!Range
  <2> QED BY <1>2, <2>1, Zenon DEF PnpmInv, PnpmEntries
<1>4. ASSUME result = "listed"
      PROVE  {e.line : e \in Pnpm!Range(entries)} = Pnpm!PackageLines /\ Pnpm!InOrder
  <2>1. current = Nil /\ L = entries
    BY <1>4, Zenon DEF PnpmInv, Pnpm!TypeOK, Pnpm!flushEntry
  <2>2. result # "rejected"
    BY <1>4
  <2>3. LinesOf(entries) = PnpmKeys(file) /\ Ordered(entries)
    BY <2>1, <2>2, Zenon DEF PnpmInv
  <2>4. {e.line : e \in Pnpm!Range(entries)} = LinesOf(entries)
    BY <1>2, Zenon DEF Pnpm!Range, LinesOf
  <2>5. Pnpm!PackageLines = PnpmKeys(file)
    <3>1. ASSUME NEW i PROVE "packages" \in {file[j].word : j \in 1..i}
                               <=> \E j \in 1..i : file[j].word = "packages"
      BY Zenon
    <3> QED BY <1>1, <3>1, Zenon DEF Pnpm!PackageLines, PnpmKeys
  <2>6. Pnpm!InOrder
    BY <1>2, <2>3, Zenon DEF Pnpm!InOrder, Ordered
  <2> QED BY <2>3, <2>4, <2>5, <2>6, Zenon
<1>5. ASSUME NEW i \in Nat PROVE Pnpm!Block(i) = Own(file, PnpmEnds, i)
  <2> DEFINE E == {j \in i+1..Len(file) : file[j].word \in PnpmEnds}
  <2>1. i+1 .. Min(E \cup {Len(file) + 1}) - 1 = Own(file, PnpmEnds, i)
    BY <1>1, BlockIs, Zenon
  <2>2. \A S : Pnpm!Min(S) = Min(S)
    BY Zenon DEF Pnpm!Min, Min
  <2>3. Pnpm!Block(i) = i+1 .. Pnpm!Min(E \cup {Len(file) + 1}) - 1
    BY Zenon DEF Pnpm!Block, PnpmEnds
  <2> QED BY <2>1, <2>2, <2>3, Zenon
<1>6. Pnpm!EveryKeyListed
  <2>1. ASSUME NEW e \in Pnpm!Range(L)
        PROVE  {e.integrity, e.resolved} \subseteq {0} \cup Pnpm!Block(e.line)
    <3>1. e.line \in Nat
      BY <1>1, <1>3 DEF PnpmEntry
    <3> QED BY <1>3, <1>5, <3>1, Zenon DEF PnpmEntry
  <2> QED BY <1>4, <2>1, Zenon DEF Pnpm!EveryKeyListed
<1>7. Pnpm!ListedKeysUnderstood
  <2>1. ASSUME NEW e \in Pnpm!Range(L), file[e.line].key \in Pnpm!ListedKeys
        PROVE  e.name = file[e.line].key.name /\ e.version = <<"v">>
    BY <1>3, <2>1, ListedKeyIs, Zenon DEF PnpmEntry
  <2>2. ASSUME result = "rejected", Len(entries) <= maxEntries, Pnpm!at = "key"
        PROVE  file[Len(file)].key \notin Pnpm!ListedKeys
    BY <2>2, ListedKeyIs, Zenon DEF PnpmInv
  <2> QED BY <2>1, <2>2, Zenon DEF Pnpm!ListedKeysUnderstood
<1> QED BY <1>6, <1>7, Zenon DEF PnpmInv

-----------------------------------------------------------------------------
(* yarn: the list is what is read, but for the entries before a text. *)

\* The lines that end the block of a package.
YarnEnds == {"key", "__metadata"}

\* What is listed for a line of the file is a package there.
YarnEntry(fl, e) ==
  /\ e.line \in 1..Len(fl) /\ fl[e.line].word = "key" /\ ~Yarn!Skipped(fl[e.line].key)
  /\ {e.version, e.integrity, e.resolved} \subseteq {0} \cup Own(fl, YarnEnds, e.line)

YarnEntries(fl, es) == \A i \in 1..Len(es) : YarnEntry(fl, es[i])

\* The packages of the file, and those that a text follows.
YarnKeys(fl) == {i \in 1..Len(fl) : fl[i].word = "key" /\ ~Yarn!Skipped(fl[i].key)}
TextIn(fl, i) == \E j \in Own(fl, YarnEnds, i) : fl[j].word = "text"

\* The inductive invariant of yarn.
YarnInv ==
  /\ Yarn!TypeOK
  /\ result # "rejected" /\ inPackages /\ current # Nil =>
       StillOpen(file, YarnEnds, current.line)
  /\ ~inPackages /\ current # Nil => TextIn(file, current.line)
  /\ YarnEntries(file, Yarn!flushEntry)
  /\ Ordered(Yarn!flushEntry)
  /\ result # "rejected" =>
       \A i \in YarnKeys(file) \ LinesOf(Yarn!flushEntry) : TextIn(file, i)

\* What is known of a line by its indent and its word.
LEMMA YarnLineIs ==
  ASSUME NEW l \in Yarn!Line
  PROVE  /\ l.indent \in {0, 1, 2, 4}
         /\ l.indent = 0 <=> l.word \in {"blank", "__metadata", "packages", "text", "long", "key"}
         /\ l.indent = 2 => l.word \in {"version", "resolution", "checksum", "other"}
         /\ l.word = "key" => l.key \in Yarn!Keys
         /\ l.indent \in {2, 4} => l.val \in BOOLEAN
<1>1. CASE l \in [indent : {0}, word : {"blank", "__metadata", "packages", "text", "long"},
               val : {FALSE}]
  BY <1>1
<1>2. CASE l \in [indent : {0}, word : {"key"}, key : Yarn!Keys]
  BY <1>2
<1>3. CASE l \in [indent : {1}, word : {"other"}, val : {FALSE}]
  BY <1>3
<1>4. CASE l \in [indent : {2}, word : {"version", "resolution", "checksum"}, val : BOOLEAN]
  BY <1>4
<1>5. CASE l \in [indent : {2}, word : {"other"}, val : {FALSE}]
  <2>1. l.indent = 2 /\ l.word = "other" /\ l.val = FALSE
    BY <1>5
  <2>2. l.indent = 2 /\ l.word = "other" /\ l.val \in BOOLEAN
    BY <2>1, Zenon
  <2> QED BY <2>2
<1>6. CASE l \in [indent : {4}, word : {"tarball", "other"}, val : BOOLEAN]
  BY <1>6
<1> QED BY <1>1, <1>2, <1>3, <1>4, <1>5, <1>6, Zenon DEF Yarn!Line

\* The name that a key gives is one.
LEMMA YarnNameType ==
  ASSUME NEW key \in Yarn!Keys
  PROVE  SubSeq(key, 1, Yarn!LastAt(key, "@npm:") - 1) \in Seq(Yarn!Tokens)
<1>1. key \in Seq(Yarn!Tokens)
  <2>0. /\ "name" \in Yarn!Tokens /\ "@npm:" \in Yarn!Tokens /\ "@patch:" \in Yarn!Tokens
        /\ "range" \in Yarn!Tokens /\ ", " \in Yarn!Tokens
    BY DEF Yarn!Tokens
  <2>1. \A T : \A a, b, c, d \in T : <<a, b, c>> \in Seq(T) /\ <<a>> \in Seq(T)
                                     /\ <<a, b, c, d, a, b, c>> \in Seq(T)
    OBVIOUS
  <2>5. \/ key = <<"name", "@npm:", "range">>
        \/ key = <<"name", "@npm:", "range", ", ", "name", "@npm:", "range">>
        \/ key = <<"name", "@patch:", "range">>
        \/ key = <<"name">>
    BY Zenon DEF Yarn!Keys
  <2> QED BY <2>0, <2>1, <2>5, Zenon
<1>2. Yarn!LastAt(key, "@npm:") \in 0..Len(key)
  BY <1>1, LastInIs, ZenonT(60)
<1> DEFINE n == Yarn!LastAt(key, "@npm:")
           T == Yarn!Tokens
<1> HIDE DEF n, T
<1>3. SubSeq(key, 1, n - 1) \in Seq(T)
  <2>1. key \in Seq(T) /\ n \in 0..Len(key) /\ Len(key) \in Nat
    BY <1>1, <1>2, LenProperties, Zenon DEF n, T
  <2>2. \A i \in 1..n - 1 : key[i] \in T
    BY <2>1
  <2> QED BY <2>1, <2>2
<1> QED BY <1>3, Zenon DEF n, T

\* What is listed stays true when a line is read, and what is lost is lost.
LEMMA YarnEntryGrows ==
  ASSUME NEW fl \in Seq(Yarn!Line), NEW l \in Yarn!Line
  PROVE  /\ \A e : YarnEntry(fl, e) => YarnEntry(Append(fl, l), e)
         /\ \A i \in Nat : TextIn(fl, i) => TextIn(Append(fl, l), i)
         /\ YarnKeys(Append(fl, l))
              = YarnKeys(fl) \cup (IF l.word = "key" /\ ~Yarn!Skipped(l.key)
                                     THEN {Len(fl) + 1} ELSE {})
<1> DEFINE g == Append(fl, l)
<1>1. /\ Len(fl) \in Nat /\ Len(g) = Len(fl) + 1 /\ \A k \in 1..Len(fl) : g[k] = fl[k]
      /\ g[Len(fl) + 1] = l
  BY AppendIs
<1>2. \A i \in Nat : Own(fl, YarnEnds, i) \subseteq Own(g, YarnEnds, i)
  BY OwnGrows, Zenon
<1> HIDE DEF g
<1>3. ASSUME NEW e, YarnEntry(fl, e) PROVE YarnEntry(g, e)
  <2>1. e.line \in 1..Len(fl)
    BY <1>3, Zenon DEF YarnEntry
  <2>2. e.line \in Nat /\ e.line \in 1..Len(g) /\ g[e.line] = fl[e.line]
    BY <1>1, <2>1
  <2> QED BY <1>2, <1>3, <2>2, Zenon DEF YarnEntry
<1>4. ASSUME NEW i \in Nat, TextIn(fl, i) PROVE TextIn(g, i)
  <2>1. PICK j \in Own(fl, YarnEnds, i) : fl[j].word = "text"
    BY <1>4, Zenon DEF TextIn
  <2>2. j \in i+1..Len(fl)
    BY Zenon DEF Own
  <2>3. j \in 1..Len(fl)
    BY <1>1, <2>2
  <2> QED BY <1>1, <1>2, <2>1, <2>3, Zenon DEF TextIn
<1>5. YarnKeys(g) = YarnKeys(fl) \cup (IF l.word = "key" /\ ~Yarn!Skipped(l.key)
                                         THEN {Len(fl) + 1} ELSE {})
  <2>1. \A k \in 1..Len(g) : k \in 1..Len(fl) \/ k = Len(fl) + 1
    BY <1>1
  <2>2. 1..Len(fl) \subseteq 1..Len(g) /\ Len(fl) + 1 \in 1..Len(g)
    BY <1>1
  <2>3. \A i \in 1..Len(fl) : i \in YarnKeys(g) <=> i \in YarnKeys(fl)
    BY <1>1, <2>2, Zenon DEF YarnKeys
  <2>4. Len(fl) + 1 \in YarnKeys(g) <=> l.word = "key" /\ ~Yarn!Skipped(l.key)
    BY <1>1, <2>2, Zenon DEF YarnKeys
  <2>5. YarnKeys(g) \subseteq 1..Len(g) /\ YarnKeys(fl) \subseteq 1..Len(fl)
    BY Zenon DEF YarnKeys
  <2> QED BY <2>1, <2>3, <2>4, <2>5, Zenon
<1> QED BY <1>3, <1>4, <1>5, Zenon DEF g

\* The types of what is read of yarn, and that no entry is Nil.
LEMMA YarnTypes ==
  ASSUME Yarn!TypeOK
  PROVE  /\ scope \in YarnScopes /\ scope.lines \in Nat /\ maxEntries \in Nat
         /\ file \in Seq(Yarn!Line) /\ Len(file) \in Nat /\ Len(file) <= scope.lines
         /\ DOMAIN file = 1..Len(file)
         /\ Nil \notin Yarn!Entry
         /\ entries \in Seq(Yarn!Entry) /\ Len(entries) \in Nat
         /\ current # Nil => current \in Yarn!Entry
         /\ Yarn!flushEntry \in Seq(Yarn!Entry) /\ Len(Yarn!flushEntry) \in Nat
<1>1. /\ scope \in YarnScopes /\ file \in Seq(Yarn!Line) /\ Len(file) <= scope.lines
      /\ entries \in Seq(Yarn!Entry) /\ current \in Yarn!Entry \cup {Nil}
  BY Zenon DEF Yarn!TypeOK
<1>2. scope.lines \in Nat /\ maxEntries \in Nat /\ Nil \notin Yarn!Entries(Nat)
  <2>1. /\ YarnScopes \subseteq [written : BOOLEAN, lines : Nat]
        /\ maxEntries \in Nat /\ Nil \notin Yarn!Entries(Nat)
    BY ParsersAssumption, Zenon DEF ParsersAssumption, Yarn!ParserAssumption
  <2> QED BY <1>1, <2>1
<1>3. Nil \notin Yarn!Entry
  <2>1. Yarn!Place \subseteq Nat
    BY <1>2 DEF Yarn!Place
  <2>2. Yarn!Entry \subseteq Yarn!Entries(Nat)
    BY <2>1 DEF Yarn!Entry, Yarn!Entries
  <2> QED BY <1>2, <2>2
<1>4. Yarn!flushEntry \in Seq(Yarn!Entry)
  <2>1. CASE current = Nil
    BY <1>1, <2>1, Zenon DEF Yarn!flushEntry
  <2>2. CASE current # Nil
    <3>1. current \in Yarn!Entry
      BY <1>1, <2>2
    <3>2. Append(entries, current) \in Seq(Yarn!Entry)
      BY <1>1, <3>1, AppendIs, Zenon
    <3> QED BY <2>2, <3>2, Zenon DEF Yarn!flushEntry
  <2> QED BY <2>1, <2>2
<1> QED BY <1>1, <1>2, <1>3, <1>4, LenProperties

\* yarn begins in its invariant.
LEMMA YarnInit ==
  ASSUME Yarn!Init PROVE YarnInv
<1>1. file = <<>> /\ entries = <<>> /\ current = Nil /\ Yarn!flushEntry = <<>>
  BY Zenon DEF Yarn!Init, Yarn!flushEntry
<1>2. scope \in YarnScopes /\ scope.lines \in Nat /\ maxEntries \in Nat
  <2>1. YarnScopes \subseteq [written : BOOLEAN, lines : Nat] /\ maxEntries \in Nat
    BY ParsersAssumption, Zenon DEF ParsersAssumption, Yarn!ParserAssumption
  <2>2. scope \in YarnScopes
    BY Zenon DEF Yarn!Init
  <2> QED BY <2>1, <2>2
<1>3. Len(<<>>) = 0 /\ \A S : <<>> \in Seq(S)
  OBVIOUS
<1>4. Yarn!TypeOK
  <2>1. Len(file) <= scope.lines
    BY <1>1, <1>2, <1>3
  <2>2. "reading" # "listed"
    OBVIOUS
  <2> QED BY <1>1, <1>2, <1>3, <2>1, <2>2, Zenon DEF Yarn!Init, Yarn!TypeOK
<1>5. Ordered(<<>>) /\ YarnKeys(<<>>) = {} /\ YarnEntries(<<>>, <<>>)
  BY DEF Ordered, YarnKeys, YarnEntries
<1> QED BY <1>1, <1>4, <1>5, Zenon DEF YarnInv

\* What holds of the file with one more line before the line is looked at.
LEMMA YarnRead ==
  ASSUME YarnInv, NEW l \in Yarn!Line, Yarn!Read(l)
  PROVE  /\ result = "reading" /\ scope' = scope /\ file' = Append(file, l)
         /\ file' \in Seq(Yarn!Line) /\ Len(file') = Len(file) + 1 /\ Len(file') <= scope.lines
         /\ file'[Len(file')] = l
         /\ Yarn!Entry' = Yarn!Entry
         /\ Yarn!here = Len(file) + 1 /\ Yarn!here \in Yarn!Place
         /\ YarnKeys(file')
              = YarnKeys(file) \cup (IF l.word = "key" /\ ~Yarn!Skipped(l.key)
                                       THEN {Len(file) + 1} ELSE {})
         /\ YarnEntries(file', Yarn!flushEntry)
         /\ Ordered(Yarn!flushEntry)
         /\ \A i \in YarnKeys(file) \ LinesOf(Yarn!flushEntry) : TextIn(file', i)
         /\ \A i \in 1..Len(Yarn!flushEntry) : Yarn!flushEntry[i].line \in 1..Len(file)
<1>1. /\ file \in Seq(Yarn!Line) /\ Len(file) \in Nat /\ scope.lines \in Nat
  BY YarnTypes, Zenon DEF YarnInv
<1>2. /\ result = "reading" /\ scope' = scope /\ file' = Append(file, l)
      /\ Len(file) < scope.lines
  BY Zenon DEF Yarn!Read
<1>3. /\ file' \in Seq(Yarn!Line) /\ Len(file') = Len(file) + 1
      /\ file'[Len(file')] = l
  <2>1. /\ Append(file, l) \in Seq(Yarn!Line) /\ Len(Append(file, l)) = Len(file) + 1
        /\ Append(file, l)[Len(file) + 1] = l
    BY <1>1, AppendIs
  <2> QED BY <1>2, <2>1, Zenon
<1>4. Len(file') <= scope.lines /\ Yarn!here \in Yarn!Place /\ Yarn!here = Len(file) + 1
  BY <1>1, <1>2, <1>3 DEF Yarn!here, Yarn!Place
<1>5. Yarn!Entry' = Yarn!Entry
  BY <1>2, Zenon DEF Yarn!Entry, Yarn!Place
<1>6. /\ \A e : YarnEntry(file, e) => YarnEntry(file', e)
      /\ \A i \in Nat : TextIn(file, i) => TextIn(file', i)
      /\ YarnKeys(file')
           = YarnKeys(file) \cup (IF l.word = "key" /\ ~Yarn!Skipped(l.key)
                                    THEN {Len(file) + 1} ELSE {})
  BY <1>1, <1>2, YarnEntryGrows, Zenon
<1>7. /\ YarnEntries(file, Yarn!flushEntry) /\ Ordered(Yarn!flushEntry)
      /\ \A i \in YarnKeys(file) \ LinesOf(Yarn!flushEntry) : TextIn(file, i)
  <2>1. result # "rejected"
    BY <1>2
  <2> QED BY <2>1, Zenon DEF YarnInv
<1>8. YarnEntries(file', Yarn!flushEntry)
  BY <1>6, <1>7, Zenon DEF YarnEntries
<1>9. \A i \in YarnKeys(file) \ LinesOf(Yarn!flushEntry) : TextIn(file', i)
  <2>1. YarnKeys(file) \subseteq Nat
    BY <1>1 DEF YarnKeys
  <2> QED BY <1>6, <1>7, <2>1, Zenon
<1>10. \A i \in 1..Len(Yarn!flushEntry) : Yarn!flushEntry[i].line \in 1..Len(file)
  BY <1>7, Zenon DEF YarnEntries, YarnEntry
<1> QED BY <1>2, <1>3, <1>4, <1>5, <1>6, <1>7, <1>8, <1>9, <1>10, Zenon

\* What is known of the entry that is being read.
LEMMA YarnCurrent ==
  ASSUME YarnInv, NEW l \in Yarn!Line, Yarn!Read(l), current # Nil
  PROVE  /\ current \in Yarn!Entry
         /\ Yarn!flushEntry = Append(entries, current)
         /\ \A i \in 1..Len(entries) : /\ i \in 1..Len(Yarn!flushEntry)
                                       /\ Yarn!flushEntry[i] = entries[i]
         /\ current.line \in 1..Len(file) /\ current.line \in Nat /\ current.line <= Len(file)
         /\ YarnEntry(file', current)
         /\ inPackages => StillOpen(file, YarnEnds, current.line)
         /\ ~inPackages => TextIn(file', current.line)
<1>1. /\ file \in Seq(Yarn!Line) /\ Len(file) \in Nat /\ entries \in Seq(Yarn!Entry)
      /\ current \in Yarn!Entry
  BY YarnTypes, Zenon DEF YarnInv
<1>2. result = "reading" /\ file' = Append(file, l) /\ YarnEntries(file', Yarn!flushEntry)
      /\ \A i \in 1..Len(Yarn!flushEntry) : Yarn!flushEntry[i].line \in 1..Len(file)
  BY YarnRead, Zenon
<1>3. Yarn!flushEntry = Append(entries, current)
  BY Zenon DEF Yarn!flushEntry
<1> DEFINE L == Yarn!flushEntry
<1> HIDE DEF L
<1>4. /\ \A i \in 1..Len(entries) : i \in 1..Len(L) /\ L[i] = entries[i]
      /\ Len(entries) + 1 \in 1..Len(L) /\ L[Len(entries) + 1] = current
  <2>1. L = Append(entries, current)
    BY <1>3, Zenon DEF L
  <2> QED BY <1>1, <2>1, AppendIs
<1>5. current.line \in 1..Len(file) /\ YarnEntry(file', current)
  BY <1>2, <1>4, Zenon DEF L, YarnEntries
<1>6. current.line \in Nat /\ current.line <= Len(file)
  BY <1>1, <1>5
<1>7. inPackages => StillOpen(file, YarnEnds, current.line)
  <2>1. result # "rejected"
    BY <1>2
  <2> QED BY <2>1, Zenon DEF YarnInv
<1>8. ~inPackages => TextIn(file', current.line)
  <2>1. ~inPackages => TextIn(file, current.line)
    BY Zenon DEF YarnInv
  <2> QED BY <1>1, <1>2, <1>6, <2>1, YarnEntryGrows, Zenon
<1> QED BY <1>1, <1>3, <1>4, <1>5, <1>6, <1>7, <1>8, Zenon DEF L

\* A line that is not a key and does not end an entry, which may change.
LEMMA YarnLineRead ==
  ASSUME YarnInv, NEW l \in Yarn!Line, Yarn!Read(l),
         entries' = entries, result' = result,
         resolutionPending' \in BOOLEAN, checksumPending' \in BOOLEAN, inPackages' \in BOOLEAN,
         inPackages' <=> inPackages /\ l.word # "text",
         l.word # "key",
         inPackages /\ current # Nil => l.word \notin YarnEnds,
         \/ current' = current
         \/ /\ current # Nil /\ inPackages /\ current' \in Yarn!Entry
            /\ current'.line = current.line
            /\ {current'.version, current'.integrity, current'.resolved}
                 \subseteq {current.version, current.integrity, current.resolved, Yarn!here}
  PROVE  YarnInv'
<1> DEFINE L == Yarn!flushEntry
<1>1. /\ result = "reading" /\ scope' = scope /\ file' = Append(file, l)
      /\ file' \in Seq(Yarn!Line) /\ Len(file') = Len(file) + 1 /\ Len(file') <= scope.lines
      /\ file'[Len(file')] = l
      /\ Yarn!Entry' = Yarn!Entry /\ Yarn!here = Len(file) + 1
      /\ YarnKeys(file')
           = YarnKeys(file) \cup (IF l.word = "key" /\ ~Yarn!Skipped(l.key)
                                    THEN {Len(file) + 1} ELSE {})
      /\ YarnEntries(file', L) /\ Ordered(L)
      /\ \A i \in YarnKeys(file) \ LinesOf(L) : TextIn(file', i)
  BY YarnRead, Zenon
<1>2. /\ file \in Seq(Yarn!Line) /\ Len(file) \in Nat /\ Nil \notin Yarn!Entry
      /\ entries \in Seq(Yarn!Entry) /\ scope \in YarnScopes
      /\ current # Nil => current \in Yarn!Entry
  BY YarnTypes, Zenon DEF YarnInv
<1>3. Yarn!TypeOK'
  <2>1. current' \in Yarn!Entry \cup {Nil}
    BY <1>2
  <2>2. Len(file') <= scope'.lines /\ scope' \in YarnScopes /\ file' \in Seq(Yarn!Line)
    BY <1>1, <1>2, Zenon
  <2>3. result' = "reading" /\ "reading" # "listed"
        /\ "reading" \in {"reading", "listed", "rejected"}
    BY <1>1
  <2>4. entries' \in Seq(Yarn!Entry') /\ current' \in Yarn!Entry' \cup {Nil}
    BY <1>1, <1>2, <2>1, Zenon
  <2> QED BY <2>2, <2>3, <2>4, Zenon DEF Yarn!TypeOK
<1>4. YarnKeys(file') = YarnKeys(file)
  BY <1>1
<1>5. CASE current = Nil
  <2>1. current' = Nil /\ L = entries /\ Yarn!flushEntry' = entries
    BY <1>5, Zenon DEF Yarn!flushEntry
  <2> QED BY <1>1, <1>3, <1>4, <2>1, Zenon DEF YarnInv
<1>6. CASE current # Nil
  <2>1. /\ current \in Yarn!Entry /\ L = Append(entries, current)
        /\ \A i \in 1..Len(entries) : i \in 1..Len(L) /\ L[i] = entries[i]
        /\ current.line \in Nat /\ current.line <= Len(file)
        /\ YarnEntry(file', current)
        /\ inPackages => StillOpen(file, YarnEnds, current.line)
        /\ ~inPackages => TextIn(file', current.line)
    BY <1>6, YarnCurrent, Zenon
  <2>2. /\ current' \in Yarn!Entry /\ current' # Nil /\ current'.line = current.line
        /\ \/ current' = current
           \/ /\ inPackages
              /\ {current'.version, current'.integrity, current'.resolved}
                   \subseteq {current.version, current.integrity, current.resolved, Yarn!here}
    <3>1. current' \in Yarn!Entry => current' # Nil
      BY <1>2, Zenon
    <3>2. CASE current' = current
      BY <2>1, <3>1, <3>2, Zenon
    <3> QED BY <3>1, <3>2, Zenon
  <2> DEFINE M == Append(entries, current')
  <2>3. LinesOf(M) = LinesOf(L) /\ Ordered(M)
    <3>1. L = Append(entries, current) /\ M = Append(entries, current')
      BY <2>1, Zenon
    <3>2. Ordered(L)
      BY <1>1, Zenon
    <3> HIDE DEF L, M
    <3> QED BY <1>2, <2>1, <2>2, <3>1, <3>2, ListChanges
  <2>4. inPackages => /\ StillOpen(file', YarnEnds, current.line)
                      /\ Yarn!here \in Own(file', YarnEnds, current.line)
    BY <1>1, <1>2, <1>6, <2>1, OwnGrows, Zenon
  <2>5. YarnEntry(file', current')
    <3>1. CASE current' = current
      BY <2>1, <3>1, Zenon
    <3>2. CASE /\ inPackages
               /\ {current'.version, current'.integrity, current'.resolved}
                    \subseteq {current.version, current.integrity, current.resolved, Yarn!here}
      <4>1. {current.version, current.integrity, current.resolved}
               \subseteq {0} \cup Own(file', YarnEnds, current.line)
        BY <2>1, Zenon DEF YarnEntry
      <4>2. {current'.version, current'.integrity, current'.resolved}
               \subseteq {0} \cup Own(file', YarnEnds, current.line)
        BY <2>4, <3>2, <4>1
      <4> QED BY <2>1, <2>2, <4>2, Zenon DEF YarnEntry
    <3> QED BY <2>2, <3>1, <3>2, Zenon
  <2>6. YarnEntries(file', M)
    <3>1. \A i \in 1..Len(M) : (i \in 1..Len(entries) /\ M[i] = entries[i])
                                 \/ (i = Len(entries) + 1 /\ M[i] = current')
      BY <1>2, <2>2, ListGrows
    <3> QED BY <1>1, <2>1, <2>5, <3>1, Zenon DEF YarnEntries
  <2>7. ~inPackages' => TextIn(file', current.line)
    <3>1. CASE ~inPackages
      BY <2>1, <3>1, Zenon
    <3>2. CASE inPackages /\ l.word = "text"
      BY <1>1, <2>4, <3>2, Zenon DEF TextIn
    <3> QED BY <3>1, <3>2, Zenon
  <2>8. inPackages' => StillOpen(file', YarnEnds, current.line)
    BY <2>4, Zenon
  <2>9. Yarn!flushEntry' = M
    BY <2>2, Zenon DEF Yarn!flushEntry
  <2> QED BY <1>1, <1>3, <1>4, <2>2, <2>3, <2>6, <2>7, <2>8, <2>9, Zenon DEF YarnInv
<1> QED BY <1>5, <1>6

\* The handlers of yarn that begin no entry and end none.
LEMMA YarnLineOf ==
  ASSUME YarnInv, NEW l \in Yarn!Line, Yarn!Read(l)
  PROVE  /\ Yarn!Blank(l) => YarnInv'
         /\ Yarn!Text(l) => YarnInv'
         /\ Yarn!Metadata(l) /\ ~inPackages => YarnInv'
         /\ Yarn!Ignored(l) => YarnInv'
         /\ Yarn!Property(l) => YarnInv'
         /\ Yarn!SubProperty(l) => YarnInv'
<1>1. /\ l.indent \in {0, 1, 2, 4}
      /\ l.indent = 0 <=> l.word \in {"blank", "__metadata", "packages", "text", "long", "key"}
      /\ l.indent = 2 => l.word \in {"version", "resolution", "checksum", "other"}
      /\ l.indent \in {2, 4} => l.val \in BOOLEAN
  BY YarnLineIs, Zenon
<1>2. /\ inPackages \in BOOLEAN /\ resolutionPending \in BOOLEAN /\ checksumPending \in BOOLEAN
      /\ Nil \notin Yarn!Entry /\ (current # Nil => current \in Yarn!Entry)
      /\ Yarn!here \in Yarn!Place
  <2>1. inPackages \in BOOLEAN /\ resolutionPending \in BOOLEAN /\ checksumPending \in BOOLEAN
    BY Zenon DEF YarnInv, Yarn!TypeOK
  <2>2. Yarn!here \in Yarn!Place
    BY YarnRead, Zenon
  <2>3. Yarn!TypeOK
    BY Zenon DEF YarnInv
  <2> QED BY <2>1, <2>2, <2>3, YarnTypes, Zenon
<1>3. l.indent # 0 => l.word # "text" /\ l.word # "key" /\ l.word \notin YarnEnds
  BY <1>1 DEF YarnEnds
<1>4. ASSUME Yarn!Blank(l) PROVE YarnInv'
  <2>1. /\ l.word = "blank" /\ resolutionPending' = FALSE /\ checksumPending' = FALSE
        /\ current' = current /\ inPackages' = inPackages /\ entries' = entries /\ result' = result
    BY <1>4, Zenon DEF Yarn!Blank
  <2>2. l.word # "text" /\ l.word # "key" /\ l.word \notin YarnEnds
    BY <2>1 DEF YarnEnds
  <2> QED BY <1>2, <2>1, <2>2, YarnLineRead, Zenon
<1>5. ASSUME Yarn!Text(l) PROVE YarnInv'
  <2>1. /\ l.word = "text" /\ inPackages' = FALSE
        /\ current' = current /\ resolutionPending' = resolutionPending
        /\ checksumPending' = checksumPending /\ entries' = entries /\ result' = result
    BY <1>5, Zenon DEF Yarn!Text
  <2>2. l.word # "key" /\ l.word \notin YarnEnds /\ FALSE \in BOOLEAN
    BY <2>1 DEF YarnEnds
  <2> QED BY <1>2, <2>1, <2>2, YarnLineRead, Zenon
<1>6. ASSUME Yarn!Metadata(l), ~inPackages PROVE YarnInv'
  <2>1. /\ l.word = "__metadata" /\ inPackages' = FALSE
        /\ current' = current /\ resolutionPending' = resolutionPending
        /\ checksumPending' = checksumPending /\ entries' = entries /\ result' = result
    BY <1>6, Zenon DEF Yarn!Metadata
  <2>2. l.word # "key" /\ l.word # "text" /\ FALSE \in BOOLEAN
    BY <2>1
  <2> QED BY <1>2, <1>6, <2>1, <2>2, YarnLineRead, Zenon
<1>7. ASSUME Yarn!Ignored(l) PROVE YarnInv'
  <2>1. /\ l.indent > 0 /\ inPackages' = inPackages
        /\ current' = current /\ resolutionPending' = resolutionPending
        /\ checksumPending' = checksumPending /\ entries' = entries /\ result' = result
    BY <1>7, Zenon DEF Yarn!Ignored, Yarn!state
  <2>2. l.indent # 0
    BY <1>1, <2>1
  <2> QED BY <1>2, <1>3, <2>1, <2>2, YarnLineRead, Zenon
<1>8. ASSUME NEW x \in Yarn!Place, current \in Yarn!Entry
      PROVE  /\ LET c == [current EXCEPT !.integrity = x]
                IN  /\ c \in Yarn!Entry
                    /\ c.line = current.line
                    /\ x \in {current.integrity, Yarn!here} =>
                         {c.version, c.integrity, c.resolved}
                         \subseteq {current.version, current.integrity, current.resolved, Yarn!here}
             /\ LET c == [current EXCEPT !.resolved = x]
                IN  /\ c \in Yarn!Entry
                    /\ c.line = current.line
                    /\ x \in {current.resolved, Yarn!here} =>
                         {c.version, c.integrity, c.resolved}
                         \subseteq {current.version, current.integrity, current.resolved, Yarn!here}
             /\ LET c == [current EXCEPT !.version = x]
                IN  /\ c \in Yarn!Entry
                    /\ c.line = current.line
                    /\ x \in {current.version, Yarn!here} =>
                         {c.version, c.integrity, c.resolved}
                         \subseteq {current.version, current.integrity, current.resolved, Yarn!here}
  <2> HIDE DEF Yarn!here, Yarn!Place
  <2> QED BY <1>8 DEF Yarn!Entry, Yarn!Entries
<1>9. \A o : Yarn!Given(l, o) \in {o, Yarn!here}
  BY Zenon DEF Yarn!Given
<1> DEFINE Ok == \/ current' = current
                 \/ /\ current # Nil /\ inPackages /\ current' \in Yarn!Entry
                    /\ current'.line = current.line
                    /\ {current'.version, current'.integrity, current'.resolved}
                         \subseteq {current.version, current.integrity, current.resolved,
                                    Yarn!here}
           Set == \/ current' = current
                  \/ current' = [current EXCEPT !.integrity = Yarn!Given(l, @)]
                  \/ current' = [current EXCEPT !.resolved = Yarn!Given(l, @)]
                  \/ current' = [current EXCEPT !.version = Yarn!Given(l, @)]
<1>10. ASSUME current # Nil, inPackages, Set PROVE Ok
  <2>1. /\ current \in Yarn!Entry /\ current.integrity \in Yarn!Place
        /\ current.resolved \in Yarn!Place /\ current.version \in Yarn!Place
    BY <1>2, <1>10 DEF Yarn!Entry, Yarn!Entries
  <2>2. /\ Yarn!Given(l, current.integrity) \in Yarn!Place
        /\ Yarn!Given(l, current.resolved) \in Yarn!Place
        /\ Yarn!Given(l, current.version) \in Yarn!Place
    BY <1>2, <1>9, <2>1, Zenon
  <2>3. \/ current' = current
        \/ current' = [current EXCEPT !.integrity = Yarn!Given(l, current.integrity)]
        \/ current' = [current EXCEPT !.resolved = Yarn!Given(l, current.resolved)]
        \/ current' = [current EXCEPT !.version = Yarn!Given(l, current.version)]
    BY <1>10
  <2>4. CASE current' = [current EXCEPT !.integrity = Yarn!Given(l, current.integrity)]
    <3> DEFINE x == Yarn!Given(l, current.integrity)
    <3>1. x \in Yarn!Place /\ x \in {current.integrity, Yarn!here} /\ current \in Yarn!Entry
      BY <1>9, <2>1, <2>2, Zenon
    <3>2. current' = [current EXCEPT !.integrity = x]
      BY <2>4, Zenon
    <3> HIDE DEF x
    <3> QED BY <1>8, <1>10, <3>1, <3>2, Zenon
  <2>5. CASE current' = [current EXCEPT !.resolved = Yarn!Given(l, current.resolved)]
    <3> DEFINE x == Yarn!Given(l, current.resolved)
    <3>1. x \in Yarn!Place /\ x \in {current.resolved, Yarn!here} /\ current \in Yarn!Entry
      BY <1>9, <2>1, <2>2, Zenon
    <3>2. current' = [current EXCEPT !.resolved = x]
      BY <2>5, Zenon
    <3> HIDE DEF x
    <3> QED BY <1>8, <1>10, <3>1, <3>2, Zenon
  <2>6. CASE current' = [current EXCEPT !.version = Yarn!Given(l, current.version)]
    <3> DEFINE x == Yarn!Given(l, current.version)
    <3>1. x \in Yarn!Place /\ x \in {current.version, Yarn!here} /\ current \in Yarn!Entry
      BY <1>9, <2>1, <2>2, Zenon
    <3>2. current' = [current EXCEPT !.version = x]
      BY <2>6, Zenon
    <3> HIDE DEF x
    <3> QED BY <1>8, <1>10, <3>1, <3>2, Zenon
  <2> QED BY <2>3, <2>4, <2>5, <2>6, Zenon
<1>11. ASSUME Yarn!Property(l) PROVE YarnInv'
  <2>1. /\ inPackages /\ l.indent = 2 /\ current # Nil
        /\ inPackages' = inPackages /\ entries' = entries /\ result' = result
    BY <1>11, Zenon DEF Yarn!Property
  <2>2. /\ Set
        /\ \/ resolutionPending' = ~l.val /\ checksumPending' = checksumPending
           \/ checksumPending' = ~l.val /\ resolutionPending' = resolutionPending
           \/ resolutionPending' = FALSE /\ checksumPending' = FALSE
           \/ resolutionPending' = resolutionPending /\ checksumPending' = checksumPending
    <3> DEFINE A == /\ current' = [current EXCEPT !.version = Yarn!Given(l, @)]
                    /\ UNCHANGED <<checksumPending, resolutionPending>>
               B == /\ current' = [current EXCEPT !.resolved = Yarn!Given(l, @)]
                    /\ resolutionPending' = ~l.val /\ UNCHANGED checksumPending
               C == /\ current' = [current EXCEPT !.integrity = Yarn!Given(l, @)]
                    /\ checksumPending' = ~l.val /\ UNCHANGED resolutionPending
               D == /\ checksumPending' = FALSE /\ resolutionPending' = FALSE
                    /\ UNCHANGED current
    <3>1. l.word \in {"version", "resolution", "checksum", "other"}
      BY <1>1, <2>1
    <3>2. (CASE l.word = "version" -> A [] l.word = "resolution" -> B
             [] l.word = "checksum" -> C [] l.word = "other" -> D)
      BY <1>11, Zenon DEF Yarn!Property
    <3> HIDE DEF A, B, C, D
    <3>3. A \/ B \/ C \/ D
      BY <3>1, <3>2
    <3>4. A \/ B \/ C \/ D <=>
            \/ /\ current' = [current EXCEPT !.version = Yarn!Given(l, @)]
               /\ checksumPending' = checksumPending /\ resolutionPending' = resolutionPending
            \/ /\ current' = [current EXCEPT !.resolved = Yarn!Given(l, @)]
               /\ resolutionPending' = ~l.val /\ checksumPending' = checksumPending
            \/ /\ current' = [current EXCEPT !.integrity = Yarn!Given(l, @)]
               /\ checksumPending' = ~l.val /\ resolutionPending' = resolutionPending
            \/ /\ checksumPending' = FALSE /\ resolutionPending' = FALSE
               /\ current' = current
      BY Zenon DEF A, B, C, D
    <3> QED BY <3>3, <3>4, Zenon
  <2> HIDE DEF Set
  <2>3. Ok
    BY <1>10, <2>1, <2>2, Zenon
  <2>4. resolutionPending' \in BOOLEAN /\ checksumPending' \in BOOLEAN
    BY <1>2, <2>2
  <2>5. l.word # "text" /\ l.word # "key" /\ l.word \notin YarnEnds
    BY <1>3, <2>1
  <2> QED BY <1>2, <2>1, <2>3, <2>4, <2>5, YarnLineRead, Zenon
<1>12. ASSUME Yarn!SubProperty(l) PROVE YarnInv'
  <2>1. /\ inPackages /\ l.indent = 4 /\ current # Nil
        /\ inPackages' = inPackages /\ entries' = entries /\ result' = result
    BY <1>12, Zenon DEF Yarn!SubProperty
  <2>2. /\ Set
        /\ resolutionPending' \in {resolutionPending, FALSE}
        /\ checksumPending' \in {checksumPending, FALSE}
    <3> DEFINE p == resolutionPending /\ l.word = "tarball"
               q == checksumPending /\ ~(resolutionPending /\ l.word = "tarball")
               A == /\ current' = [current EXCEPT !.resolved = Yarn!Given(l, @)]
                    /\ resolutionPending' = FALSE /\ UNCHANGED checksumPending
               B == /\ current' = [current EXCEPT !.integrity = Yarn!Given(l, @)]
                    /\ checksumPending' = FALSE /\ UNCHANGED resolutionPending
               C == UNCHANGED <<current, checksumPending, resolutionPending>>
    <3>1. (CASE p -> A [] q -> B [] OTHER -> C)
      BY <1>12, Zenon DEF Yarn!SubProperty
    <3>2. p => ~q
      OBVIOUS
    <3> HIDE DEF A, B, C, p, q
    <3>3. A \/ B \/ C
      BY <3>1, <3>2
    <3>4. A \/ B \/ C <=>
            \/ /\ current' = [current EXCEPT !.resolved = Yarn!Given(l, @)]
               /\ resolutionPending' = FALSE /\ checksumPending' = checksumPending
            \/ /\ current' = [current EXCEPT !.integrity = Yarn!Given(l, @)]
               /\ checksumPending' = FALSE /\ resolutionPending' = resolutionPending
            \/ /\ current' = current /\ checksumPending' = checksumPending
               /\ resolutionPending' = resolutionPending
      BY Zenon DEF A, B, C
    <3> QED BY <3>3, <3>4, Zenon
  <2> HIDE DEF Set
  <2>3. Ok
    BY <1>10, <2>1, <2>2, Zenon
  <2>4. resolutionPending' \in BOOLEAN /\ checksumPending' \in BOOLEAN
    BY <1>2, <2>2
  <2>5. l.word # "text" /\ l.word # "key" /\ l.word \notin YarnEnds
    BY <1>3, <2>1
  <2> QED BY <1>2, <2>1, <2>3, <2>4, <2>5, YarnLineRead, Zenon
<1> QED BY <1>4, <1>5, <1>6, <1>7, <1>11, <1>12, Zenon

\* A step after which no entry is being read.
LEMMA YarnListed ==
  ASSUME YarnInv, NEW K \in Seq(Yarn!Entry), entries' = K, current' = Nil,
         scope' = scope, file' \in Seq(Yarn!Line), Len(file') <= scope.lines,
         inPackages' \in BOOLEAN, checksumPending' \in BOOLEAN, resolutionPending' \in BOOLEAN,
         result' \in {"reading", "listed", "rejected"},
         result' = "listed" => Len(K) <= maxEntries,
         YarnEntries(file', K), Ordered(K),
         \A i \in YarnKeys(file') \ LinesOf(K) : TextIn(file', i)
  PROVE  YarnInv'
<1>1. Yarn!flushEntry' = K
  BY Zenon DEF Yarn!flushEntry
<1>2. Yarn!Entry' = Yarn!Entry
  BY Zenon DEF Yarn!Entry, Yarn!Place
<1>3. Yarn!TypeOK'
  <2>1. Yarn!TypeOK
    BY Zenon DEF YarnInv
  <2>2. entries' \in Seq(Yarn!Entry') /\ current' \in Yarn!Entry' \cup {Nil}
    BY <1>2, Zenon
  <2> QED BY <2>1, <2>2, Zenon DEF Yarn!TypeOK
<1> QED BY <1>1, <1>3, Zenon DEF YarnInv

\* A key keeps the invariant: what was read before it is listed, or was lost at a text.
LEMMA YarnKeyRead ==
  ASSUME YarnInv, NEW l \in Yarn!Line, Yarn!Read(l), Yarn!Key(l)
  PROVE  YarnInv'
<1> DEFINE L == Yarn!flushEntry
           K == IF inPackages THEN L ELSE entries
           e == Yarn!EntryFor(l.key)
<1>1. /\ result = "reading" /\ scope' = scope /\ file' = Append(file, l)
      /\ file' \in Seq(Yarn!Line) /\ Len(file') = Len(file) + 1 /\ Len(file') <= scope.lines
      /\ file'[Len(file')] = l
      /\ Yarn!Entry' = Yarn!Entry /\ Yarn!here = Len(file) + 1 /\ Yarn!here \in Yarn!Place
      /\ YarnKeys(file')
           = YarnKeys(file) \cup (IF l.word = "key" /\ ~Yarn!Skipped(l.key)
                                    THEN {Len(file) + 1} ELSE {})
      /\ YarnEntries(file', L) /\ Ordered(L)
      /\ \A i \in YarnKeys(file) \ LinesOf(L) : TextIn(file', i)
      /\ \A i \in 1..Len(L) : L[i].line \in 1..Len(file)
  BY YarnRead, Zenon
<1>2. /\ l.word = "key" /\ entries' = K
      /\ current' = (IF Yarn!Skipped(l.key) THEN Nil ELSE e)
      /\ inPackages' = TRUE
      /\ checksumPending' = (checksumPending /\ ~inPackages)
      /\ resolutionPending' = (resolutionPending /\ ~inPackages)
      /\ result' = result
  BY Zenon DEF Yarn!Key
<1>3. /\ L \in Seq(Yarn!Entry) /\ entries \in Seq(Yarn!Entry) /\ Nil \notin Yarn!Entry
      /\ file \in Seq(Yarn!Line) /\ Len(file) \in Nat /\ scope.lines \in Nat
  BY YarnTypes, Zenon DEF YarnInv
<1>4. /\ inPackages' \in BOOLEAN /\ checksumPending' \in BOOLEAN /\ resolutionPending' \in BOOLEAN
      /\ result' \in {"reading", "listed", "rejected"} /\ result' # "listed"
      /\ result' # "rejected"
  BY <1>1, <1>2
<1>5. /\ K \in Seq(Yarn!Entry) /\ YarnEntries(file', K) /\ Ordered(K)
      /\ \A i \in YarnKeys(file) \ LinesOf(K) : TextIn(file', i)
      /\ \A i \in 1..Len(K) : K[i].line \in 1..Len(file)
  <2>1. CASE K = L
    BY <1>1, <1>3, <2>1, Zenon
  <2>2. CASE K # L
    <3>1. K = entries /\ current # Nil /\ ~inPackages
      BY <2>2, Zenon DEF Yarn!flushEntry
    <3>2. /\ current \in Yarn!Entry /\ L = Append(entries, current)
          /\ \A i \in 1..Len(entries) : i \in 1..Len(L) /\ L[i] = entries[i]
          /\ TextIn(file', current.line)
      BY <3>1, YarnCurrent, Zenon
    <3>3. LinesOf(L) = LinesOf(entries) \cup {current.line}
      BY <1>3, <3>2, ListGrows, ZenonT(60)
    <3>4. YarnEntries(file', entries) /\ Ordered(entries)
          /\ \A i \in 1..Len(entries) : entries[i].line \in 1..Len(file)
      BY <1>1, <3>2, Zenon DEF YarnEntries, Ordered
    <3>5. ASSUME NEW i \in YarnKeys(file) \ LinesOf(entries) PROVE TextIn(file', i)
      <4>1. CASE i = current.line
        BY <3>2, <4>1, Zenon
      <4>2. CASE i # current.line
        <5>1. i \in YarnKeys(file) \ LinesOf(L)
          BY <3>3, <4>2, Zenon
        <5> QED BY <1>1, <5>1, Zenon
      <4> QED BY <4>1, <4>2
    <3> QED BY <1>3, <3>1, <3>4, <3>5, Zenon
  <2> QED BY <2>1, <2>2
<1> HIDE DEF K
<1>6. CASE Yarn!Skipped(l.key)
  <2>1. current' = Nil /\ YarnKeys(file') = YarnKeys(file)
    BY <1>1, <1>2, <1>6
  <2> QED BY <1>1, <1>2, <1>4, <1>5, <2>1, YarnListed, Zenon
<1>7. CASE ~Yarn!Skipped(l.key)
  <2>1. current' = e /\ YarnKeys(file') = YarnKeys(file) \cup {Len(file) + 1}
    BY <1>1, <1>2, <1>7
  <2>2. e.line = Len(file) + 1 /\ e.version = 0 /\ e.integrity = 0 /\ e.resolved = 0
    BY Zenon DEF Yarn!EntryFor
  <2>3. e \in Yarn!Entry
    <3>1. l.key \in Yarn!Keys
      BY <1>2, YarnLineIs, Zenon
    <3>2. SubSeq(l.key, 1, Yarn!LastAt(l.key, "@npm:") - 1) \in Seq(Yarn!Tokens)
      BY <3>1, YarnNameType, Zenon
    <3>3. 0 \in Yarn!Place /\ Len(file) + 1 \in Yarn!Place
      <4>1. 0 \in Yarn!Place
        BY <1>3 DEF Yarn!Place
      <4> QED BY <1>1, <4>1, Zenon
    <3> QED BY <3>2, <3>3, Zenon DEF Yarn!EntryFor, Yarn!Entry, Yarn!Entries
  <2> HIDE DEF e
  <2>4. e # Nil /\ Yarn!flushEntry' = Append(K, e)
    <3>1. e # Nil
      BY <1>3, <2>3, Zenon
    <3> QED BY <1>2, <2>1, <3>1, Zenon DEF Yarn!flushEntry
  <2>5. /\ LinesOf(Append(K, e)) = LinesOf(K) \cup {e.line} /\ Ordered(Append(K, e))
        /\ \A i \in 1..Len(Append(K, e)) :
              (i \in 1..Len(K) /\ Append(K, e)[i] = K[i])
                \/ (i = Len(K) + 1 /\ Append(K, e)[i] = e)
    <3>0. K \in Seq(Yarn!Entry) /\ e \in Yarn!Entry /\ Len(file) \in Nat
      BY <1>3, <1>5, <2>3, Zenon
    <3>1. /\ LinesOf(Append(K, e)) = LinesOf(K) \cup {e.line}
          /\ \A i \in 1..Len(Append(K, e)) :
              (i \in 1..Len(K) /\ Append(K, e)[i] = K[i])
                \/ (i = Len(K) + 1 /\ Append(K, e)[i] = e)
          /\ Ordered(K) /\ e.line = Len(file) + 1
             /\ (\A i \in 1..Len(K) : K[i].line \in 1..Len(file))
               => Ordered(Append(K, e))
      BY <3>0, ListGrows, ZenonT(60)
    <3> QED BY <1>5, <2>2, <3>1, Zenon
  <2>6. YarnEntry(file', e)
    <3>1. e.line \in 1..Len(file') /\ file'[e.line] = l
      BY <1>1, <1>3, <2>2
    <3>2. {e.version, e.integrity, e.resolved} \subseteq {0} \cup Own(file', YarnEnds, e.line)
      BY <2>2
    <3> QED BY <1>2, <1>7, <3>1, <3>2, Zenon DEF YarnEntry
  <2>7. YarnEntries(file', Append(K, e))
    BY <1>5, <2>5, <2>6, Zenon DEF YarnEntries
  <2>8. StillOpen(file', YarnEnds, e.line)
    <3>1. \A j : j \notin e.line + 1..Len(file')
      BY <1>1, <1>3, <2>2
    <3> QED BY <3>1, Zenon DEF StillOpen
  <2>9. \A i \in YarnKeys(file') \ LinesOf(Append(K, e)) : TextIn(file', i)
    <3>1. YarnKeys(file') \ LinesOf(Append(K, e)) \subseteq YarnKeys(file) \ LinesOf(K)
      BY <2>1, <2>2, <2>5
    <3> QED BY <1>5, <3>1, Zenon
  <2>10. Yarn!TypeOK'
    <3>1. Yarn!TypeOK
      BY Zenon DEF YarnInv
    <3>2. entries' \in Seq(Yarn!Entry') /\ current' \in Yarn!Entry' \cup {Nil}
      BY <1>1, <1>2, <1>5, <2>1, <2>3, Zenon
    <3> QED BY <1>1, <1>4, <3>1, <3>2, Zenon DEF Yarn!TypeOK
  <2> QED BY <1>2, <1>4, <2>1, <2>4, <2>5, <2>7, <2>8, <2>9, <2>10, Zenon DEF YarnInv
<1> QED BY <1>6, <1>7

\* Every step of yarn keeps it.
LEMMA YarnStep ==
  ASSUME YarnInv, Yarn!Next PROVE YarnInv'
<1> DEFINE L == Yarn!flushEntry
<1>1. /\ inPackages \in BOOLEAN /\ checksumPending \in BOOLEAN /\ resolutionPending \in BOOLEAN
      /\ L \in Seq(Yarn!Entry) /\ Len(L) \in Nat /\ maxEntries \in Nat
      /\ file \in Seq(Yarn!Line) /\ Len(file) <= scope.lines
  <2>1. Yarn!TypeOK
    BY Zenon DEF YarnInv
  <2>2. inPackages \in BOOLEAN /\ checksumPending \in BOOLEAN /\ resolutionPending \in BOOLEAN
    BY <2>1, Zenon DEF Yarn!TypeOK
  <2> QED BY <2>1, <2>2, YarnTypes, Zenon
<1>2. ASSUME NEW l \in Yarn!Line, Yarn!ReadLine(l) PROVE YarnInv'
  <2>1. Yarn!Read(l)
    BY <1>2, Zenon DEF Yarn!ReadLine
  <2>2. /\ result = "reading" /\ scope' = scope
        /\ file' \in Seq(Yarn!Line) /\ Len(file') <= scope.lines
        /\ Yarn!Entry' = Yarn!Entry
        /\ YarnKeys(file')
             = YarnKeys(file) \cup (IF l.word = "key" /\ ~Yarn!Skipped(l.key)
                                      THEN {Len(file) + 1} ELSE {})
        /\ YarnEntries(file', L) /\ Ordered(L)
        /\ \A i \in YarnKeys(file) \ LinesOf(L) : TextIn(file', i)
    BY <2>1, YarnRead, Zenon
  <2>3. CASE Yarn!Reject(l)
    <3>1. /\ result' = "rejected" /\ current' = current
          /\ inPackages' = inPackages /\ resolutionPending' = resolutionPending
          /\ checksumPending' = checksumPending /\ entries' = entries
      BY <2>3, Zenon DEF Yarn!Reject, Yarn!state
    <3>2. Yarn!flushEntry' = L
      BY <3>1, Zenon DEF Yarn!flushEntry
    <3>3. "rejected" # "listed" /\ "rejected" \in {"reading", "listed", "rejected"}
      OBVIOUS
    <3>4. Yarn!TypeOK'
      <4>1. Yarn!TypeOK
        BY Zenon DEF YarnInv
      <4> QED BY <2>2, <3>1, <3>3, <4>1, Zenon DEF Yarn!TypeOK
    <3>5. ~inPackages /\ current # Nil => TextIn(file', current.line)
      BY <2>1, YarnCurrent, Zenon
    <3> QED BY <2>2, <3>1, <3>2, <3>4, <3>5, Zenon DEF YarnInv
  <2>4. CASE Yarn!Metadata(l) /\ inPackages
    <3>1. /\ l.word = "__metadata" /\ entries' = L /\ current' = Nil /\ inPackages' = FALSE
          /\ checksumPending' = checksumPending /\ resolutionPending' = resolutionPending
          /\ result' = result
      BY <2>4, Zenon DEF Yarn!Metadata
    <3>2. YarnKeys(file') = YarnKeys(file)
      BY <2>2, <3>1
    <3>3. result' \in {"reading", "listed", "rejected"} /\ result' # "listed" /\ FALSE \in BOOLEAN
      BY <2>2, <3>1
    <3> QED BY <1>1, <2>2, <3>1, <3>2, <3>3, YarnListed, Zenon
  <2> QED BY <1>2, <2>1, <2>3, <2>4, YarnKeyRead, YarnLineOf, Zenon DEF Yarn!ReadLine
<1>3. ASSUME Yarn!EndOfFile PROVE YarnInv'
  <2>1. /\ result = "reading" /\ entries' = L /\ current' = Nil
        /\ result' = (IF Len(L) > maxEntries THEN "rejected" ELSE "listed")
        /\ scope' = scope /\ file' = file /\ inPackages' = inPackages
        /\ checksumPending' = checksumPending /\ resolutionPending' = resolutionPending
    BY <1>3, Zenon DEF Yarn!EndOfFile
  <2>2. result' \in {"reading", "listed", "rejected"}
        /\ (result' = "listed" => Len(L) <= maxEntries)
    <3> HIDE DEF L
    <3> QED BY <1>1, <2>1
  <2>3. /\ YarnEntries(file, L) /\ Ordered(L)
        /\ \A i \in YarnKeys(file) \ LinesOf(L) : TextIn(file, i)
    <3>1. result # "rejected"
      BY <2>1
    <3> QED BY <3>1, Zenon DEF YarnInv
  <2> QED BY <1>1, <2>1, <2>2, <2>3, YarnListed, Zenon
<1> QED BY <1>2, <1>3, Zenon DEF Yarn!Next

\* What the properties of the parser of yarn say, from its invariant.
LEMMA YarnShown ==
  ASSUME YarnInv
  PROVE  Yarn!TypeOK /\ Yarn!FieldsAreOwn /\ Yarn!LostOnlyAtText
<1> DEFINE L == Yarn!flushEntry
<1>1. /\ file \in Seq(Yarn!Line) /\ Len(file) \in Nat /\ DOMAIN file = 1..Len(file)
      /\ L \in Seq(Yarn!Entry) /\ entries \in Seq(Yarn!Entry)
      /\ current # Nil => current \in Yarn!Entry
  BY YarnTypes, Zenon DEF YarnInv
<1>2. DOMAIN L = 1..Len(L) /\ DOMAIN entries = 1..Len(entries)
  BY <1>1, LenProperties, Zenon
<1>3. YarnEntries(file, L) /\ Ordered(L)
  BY Zenon DEF YarnInv
<1>4. \A i \in 1..Len(entries) : i \in 1..Len(L) /\ L[i] = entries[i]
  <2>1. CASE current = Nil
    BY <2>1, Zenon DEF Yarn!flushEntry
  <2>2. CASE current # Nil
    <3>1. L = Append(entries, current) /\ current \in Yarn!Entry
      BY <1>1, <2>2, Zenon DEF Yarn!flushEntry
    <3> HIDE DEF L
    <3> QED BY <1>1, <3>1, AppendIs
  <2> QED BY <2>1, <2>2
<1>5. ASSUME NEW i \in Nat PROVE Yarn!Block(i) = Own(file, YarnEnds, i)
  <2> DEFINE E == {j \in i+1..Len(file) : file[j].word \in YarnEnds}
  <2>1. i+1 .. Min(E \cup {Len(file) + 1}) - 1 = Own(file, YarnEnds, i)
    BY <1>1, BlockIs, Zenon
  <2>2. \A S : Yarn!Min(S) = Min(S)
    BY Zenon DEF Yarn!Min, Min
  <2>3. Yarn!Block(i) = i+1 .. Yarn!Min(E \cup {Len(file) + 1}) - 1
    BY Zenon DEF Yarn!Block, YarnEnds
  <2> QED BY <2>1, <2>2, <2>3, Zenon
<1>6. Yarn!PackageLines = YarnKeys(file) /\ YarnKeys(file) \subseteq Nat
  <2>1. YarnKeys(file) \subseteq 1..Len(file)
    BY Zenon DEF YarnKeys
  <2>2. YarnKeys(file) \subseteq Nat
    BY <1>1, <2>1
  <2> QED BY <1>1, <2>2, Zenon DEF Yarn!PackageLines, Yarn!KeyLines, YarnKeys
<1>7. Yarn!FieldsAreOwn
  <2> SUFFICES ASSUME NEW e \in Yarn!Range(L)
               PROVE  {e.version, e.integrity, e.resolved} \subseteq {0} \cup Yarn!Block(e.line)
    BY Zenon DEF Yarn!FieldsAreOwn
  <2>1. PICK i \in DOMAIN L : e = L[i]
    BY Zenon DEF Yarn!Range
  <2>2. YarnEntry(file, e)
    BY <1>2, <1>3, <2>1, Zenon DEF YarnEntries
  <2>3. e.line \in Nat
    BY <1>1, <2>2 DEF YarnEntry
  <2> QED BY <1>5, <2>2, <2>3, Zenon DEF YarnEntry
<1>8. \A i \in DOMAIN entries : entries[i].line \in YarnKeys(file)
  BY <1>2, <1>3, <1>4, Zenon DEF YarnEntries, YarnEntry, YarnKeys
<1>9. Yarn!InOrder
  <2>1. ASSUME NEW i \in 1..Len(entries), NEW j \in 1..Len(entries), i < j
        PROVE  entries[i].line < entries[j].line
    <3>1. i \in 1..Len(L) /\ j \in 1..Len(L) /\ L[i] = entries[i] /\ L[j] = entries[j]
      BY <1>4, Zenon
    <3>2. L[i].line < L[j].line
      BY <1>3, <2>1, <3>1, Zenon DEF Ordered
    <3> QED BY <3>1, <3>2, Zenon
  <2> QED BY <1>2, <2>1, Zenon DEF Yarn!InOrder
<1>10. ASSUME result = "listed", NEW i \in YarnKeys(file) \ {e.line : e \in Yarn!Range(entries)}
       PROVE  \E j \in Yarn!Block(i) : file[j].word = "text"
  <2>1. L = entries /\ result # "rejected"
    <3>1. current = Nil
      BY <1>10, Zenon DEF YarnInv, Yarn!TypeOK
    <3> QED BY <1>10, <3>1 DEF Yarn!flushEntry
  <2>2. {e.line : e \in Yarn!Range(entries)} = LinesOf(entries)
    BY <1>2, Zenon DEF Yarn!Range, LinesOf
  <2>3. TextIn(file, i)
    BY <2>1, <2>2, Zenon DEF YarnInv
  <2> QED BY <1>5, <1>6, <2>3, Zenon DEF TextIn
<1>11. Yarn!LostOnlyAtText
  BY <1>6, <1>8, <1>9, <1>10, Zenon DEF Yarn!LostOnlyAtText
<1> QED BY <1>7, <1>11, Zenon DEF YarnInv

-----------------------------------------------------------------------------
(* bun: the name and the version in a key. *)

\* Where a key is cut, and what that gives.
LEMMA BunCutIs ==
  ASSUME NEW T, NEW s \in Seq(T)
  PROVE  /\ Bun!bunName(s) \in Seq(T) /\ Bun!bunVersion(s) \in Seq(T)
         /\ Bun!bunName(s) = <<>> <=> s = <<>>
         /\ ~(Bun!LastAt(s, "@") > 1) => Bun!bunName(s) = s /\ Bun!bunVersion(s) = <<>>
<1> DEFINE at == Bun!LastAt(s, "@")
           cut == Bun!bunSplitAt(s)
<1>1. at \in 0..Len(s) /\ Len(s) \in Nat /\ (s = <<>> => Len(s) = 0) /\ (Len(s) = 0 => s = <<>>)
  <2>1. at \in 0..Len(s)
    BY LastInIs, ZenonT(60)
  <2> HIDE DEF at
  <2> QED BY <2>1
<1>2. cut = IF s # <<>> /\ at > 1 THEN at ELSE Len(s) + 1
  BY Zenon DEF Bun!bunSplitAt
<1>3. Bun!bunName(s) = SubSeq(s, 1, cut - 1) /\ Bun!bunVersion(s) = SubSeq(s, cut + 1, Len(s))
  BY Zenon DEF Bun!bunName, Bun!bunVersion
<1> HIDE DEF at, cut
<1>4. cut \in 1..Len(s) + 1 /\ (cut = 1 => Len(s) = 0)
  BY <1>1, <1>2
<1>5. /\ SubSeq(s, 1, cut - 1) \in Seq(T) /\ Len(SubSeq(s, 1, cut - 1)) = cut - 1
      /\ SubSeq(s, cut + 1, Len(s)) \in Seq(T)
  BY <1>1, <1>4
<1>6. SubSeq(s, 1, cut - 1) = <<>> <=> s = <<>>
  <2> DEFINE u == SubSeq(s, 1, cut - 1)
  <2>1. u \in Seq(T) /\ Len(u) = cut - 1
    BY <1>5
  <2> HIDE DEF u
  <2>2. (u = <<>> => Len(u) = 0) /\ (Len(u) = 0 => u = <<>>)
    <3>1. \A w \in Seq(T) : (w = <<>> => Len(w) = 0) /\ (Len(w) = 0 => w = <<>>)
      OBVIOUS
    <3> QED BY <2>1, <3>1, Zenon
  <2>3. u = <<>> <=> s = <<>>
    BY <1>1, <1>2, <1>4, <2>1, <2>2
  <2> QED BY <2>3 DEF u
<1>7. ~(at > 1) => SubSeq(s, 1, cut - 1) = s /\ SubSeq(s, cut + 1, Len(s)) = <<>>
  <2> SUFFICES ASSUME ~(at > 1)
               PROVE  SubSeq(s, 1, cut - 1) = s /\ SubSeq(s, cut + 1, Len(s)) = <<>>
    OBVIOUS
  <2>1. cut - 1 = Len(s) /\ cut + 1 = Len(s) + 2
    BY <1>1, <1>2
  <2>2. SubSeq(s, 1, Len(s)) = s
    BY SubSeqFull, Zenon
  <2>3. SubSeq(s, Len(s) + 2, Len(s)) = <<>>
    BY <1>1
  <2> QED BY <2>1, <2>2, <2>3, Zenon
<1> QED BY <1>3, <1>5, <1>6, <1>7, Zenon DEF at

\* A name of the registry with a version is cut before it, one without is not.
LEMMA BunVersioned ==
  ASSUME NEW T, NEW m \in Seq(T), "@" \in T, "v" \in T, m # <<>>
  PROVE  LET s == m \o <<"@", "v">>
         IN  s \in Seq(T) /\ s # <<>> /\ Bun!bunName(s) = m /\ Bun!bunVersion(s) = <<"v">>
             /\ "v" \in Bun!Range(s)
<1> DEFINE s == m \o <<"@", "v">>
<1>1. /\ s \in Seq(T) /\ Len(s) = Len(m) + 2 /\ Len(m) \in Nat
      /\ LastIn(s, "@") = Len(m) + 1
      /\ \A i \in 1..Len(m) : s[i] = m[i]
      /\ SubSeq(s, Len(m) + 2, Len(s)) = <<"v">>
  <2>1. ASSUME NEW a \in T, NEW v \in T, v # a
        PROVE  LET u == m \o <<a, v>>
               IN  /\ u \in Seq(T) /\ Len(u) = Len(m) + 2 /\ Len(m) \in Nat
                   /\ LastIn(u, a) = Len(m) + 1
                   /\ \A i \in 1..Len(m) : u[i] = m[i]
                   /\ SubSeq(u, Len(m) + 2, Len(u)) = <<v>>
    BY <2>1, CutAtLast
  <2>2. "@" # "v"
    OBVIOUS
  <2> QED BY <2>1, <2>2, Zenon
<1>2. Bun!LastAt(s, "@") = Len(m) + 1
  BY <1>1, LastInIs, ZenonT(60)
<1>3. Len(m) > 0
  BY <1>1
<1>4. s # <<>> /\ Len(m) + 1 > 1
  <2> HIDE DEF s
  <2> QED BY <1>1, <1>3
<1>5. Bun!bunSplitAt(s) = Len(m) + 1
  BY <1>2, <1>4, Zenon DEF Bun!bunSplitAt
<1>6. Len(m) + 1 - 1 = Len(m) /\ Len(m) + 1 + 1 = Len(m) + 2
  BY <1>1
<1>7. Bun!bunVersion(s) = <<"v">>
  BY <1>1, <1>5, <1>6, Zenon DEF Bun!bunVersion
<1>8. SubSeq(s, 1, Len(m)) = m
  <2> DEFINE u == SubSeq(s, 1, Len(m))
  <2> HIDE DEF s
  <2>1. u \in Seq(T) /\ Len(u) = Len(m) /\ \A i \in 1..Len(m) : u[i] = m[i]
    BY <1>1
  <2> HIDE DEF u
  <2>2. u = m
    BY <2>1, SeqEqual
  <2> QED BY <2>2 DEF u
<1>9. Bun!bunName(s) = m
  <2>1. Bun!bunName(s) = SubSeq(s, 1, Bun!bunSplitAt(s) - 1)
    BY Zenon DEF Bun!bunName
  <2> HIDE DEF s
  <2> QED BY <1>5, <1>6, <1>8, <2>1
<1>10. "v" \in Bun!Range(s)
  <2> DEFINE u == SubSeq(s, Len(m) + 2, Len(s))
             n == Len(s)
  <2> HIDE DEF s
  <2>1. n \in DOMAIN s /\ Len(u) = 1 /\ u[1] = s[n]
    BY <1>1
  <2>2. u[1] = "v"
    <3>1. \A w : w = <<"v">> => w[1] = "v"
      OBVIOUS
    <3> QED BY <1>1, <3>1, Zenon DEF u
  <2> QED BY <2>1, <2>2, Zenon DEF Bun!Range
<1> HIDE DEF s
<1> QED BY <1>1, <1>4, <1>7, <1>9, <1>10, Zenon DEF s

\* The names in the keys.
BunScoped == <<"@", "s", "/", "n">>

\* The two names of the keys, scoped and not.
LEMMA BunNamesAre ==
  /\ <<"n">> \in Seq(Bun!Tokens) /\ BunScoped \in Seq(Bun!Tokens)
  /\ <<"n">> # <<>> /\ BunScoped # <<>>
  /\ ~(Bun!LastAt(<<"n">>, "@") > 1) /\ ~(Bun!LastAt(BunScoped, "@") > 1)
  /\ "v" \notin Bun!Range(<<"n">>) /\ "v" \notin Bun!Range(BunScoped)
  /\ Bun!SanitizePackageName(<<"n">>) /\ Bun!SanitizePackageName(BunScoped)
  /\ "@" \notin Bun!Range(Tail(<<"n">>)) /\ "@" \notin Bun!Range(Tail(BunScoped))
<1>0. "n" \in Bun!Tokens /\ "@" \in Bun!Tokens /\ "s" \in Bun!Tokens /\ "/" \in Bun!Tokens
  BY DEF Bun!Tokens
<1>1. ASSUME NEW s, s = <<"n">>
      PROVE  /\ s \in Seq(Bun!Tokens) /\ s # <<>> /\ Len(s) = 1 /\ s[1] = "n"
             /\ DOMAIN s = {1} /\ DOMAIN Tail(s) = {}
  BY <1>0, <1>1
<1>2. ASSUME NEW s, s = <<"@", "s", "/", "n">>
      PROVE  /\ s \in Seq(Bun!Tokens) /\ s # <<>> /\ Len(s) = 4
             /\ s[1] = "@" /\ s[2] = "s" /\ s[3] = "/" /\ s[4] = "n"
             /\ DOMAIN s = {1, 2, 3, 4} /\ DOMAIN Tail(s) = {1, 2, 3}
             /\ Tail(s)[1] = "s" /\ Tail(s)[2] = "/" /\ Tail(s)[3] = "n"
  <2>1. /\ s \in Seq(Bun!Tokens) /\ s # <<>> /\ Len(s) = 4
        /\ s[1] = "@" /\ s[2] = "s" /\ s[3] = "/" /\ s[4] = "n"
    BY <1>0, <1>2
  <2>2. Tail(s) \in Seq(Bun!Tokens) /\ Len(Tail(s)) = 3 /\ \A i \in 1..3 : Tail(s)[i] = s[i + 1]
    <3> DEFINE T == Bun!Tokens
    <3>1. s \in Seq(T) /\ s # <<>> /\ Len(s) = 4
      BY <2>1, Zenon
    <3> HIDE DEF T
    <3>2. Tail(s) \in Seq(T) /\ Len(Tail(s)) = 3 /\ \A i \in 1..3 : Tail(s)[i] = s[i + 1]
      BY <3>1
    <3> QED BY <3>2, Zenon DEF T
  <2>3. DOMAIN s = 1..4 /\ DOMAIN Tail(s) = 1..3
    <3>1. \A w \in Seq(Bun!Tokens) : DOMAIN w = 1..Len(w)
      BY LenProperties, Zenon
    <3> QED BY <2>1, <2>2, <3>1, Zenon
  <2>4. 1..4 = {1, 2, 3, 4} /\ 1..3 = {1, 2, 3}
    OBVIOUS
  <2>5. Tail(s)[1] = s[2] /\ Tail(s)[2] = s[3] /\ Tail(s)[3] = s[4]
    BY <2>2
  <2> QED BY <2>1, <2>3, <2>4, <2>5, Zenon
<1> DEFINE Ok(s) == /\ s \in Seq(Bun!Tokens) /\ s # <<>> /\ ~(Bun!LastAt(s, "@") > 1)
                    /\ "v" \notin Bun!Range(s) /\ Bun!SanitizePackageName(s)
                    /\ "@" \notin Bun!Range(Tail(s))
<1>3. ASSUME NEW s, s = <<"n">> PROVE Ok(s)
  <2>1. /\ s \in Seq(Bun!Tokens) /\ s # <<>> /\ Len(s) = 1 /\ s[1] = "n"
        /\ DOMAIN s = {1} /\ DOMAIN Tail(s) = {}
    BY <1>1, <1>3
  <2>2. Bun!LastAt(s, "@") \in 0..Len(s)
    BY <2>1, LastInIs, ZenonT(60)
  <2>3. ~(Bun!LastAt(s, "@") > 1)
    BY <2>1, <2>2
  <2>4. "v" \notin Bun!Range(s) /\ "@" \notin Bun!Range(Tail(s))
    BY <2>1 DEF Bun!Range
  <2>5. Bun!SanitizePackageName(s)
    BY <2>1 DEF Bun!SanitizePackageName
  <2> QED BY <2>1, <2>3, <2>4, <2>5, Zenon
<1>4. ASSUME NEW s, s = <<"@", "s", "/", "n">> PROVE Ok(s)
  <2>1. /\ s \in Seq(Bun!Tokens) /\ s # <<>> /\ Len(s) = 4
        /\ s[1] = "@" /\ s[2] = "s" /\ s[3] = "/" /\ s[4] = "n"
        /\ DOMAIN s = {1, 2, 3, 4} /\ DOMAIN Tail(s) = {1, 2, 3}
        /\ Tail(s)[1] = "s" /\ Tail(s)[2] = "/" /\ Tail(s)[3] = "n"
    BY <1>2, <1>4
  <2>2. Bun!LastAt(s, "@") \in 0..Len(s)
        /\ (Bun!LastAt(s, "@") # 0 => s[Bun!LastAt(s, "@")] = "@")
    <3>1. Bun!LastAt(s, "@") = LastIn(s, "@")
      BY <2>1, LastInIs, ZenonT(60)
    <3>2. LastIn(s, "@") \in 0..Len(s) /\ (LastIn(s, "@") # 0 => s[LastIn(s, "@")] = "@")
      BY <2>1, LastInIs, ZenonT(60)
    <3> QED BY <3>1, <3>2, Zenon
  <2> DEFINE at == Bun!LastAt(s, "@")
  <2>3. ~(at > 1)
    <3>1. at \in 0..4 /\ (at # 0 => s[at] = "@")
      BY <2>1, <2>2, Zenon
    <3> HIDE DEF at
    <3>2. at = 0 \/ at = 1 \/ at = 2 \/ at = 3 \/ at = 4
      BY <3>1
    <3> QED BY <2>1, <3>1, <3>2
  <2>4. "v" \notin Bun!Range(s)
    BY <2>1 DEF Bun!Range
  <2>5. "@" \notin Bun!Range(Tail(s))
    <3>1. \A i \in DOMAIN Tail(s) : Tail(s)[i] # "@"
      BY <2>1
    <3> QED BY <3>1, Zenon DEF Bun!Range
  <2>6. Bun!SanitizePackageName(s)
    <3>1. \A i \in DOMAIN s : s[i] = "/" => i = 3
      BY <2>1
    <3>2. 3 - 1 = 2 /\ 3 + 1 = 4 /\ "s" # "/"
      OBVIOUS
    <3>3. s[3 - 1] # "/" /\ 3 - 1 \in DOMAIN s /\ 3 + 1 \in DOMAIN s
      BY <2>1, <3>2
    <3> QED BY <2>1, <3>1, <3>3, Zenon DEF Bun!SanitizePackageName
  <2> QED BY <2>1, <2>3, <2>4, <2>5, <2>6, Zenon
<1>5. Ok(<<"n">>) /\ Ok(BunScoped)
  <2>1. \A s : s = <<"n">> => Ok(s)
    BY <1>3
  <2>2. \A s : s = BunScoped => Ok(s)
    BY <1>4 DEF BunScoped
  <2> HIDE DEF Ok
  <2> QED BY <2>1, <2>2
<1> QED BY <1>5

\* A key that names a package of the registry is taken for what it is.
LEMMA BunKeyIs ==
  ASSUME NEW k \in Bun!PackageKeys
  PROVE  /\ k.tokens \in Seq(Bun!Tokens) /\ k.tokens # <<>>
         /\ Bun!bunName(k.tokens) = k.name /\ k.name # <<>>
         /\ ~Bun!KeyRejected(k.tokens) /\ Bun!SanitizePackageName(Bun!bunName(k.tokens))
         /\ Bun!bunVersion(k.tokens) \in {<<>>, <<"v">>}
         /\ Bun!bunVersion(k.tokens) # <<>> <=> "v" \in Bun!Range(k.tokens)
<1> DEFINE N == {<<"n">>, BunScoped}
<1> DEFINE V == {<<"@", "v">>, <<>>}
<1>0. Bun!PackageKeys = {[tokens |-> n \o v, name |-> n] : n \in N, v \in V}
  BY DEF Bun!PackageKeys, BunScoped
<1> HIDE DEF V, N
<1>1. PICK n \in N, v \in V : k = [tokens |-> n \o v, name |-> n]
  BY <1>0
<1> USE DEF V, N
<1>2. /\ n \in Seq(Bun!Tokens) /\ n # <<>> /\ ~(Bun!LastAt(n, "@") > 1)
      /\ "v" \notin Bun!Range(n) /\ Bun!SanitizePackageName(n) /\ "@" \notin Bun!Range(Tail(n))
  BY BunNamesAre, Zenon
<1>3. k.tokens = n \o v /\ k.name = n
  BY <1>1, Zenon
<1> HIDE DEF N
<1>4. CASE v = <<>>
  <2>1. n \o <<>> = n
    BY <1>2
  <2>2. k.tokens = n
    BY <1>3, <1>4, <2>1, Zenon
  <2>3. Bun!bunName(n) = n /\ Bun!bunVersion(n) = <<>>
    BY <1>2, BunCutIs, Zenon
  <2>4. ~Bun!KeyRejected(n)
    BY <1>2, Zenon DEF Bun!KeyRejected
  <2> QED BY <1>2, <1>3, <2>2, <2>3, <2>4, Zenon
<1>5. CASE v = <<"@", "v">>
  <2>1. k.tokens = n \o <<"@", "v">>
    BY <1>3, <1>5, Zenon
  <2>2. "@" \in Bun!Tokens /\ "v" \in Bun!Tokens
    BY DEF Bun!Tokens
  <2>3. /\ k.tokens \in Seq(Bun!Tokens) /\ k.tokens # <<>> /\ Bun!bunName(k.tokens) = n
        /\ Bun!bunVersion(k.tokens) = <<"v">> /\ "v" \in Bun!Range(k.tokens)
    BY <1>2, <2>1, <2>2, BunVersioned, Zenon
  <2>4. ~Bun!KeyRejected(k.tokens)
    BY <1>2, <2>3, Zenon DEF Bun!KeyRejected
  <2>5. <<"v">> # <<>>
    OBVIOUS
  <2> QED BY <1>2, <1>3, <2>3, <2>4, <2>5, Zenon
<1> QED BY <1>1, <1>4, <1>5, Zenon

\* The tokens of every key are tokens.
LEMMA BunTokens ==
  ASSUME NEW k \in Bun!AllKeys PROVE k.tokens \in Seq(Bun!Tokens)
<1>0. /\ "n" \in Bun!Tokens /\ "@" \in Bun!Tokens /\ "/" \in Bun!Tokens /\ "v" \in Bun!Tokens
      /\ "git:" \in Bun!Tokens /\ "git" \in Bun!Tokens
  BY DEF Bun!Tokens
<1>1. \A T : <<>> \in Seq(T)
  OBVIOUS
<1>2. CASE k \in Bun!PackageKeys
  BY <1>2, BunKeyIs, Zenon
<1>3. CASE k = Bun!GitKey
  <2>1. k.tokens = <<"n", "@", "git:", "/", "/", "git", "@", "v">>
    BY <1>3, Zenon DEF Bun!GitKey
  <2> DEFINE T == Bun!Tokens
             a == "/"
             b == "n"
             c == "@"
             d == "v"
             e == "git:"
             f == "git"
  <2>2. a \in T /\ b \in T /\ c \in T /\ d \in T /\ e \in T /\ f \in T
    BY <1>0, Zenon
  <2>3. k.tokens = <<b, c, e, a, a, f, c, d>>
    BY <2>1, Zenon
  <2> HIDE DEF T, a, b, c, d, e, f
  <2>4. k.tokens \in Seq(T)
    BY <2>2, <2>3
  <2> QED BY <2>4, Zenon DEF T
<1>4. CASE k \in Bun!OtherKeys
  <2>1. k.tokens = <<>> \/ k.tokens = <<"/", "n", "@", "v">>
    BY <1>4 DEF Bun!OtherKeys
  <2>2. CASE k.tokens = <<>>
    BY <1>1, <2>2, Zenon
  <2>3. CASE k.tokens = <<"/", "n", "@", "v">>
    <3> DEFINE T == Bun!Tokens
               a == "/"
               b == "n"
               c == "@"
               d == "v"
    <3>1. a \in T /\ b \in T /\ c \in T /\ d \in T
      BY <1>0, Zenon
    <3>2. k.tokens = <<a, b, c, d>>
      BY <2>3, Zenon
    <3> HIDE DEF T, a, b, c, d
    <3>3. k.tokens \in Seq(T)
      BY <3>1, <3>2
    <3> QED BY <3>3, Zenon DEF T
  <2> QED BY <2>1, <2>2, <2>3, Zenon
<1> QED BY <1>2, <1>3, <1>4, Zenon DEF Bun!AllKeys

-----------------------------------------------------------------------------
(* bun: the list is what is read. *)

\* The lines that end the block of a package.
BunEnds == {"key", "text"}

\* The packages of the file.
BunKeys(fl) ==
  {i \in 1..Len(fl) : /\ fl[i].word \in {"key", "entry"} /\ fl[i].key.tokens # <<>>
                      /\ fl[i].word = "entry" => fl[i].readable}

\* What is listed for a line is the package there.
BunEntry(fl, e) ==
  /\ e.line \in BunKeys(fl)
  /\ e.name = Bun!bunName(fl[e.line].key.tokens)
  /\ e.keyVersion = Bun!bunVersion(fl[e.line].key.tokens)
  /\ Bun!SanitizePackageName(e.name) \/ e.keyVersion = <<>>

BunEntries(fl, es) == \A i \in 1..Len(es) : BunEntry(fl, es[i])

\* The last line of a block that gives a property a value.
BunLast(fl, i, word) ==
  Max({0} \cup {j \in Own(fl, BunEnds, i) :
                  fl[j].indent = 2 /\ fl[j].word = word /\ fl[j].val})

\* What is said of an entry of the text is what its block states last.
BunSaid(fl, e) ==
  /\ e.version = BunLast(fl, e.line, "version")
  /\ e.resolved = BunLast(fl, e.line, "resolution")
  /\ e.integrity = BunLast(fl, e.line, "integrity")

\* Of the text: what was listed is over, and the entry that is read is not.
BunText ==
  /\ result # "rejected" =>
       \A i \in 1..Len(Bun!flushEntry) : BunSaid(file, Bun!flushEntry[i])
  /\ result = "reading" =>
       \A i \in 1..Len(entries) : ~StillOpen(file, BunEnds, entries[i].line)
  /\ result # "rejected" /\ current # Nil => StillOpen(file, BunEnds, current.line)

\* Of the JSON: what is said of a package stands in its entry.
BunJson ==
  /\ current = Nil
  /\ \A i \in 1..Len(entries) :
       {entries[i].resolved, entries[i].integrity} \subseteq {0, entries[i].line}
  /\ result # "rejected" => Len(entries) <= maxEntries

\* A line for which a file is refused names no package of the registry.
BunRefused(fl) ==
  fl # <<>> /\ fl[Len(fl)].word \in {"key", "entry"} => fl[Len(fl)].key \notin Bun!PackageKeys

\* The inductive invariant of bun.
BunInv ==
  /\ Bun!TypeOK
  /\ scope.format = "bytes" => entries = <<>> /\ current = Nil /\ result = "reading"
  /\ scope.format # "bytes" =>
       /\ BunEntries(file, Bun!flushEntry) /\ Ordered(Bun!flushEntry)
       /\ result # "rejected" => LinesOf(Bun!flushEntry) = BunKeys(file)
       /\ result = "rejected" /\ Len(entries) <= maxEntries => BunRefused(file)
  /\ scope.format = "text" => BunText
  /\ scope.format = "json" => BunJson

\* What is known of a line by its indent and its word, and of an entry.
LEMMA BunLineIs ==
  ASSUME NEW l \in Bun!Line
  PROVE  /\ scope.format = "text" =>
              /\ l.indent \in {0, 1, 2, 4}
              /\ l.indent = 0 <=> l.word \in {"blank", "text", "long", "key"}
              /\ l.indent = 2 => /\ l.word \in {"version", "resolution", "integrity", "other"}
                                 /\ l.val \in BOOLEAN
                                 /\ l.word = "other" => ~l.val
              /\ l.word = "key" => l.key \in scope.keys
              /\ l.word # "entry"
         /\ scope.format = "json" =>
              /\ l.word = "entry" /\ l.key \in scope.keys
              /\ l.readable \in BOOLEAN /\ l.resolved \in BOOLEAN /\ l.integrity \in BOOLEAN
<1>1. ASSUME scope.format = "text"
      PROVE  /\ l.indent \in {0, 1, 2, 4}
             /\ l.indent = 0 <=> l.word \in {"blank", "text", "long", "key"}
             /\ l.indent = 2 => /\ l.word \in {"version", "resolution", "integrity", "other"}
                                /\ l.val \in BOOLEAN
                                /\ l.word = "other" => ~l.val
             /\ l.word = "key" => l.key \in scope.keys
             /\ l.word # "entry"
  <2>1. l \in Bun!TextLine
    <3> DEFINE A == Bun!TextLine
               B == Bun!JsonEntry
               C == Bun!Bytes
    <3>1. l \in (CASE scope.format = "text" -> A [] scope.format = "json" -> B
                   [] scope.format = "bytes" -> C)
      BY Zenon DEF Bun!Line
    <3> HIDE DEF A, B, C
    <3>2. l \in A
      BY <1>1, <3>1
    <3> QED BY <3>2, Zenon DEF A
  <2>2. CASE l \in [indent : {0}, word : {"blank", "text", "long"}, val : {FALSE}]
    BY <2>2
  <2>3. CASE l \in [indent : {0}, word : {"key"}, key : scope.keys]
    BY <2>3
  <2>4. CASE l \in [indent : {1}, word : {"other"}, val : {FALSE}]
    BY <2>4
  <2>5. CASE l \in [indent : {2}, word : {"version", "resolution", "integrity"}, val : BOOLEAN]
    BY <2>5
  <2>6. CASE l \in [indent : {2, 4}, word : {"other"}, val : {FALSE}]
    <3>1. l.indent \in {2, 4} /\ l.word = "other" /\ l.val = FALSE
      BY <2>6
    <3>2. l.indent \in {2, 4} /\ l.word = "other" /\ l.val \in BOOLEAN /\ ~l.val
      BY <3>1, Zenon
    <3> QED BY <3>2
  <2> QED BY <2>1, <2>2, <2>3, <2>4, <2>5, <2>6, Zenon DEF Bun!TextLine
<1>2. ASSUME scope.format = "json"
      PROVE  /\ l.word = "entry" /\ l.key \in scope.keys
             /\ l.readable \in BOOLEAN /\ l.resolved \in BOOLEAN /\ l.integrity \in BOOLEAN
  <2>1. l \in Bun!JsonEntry
    <3> DEFINE A == Bun!TextLine
               B == Bun!JsonEntry
               C == Bun!Bytes
    <3>1. l \in (CASE scope.format = "text" -> A [] scope.format = "json" -> B
                   [] scope.format = "bytes" -> C)
      BY Zenon DEF Bun!Line
    <3> HIDE DEF A, B, C
    <3>2. l \in B
      BY <1>2, <3>1
    <3> QED BY <3>2, Zenon DEF B
  <2> QED BY <2>1, Zenon DEF Bun!JsonEntry
<1> QED BY <1>1, <1>2, Zenon

\* The types of what is read of bun, and that no entry is Nil.
LEMMA BunTypes ==
  ASSUME Bun!TypeOK
  PROVE  /\ scope \in BunScopes /\ scope.lines \in Nat /\ maxEntries \in Nat
         /\ scope.format \in {"text", "json", "bytes"} /\ scope.keys \subseteq Bun!AllKeys
         /\ file \in Seq(Bun!Line) /\ Len(file) \in Nat /\ Len(file) <= scope.lines
         /\ DOMAIN file = 1..Len(file)
         /\ Nil \notin Bun!Entry
         /\ entries \in Seq(Bun!Entry) /\ Len(entries) \in Nat
         /\ current # Nil => current \in Bun!Entry
         /\ Bun!flushEntry \in Seq(Bun!Entry) /\ Len(Bun!flushEntry) \in Nat
<1>1. /\ scope \in BunScopes /\ file \in Seq(Bun!Line) /\ Len(file) <= scope.lines
      /\ entries \in Seq(Bun!Entry) /\ current \in Bun!Entry \cup {Nil}
  BY Zenon DEF Bun!TypeOK
<1>2. /\ scope.lines \in Nat /\ maxEntries \in Nat /\ Nil \notin Bun!Entries(Nat)
      /\ scope.format \in {"text", "json", "bytes"} /\ scope.keys \subseteq Bun!AllKeys
  <2>1. /\ BunScopes \subseteq [format : {"text", "json", "bytes"}, lines : Nat,
                                keys : SUBSET Bun!AllKeys]
        /\ maxEntries \in Nat /\ Nil \notin Bun!Entries(Nat)
    BY ParsersAssumption, Zenon DEF ParsersAssumption, Bun!ParserAssumption
  <2> QED BY <1>1, <2>1
<1>3. Nil \notin Bun!Entry
  <2>1. Bun!Place \subseteq Nat
    BY <1>2 DEF Bun!Place
  <2>2. Bun!Entry \subseteq Bun!Entries(Nat)
    BY <2>1 DEF Bun!Entry, Bun!Entries
  <2> QED BY <1>2, <2>2
<1>4. Bun!flushEntry \in Seq(Bun!Entry)
  <2>1. CASE current = Nil
    BY <1>1, <2>1, Zenon DEF Bun!flushEntry
  <2>2. CASE current # Nil
    <3>1. current \in Bun!Entry
      BY <1>1, <2>2
    <3>2. Append(entries, current) \in Seq(Bun!Entry)
      BY <1>1, <3>1, AppendIs, Zenon
    <3> QED BY <2>2, <3>2, Zenon DEF Bun!flushEntry
  <2> QED BY <2>1, <2>2
<1> QED BY <1>1, <1>2, <1>3, <1>4, LenProperties

\* bun begins in its invariant.
LEMMA BunInit ==
  ASSUME Bun!Init PROVE BunInv
<1>1. file = <<>> /\ entries = <<>> /\ current = Nil /\ Bun!flushEntry = <<>>
      /\ result = "reading" /\ scope \in BunScopes
  BY Zenon DEF Bun!Init, Bun!flushEntry
<1>2. scope.lines \in Nat
  <2>1. BunScopes \subseteq [format : {"text", "json", "bytes"}, lines : Nat,
                             keys : SUBSET Bun!AllKeys]
    BY ParsersAssumption, Zenon DEF ParsersAssumption, Bun!ParserAssumption
  <2> QED BY <1>1, <2>1
<1>3. Len(<<>>) = 0 /\ \A S : <<>> \in Seq(S)
  OBVIOUS
<1>4. "reading" # "listed" /\ "reading" # "rejected"
      /\ "reading" \in {"reading", "listed", "rejected"}
  OBVIOUS
<1>5. Bun!TypeOK
  <2>1. Len(file) <= scope.lines
    BY <1>1, <1>2, <1>3
  <2> QED BY <1>1, <1>3, <1>4, <2>1, Zenon DEF Bun!TypeOK
<1>6. LinesOf(<<>>) = {} /\ Ordered(<<>>) /\ BunKeys(<<>>) = {} /\ BunEntries(<<>>, <<>>)
  BY DEF LinesOf, Ordered, BunKeys, BunEntries
<1>7. \A i : i \notin 1..Len(<<>>)
  OBVIOUS
<1>8. BunText /\ BunJson
  <2>1. Len(entries) <= maxEntries
    BY <1>1, <1>3, ParsersAssumption DEF ParsersAssumption, Bun!ParserAssumption
  <2> QED BY <1>1, <1>7, <2>1, Zenon DEF BunText, BunJson
<1> QED BY <1>1, <1>4, <1>5, <1>6, <1>8, Zenon DEF BunInv

\* A block grows by the line that is read, if that ends no block and none did.
BlockGrows(fl, l, ends, i) ==
  /\ StillOpen(Append(fl, l), ends, i) <=> StillOpen(fl, ends, i) /\ l.word \notin ends
  /\ Own(Append(fl, l), ends, i)
       = Own(fl, ends, i) \cup (IF StillOpen(fl, ends, i) /\ l.word \notin ends
                                  THEN {Len(fl) + 1} ELSE {})

\* It does so for every line of every file.
LEMMA OwnIs ==
  ASSUME NEW S, NEW fl \in Seq(S), NEW l \in S, NEW ends, NEW i \in Nat, i <= Len(fl)
  PROVE  BlockGrows(fl, l, ends, i)
<1> DEFINE g == Append(fl, l)
           n == Len(fl)
<1>1. /\ n \in Nat /\ Len(g) = n + 1 /\ \A k \in 1..n : g[k] = fl[k]
      /\ g[n + 1] = l
  BY AppendIs
<1> HIDE DEF g
<1>2. /\ i+1..n \subseteq 1..n /\ i+1..n \subseteq i+1..Len(g) /\ n + 1 \in i+1..Len(g)
      /\ n + 1 \in i+1..n + 1 /\ i+1..n \subseteq i+1..n + 1
      /\ \A j \in i+1..Len(g) : j \in i+1..n \/ j = n + 1
      /\ \A f \in i+1..n : \A j \in i+1..f : j \in 1..n
      /\ \A j \in i+1..n + 1 : j \in i+1..n \/ j = n + 1
  BY <1>1
<1> HIDE DEF n
<1>3. StillOpen(g, ends, i) <=> StillOpen(fl, ends, i) /\ l.word \notin ends
  BY <1>1, <1>2, Zenon DEF StillOpen, n
<1>4. ASSUME NEW f \in i+1..n PROVE f \in Own(g, ends, i) <=> f \in Own(fl, ends, i)
  <2>1. f \in i+1..Len(g) /\ f \in i+1..Len(fl)
    BY <1>2, Zenon DEF n
  <2>2. \A j \in i+1..f : g[j] = fl[j]
    BY <1>1, <1>2, Zenon
  <2> QED BY <2>1, <2>2, Zenon DEF Own
<1>5. n + 1 \in Own(g, ends, i) <=> StillOpen(fl, ends, i) /\ l.word \notin ends
  <2>1. n + 1 \in Own(g, ends, i) <=> \A j \in i+1..n + 1 : g[j].word \notin ends
    BY <1>2, Zenon DEF Own
  <2>2. StillOpen(g, ends, i) <=> \A j \in i+1..n + 1 : g[j].word \notin ends
    BY <1>1, Zenon DEF StillOpen
  <2> QED BY <1>3, <2>1, <2>2
<1>6. Own(g, ends, i) \subseteq i+1..Len(g) /\ Own(fl, ends, i) \subseteq i+1..n
  BY Zenon DEF Own, n
<1>7. Own(g, ends, i) = Own(fl, ends, i) \cup (IF StillOpen(fl, ends, i) /\ l.word \notin ends
                                                 THEN {n + 1} ELSE {})
  <2>1. ASSUME NEW f, f \in Own(g, ends, i)
        PROVE  f \in Own(fl, ends, i) \cup (IF StillOpen(fl, ends, i) /\ l.word \notin ends
                                              THEN {n + 1} ELSE {})
    BY <1>2, <1>4, <1>5, <1>6, <2>1
  <2>2. ASSUME NEW f, f \in Own(fl, ends, i) \cup (IF StillOpen(fl, ends, i) /\ l.word \notin ends
                                                     THEN {n + 1} ELSE {})
        PROVE  f \in Own(g, ends, i)
    BY <1>2, <1>4, <1>5, <1>6, <2>2
  <2> QED BY <2>1, <2>2, Zenon
<1> QED BY <1>3, <1>7, Zenon DEF BlockGrows, g, n

\* What a block states last, with one more line.
LEMMA BunLastGrows ==
  ASSUME NEW S, NEW fl \in Seq(S), NEW l \in S, NEW i \in Nat, i <= Len(fl), NEW w
  PROVE  /\ StillOpen(Append(fl, l), BunEnds, i)
              <=> StillOpen(fl, BunEnds, i) /\ l.word \notin BunEnds
         /\ BunLast(Append(fl, l), i, w)
              = IF /\ StillOpen(fl, BunEnds, i) /\ l.word \notin BunEnds
                   /\ l.indent = 2 /\ l.word = w /\ l.val
                  THEN Len(fl) + 1 ELSE BunLast(fl, i, w)
<1> DEFINE g == Append(fl, l)
           n == Len(fl)
           says(x) == x.indent = 2 /\ x.word = w /\ x.val
           A == {j \in Own(fl, BunEnds, i) : says(fl[j])}
           B == {j \in Own(g, BunEnds, i) : says(g[j])}
           open == StillOpen(fl, BunEnds, i) /\ l.word \notin BunEnds
<1>1. /\ n \in Nat /\ \A k \in 1..n : g[k] = fl[k]
      /\ g[n + 1] = l
  BY AppendIs
<1>2. /\ StillOpen(g, BunEnds, i) <=> open
      /\ Own(g, BunEnds, i) = Own(fl, BunEnds, i) \cup (IF open THEN {n + 1} ELSE {})
  <2>1. /\ StillOpen(Append(fl, l), BunEnds, i)
              <=> StillOpen(fl, BunEnds, i) /\ l.word \notin BunEnds
        /\ Own(Append(fl, l), BunEnds, i)
              = Own(fl, BunEnds, i) \cup (IF StillOpen(fl, BunEnds, i) /\ l.word \notin BunEnds
                                            THEN {Len(fl) + 1} ELSE {})
    <3> HIDE DEF g, n, says, A, B, open
    <3> QED BY OwnIs DEF BlockGrows
  <2> QED BY <2>1
<1>3. BunLast(g, i, w) = Max({0} \cup B) /\ BunLast(fl, i, w) = Max({0} \cup A)
  BY Zenon DEF BunLast
<1>4. Own(fl, BunEnds, i) \subseteq i+1..n
  BY Zenon DEF Own
<1> HIDE DEF g, says, open, n
<1>5. \A j \in Own(fl, BunEnds, i) : g[j] = fl[j] /\ j # n + 1 /\ j \in 1..n
  BY <1>1, <1>4
<1>6. ASSUME open, says(l) PROVE Max({0} \cup B) = n + 1
  <2>1. B = A \cup {n + 1}
    <3>1. ASSUME NEW j, j \in B PROVE j \in A \cup {n + 1}
      BY <1>2, <1>5, <3>1
    <3>2. ASSUME NEW j, j \in A \cup {n + 1} PROVE j \in B
      BY <1>1, <1>2, <1>5, <1>6, <3>2
    <3> QED BY <3>1, <3>2, Zenon
  <2>2. A \subseteq 1..n
    BY <1>5, Zenon
  <2> HIDE DEF A, B
  <2> DEFINE T == {0} \cup B
  <2>3. T \in SUBSET (0..n + 1) /\ T # {} /\ n + 1 \in T
    BY <1>1, <2>1, <2>2
  <2> HIDE DEF T
  <2>4. Max(T) \in T /\ \A k \in T : Max(T) >= k
    <3>1. n + 1 \in Nat
      BY <1>1
    <3> QED BY <2>3, <3>1, GreatestNatural, Zenon
  <2> DEFINE m == Max(T)
  <2> HIDE DEF m
  <2>5. m \in T /\ \A k \in T : m >= k
    BY <2>4 DEF m
  <2>6. m = n + 1
    BY <1>1, <2>3, <2>5
  <2> QED BY <2>6, Zenon DEF m, T
<1>7. ASSUME ~(open /\ says(l)) PROVE B = A
  <2>1. ASSUME NEW j, j \in B PROVE j \in A
    BY <1>1, <1>2, <1>5, <1>7, <2>1
  <2>2. ASSUME NEW j, j \in A PROVE j \in B
    BY <1>2, <1>5, <2>2
  <2> QED BY <2>1, <2>2, Zenon
<1>8. BunLast(g, i, w) = IF open /\ says(l) THEN n + 1 ELSE BunLast(fl, i, w)
  <2>1. CASE open /\ says(l)
    BY <1>3, <1>6, <2>1, Zenon
  <2>2. CASE ~(open /\ says(l))
    BY <1>3, <1>7, <2>2, Zenon
  <2> QED BY <2>1, <2>2
<1> QED BY <1>2, <1>8, Zenon DEF g, says, open, n

\* What is listed stays true when a line is read.
LEMMA BunEntryGrows ==
  ASSUME NEW S, NEW fl \in Seq(S), NEW l \in S
  PROVE  /\ \A e : BunEntry(fl, e) => BunEntry(Append(fl, l), e)
         /\ BunKeys(Append(fl, l))
              = BunKeys(fl) \cup (IF /\ l.word \in {"key", "entry"} /\ l.key.tokens # <<>>
                                     /\ l.word = "entry" => l.readable
                                    THEN {Len(fl) + 1} ELSE {})
<1> DEFINE g == Append(fl, l)
           n == Len(fl)
           names(x) == /\ x.word \in {"key", "entry"} /\ x.key.tokens # <<>>
                       /\ x.word = "entry" => x.readable
<1>1. /\ n \in Nat /\ Len(g) = n + 1 /\ \A k \in 1..n : g[k] = fl[k]
      /\ g[n + 1] = l
  BY AppendIs
<1>2. BunKeys(g) = {i \in 1..Len(g) : names(g[i])} /\ BunKeys(fl) = {i \in 1..n : names(fl[i])}
  BY Zenon DEF BunKeys
<1> HIDE DEF g, n, names
<1>3. 1..Len(g) = 1..n \cup {n + 1} /\ n + 1 \notin 1..n
  BY <1>1
<1>4. BunKeys(g) = BunKeys(fl) \cup (IF names(l) THEN {n + 1} ELSE {})
  <2>1. ASSUME NEW i, i \in BunKeys(g)
        PROVE  i \in BunKeys(fl) \cup (IF names(l) THEN {n + 1} ELSE {})
    BY <1>1, <1>2, <1>3, <2>1
  <2>2. ASSUME NEW i, i \in BunKeys(fl) \cup (IF names(l) THEN {n + 1} ELSE {})
        PROVE  i \in BunKeys(g)
    BY <1>1, <1>2, <1>3, <2>2
  <2> QED BY <2>1, <2>2, Zenon
<1>5. ASSUME NEW e, BunEntry(fl, e) PROVE BunEntry(g, e)
  <2>1. e.line \in BunKeys(fl)
    BY <1>5, Zenon DEF BunEntry
  <2>2. e.line \in BunKeys(g) /\ g[e.line] = fl[e.line]
    BY <1>1, <1>2, <1>4, <2>1
  <2> QED BY <1>5, <2>2, Zenon DEF BunEntry
<1> QED BY <1>4, <1>5, Zenon DEF g, n, names

\* What holds of the file with one more line before the line is looked at.
LEMMA BunRead ==
  ASSUME BunInv, NEW l \in Bun!Line, Bun!Read(l)
  PROVE  /\ result = "reading" /\ scope' = scope /\ file' = Append(file, l)
         /\ file' \in Seq(Bun!Line) /\ Len(file') = Len(file) + 1 /\ Len(file') <= scope.lines
         /\ file'[Len(file')] = l
         /\ Bun!Line' = Bun!Line /\ Bun!Entry' = Bun!Entry
         /\ Bun!here = Len(file) + 1 /\ Bun!here \in Bun!Place /\ 0 \in Bun!Place
         /\ scope.format # "bytes" =>
              /\ BunKeys(file')
                   = BunKeys(file) \cup (IF /\ l.word \in {"key", "entry"} /\ l.key.tokens # <<>>
                                            /\ l.word = "entry" => l.readable
                                           THEN {Len(file) + 1} ELSE {})
              /\ BunEntries(file', Bun!flushEntry)
              /\ Ordered(Bun!flushEntry)
              /\ LinesOf(Bun!flushEntry) = BunKeys(file)
              /\ \A i \in 1..Len(Bun!flushEntry) : Bun!flushEntry[i].line \in 1..Len(file)
<1>1. /\ file \in Seq(Bun!Line) /\ Len(file) \in Nat /\ scope.lines \in Nat
  BY BunTypes, Zenon DEF BunInv
<1>2. /\ result = "reading" /\ scope' = scope /\ file' = Append(file, l)
      /\ Len(file) < scope.lines
  BY Zenon DEF Bun!Read
<1>3. /\ file' \in Seq(Bun!Line) /\ Len(file') = Len(file) + 1
      /\ file'[Len(file')] = l
  <2>1. /\ Append(file, l) \in Seq(Bun!Line) /\ Len(Append(file, l)) = Len(file) + 1
        /\ Append(file, l)[Len(file) + 1] = l
    <3> DEFINE S == Bun!Line
    <3>1. file \in Seq(S) /\ l \in S
      BY <1>1, Zenon
    <3> HIDE DEF S
    <3>2. Append(file, l) \in Seq(S) /\ Len(Append(file, l)) = Len(file) + 1
          /\ Append(file, l)[Len(file) + 1] = l
      BY <3>1, AppendIs
    <3> QED BY <3>2, Zenon DEF S
  <2> QED BY <1>2, <2>1, Zenon
<1>4. Len(file') <= scope.lines /\ Bun!here \in Bun!Place /\ Bun!here = Len(file) + 1
      /\ 0 \in Bun!Place
  BY <1>1, <1>2, <1>3 DEF Bun!here, Bun!Place
<1>5. Bun!Entry' = Bun!Entry /\ Bun!Line' = Bun!Line
  <2>1. Bun!Entry' = Bun!Entry
    BY <1>2, Zenon DEF Bun!Entry, Bun!Place
  <2>2. Bun!TextLine' = Bun!TextLine /\ Bun!JsonEntry' = Bun!JsonEntry
    BY <1>2, Zenon DEF Bun!TextLine, Bun!JsonEntry
  <2>3. Bun!Line' = Bun!Line
    BY <1>2, <2>2, Zenon DEF Bun!Line
  <2> QED BY <2>1, <2>3
<1>6. ASSUME scope.format # "bytes"
      PROVE  /\ BunKeys(file')
                  = BunKeys(file) \cup (IF /\ l.word \in {"key", "entry"} /\ l.key.tokens # <<>>
                                           /\ l.word = "entry" => l.readable
                                          THEN {Len(file) + 1} ELSE {})
             /\ BunEntries(file', Bun!flushEntry)
             /\ Ordered(Bun!flushEntry)
             /\ LinesOf(Bun!flushEntry) = BunKeys(file)
             /\ \A i \in 1..Len(Bun!flushEntry) : Bun!flushEntry[i].line \in 1..Len(file)
  <2>1. /\ \A e : BunEntry(file, e) => BunEntry(file', e)
        /\ BunKeys(file')
             = BunKeys(file) \cup (IF /\ l.word \in {"key", "entry"} /\ l.key.tokens # <<>>
                                      /\ l.word = "entry" => l.readable
                                     THEN {Len(file) + 1} ELSE {})
    BY <1>1, <1>2, BunEntryGrows, Zenon
  <2>2. /\ BunEntries(file, Bun!flushEntry) /\ Ordered(Bun!flushEntry)
        /\ LinesOf(Bun!flushEntry) = BunKeys(file)
    <3>1. result # "rejected"
      BY <1>2
    <3> QED BY <1>6, <3>1, Zenon DEF BunInv
  <2>3. \A i \in 1..Len(Bun!flushEntry) : Bun!flushEntry[i].line \in 1..Len(file)
    BY <2>2, Zenon DEF BunEntries, BunEntry, BunKeys
  <2>4. BunEntries(file', Bun!flushEntry)
    BY <2>1, <2>2, Zenon DEF BunEntries
  <2> QED BY <2>1, <2>2, <2>3, <2>4, Zenon
<1> QED BY <1>2, <1>3, <1>4, <1>5, <1>6, Zenon

\* What is known of the text and the entry that is being read in it.
LEMMA BunTextRead ==
  ASSUME BunInv, NEW l \in Bun!Line, Bun!Read(l), scope.format = "text"
  PROVE  /\ \A i \in 1..Len(entries) :
              /\ i \in 1..Len(Bun!flushEntry) /\ Bun!flushEntry[i] = entries[i]
              /\ ~StillOpen(file', BunEnds, entries[i].line)
              /\ BunSaid(file', entries[i])
         /\ current # Nil =>
              /\ current \in Bun!Entry /\ Bun!flushEntry = Append(entries, current)
              /\ BunEntry(file', current)
              /\ current.line \in Nat /\ current.line <= Len(file)
              /\ StillOpen(file, BunEnds, current.line)
              /\ BunSaid(file, current)
         /\ l.word \in BunEnds =>
              \A i \in 1..Len(Bun!flushEntry) :
                /\ ~StillOpen(file', BunEnds, Bun!flushEntry[i].line)
                /\ BunSaid(file', Bun!flushEntry[i])
<1> DEFINE L == Bun!flushEntry
<1>1. /\ file \in Seq(Bun!Line) /\ Len(file) \in Nat /\ entries \in Seq(Bun!Entry)
      /\ Len(entries) \in Nat
      /\ current # Nil => current \in Bun!Entry
  BY BunTypes, Zenon DEF BunInv
<1>2. /\ result = "reading" /\ file' = Append(file, l)
      /\ BunEntries(file', L)
      /\ \A i \in 1..Len(L) : L[i].line \in 1..Len(file)
  <2>1. scope.format # "bytes"
    OBVIOUS
  <2> QED BY <2>1, BunRead, Zenon
<1>3. /\ \A i \in 1..Len(L) : BunSaid(file, L[i])
      /\ \A i \in 1..Len(entries) : ~StillOpen(file, BunEnds, entries[i].line)
      /\ current # Nil => StillOpen(file, BunEnds, current.line)
  <2>1. result # "rejected"
    BY <1>2
  <2> QED BY <1>2, <2>1, Zenon DEF BunInv, BunText
<1>4. current # Nil => L = Append(entries, current)
  BY Zenon DEF Bun!flushEntry
<1>5. current = Nil => L = entries
  BY Zenon DEF Bun!flushEntry
<1> HIDE DEF L
<1>6. /\ \A i \in 1..Len(entries) : i \in 1..Len(L) /\ L[i] = entries[i]
      /\ current # Nil => Len(entries) + 1 \in 1..Len(L) /\ L[Len(entries) + 1] = current
  <2>1. CASE current = Nil
    BY <1>5, <2>1
  <2>2. CASE current # Nil
    BY <1>1, <1>4, <2>2, AppendIs
  <2> QED BY <2>1, <2>2
<1>7. ASSUME NEW i \in 1..Len(L), l.word \in BunEnds \/ ~StillOpen(file, BunEnds, L[i].line)
      PROVE  ~StillOpen(file', BunEnds, L[i].line) /\ BunSaid(file', L[i])
  <2>1. L[i].line \in Nat /\ L[i].line <= Len(file)
    BY <1>1, <1>2
  <2>2. \A w : BunLast(file', L[i].line, w) = BunLast(file, L[i].line, w)
    <3> SUFFICES ASSUME NEW w PROVE BunLast(file', L[i].line, w) = BunLast(file, L[i].line, w)
      OBVIOUS
    <3>1. BunLast(Append(file, l), L[i].line, w)
              = IF /\ StillOpen(file, BunEnds, L[i].line) /\ l.word \notin BunEnds
                   /\ l.indent = 2 /\ l.word = w /\ l.val
                  THEN Len(file) + 1 ELSE BunLast(file, L[i].line, w)
      BY <1>1, <2>1, BunLastGrows
    <3> QED BY <1>2, <1>7, <3>1, Zenon
  <2>3. ~StillOpen(file', BunEnds, L[i].line)
    BY <1>1, <1>2, <1>7, <2>1, BunLastGrows, Zenon
  <2> QED BY <1>3, <2>2, <2>3, Zenon DEF BunSaid
<1>8. \A i \in 1..Len(entries) :
              /\ i \in 1..Len(L) /\ L[i] = entries[i]
              /\ ~StillOpen(file', BunEnds, entries[i].line)
              /\ BunSaid(file', entries[i])
  BY <1>3, <1>6, <1>7, Zenon
<1>9. ASSUME current # Nil
      PROVE  /\ current \in Bun!Entry /\ L = Append(entries, current)
             /\ BunEntry(file', current)
             /\ current.line \in Nat /\ current.line <= Len(file)
             /\ StillOpen(file, BunEnds, current.line)
             /\ BunSaid(file, current)
  <2>1. current.line \in 1..Len(file) /\ BunSaid(file, current) /\ BunEntry(file', current)
    BY <1>2, <1>3, <1>6, <1>9, Zenon DEF BunEntries
  <2>2. current.line \in Nat /\ current.line <= Len(file)
    BY <1>1, <2>1
  <2> QED BY <1>1, <1>3, <1>4, <1>9, <2>1, <2>2, Zenon
<1> QED BY <1>7, <1>8, <1>9, Zenon DEF L

\* A step after which no entry is being read.
LEMMA BunListed ==
  ASSUME BunInv, NEW K \in Seq(Bun!Entry), entries' = K, current' = Nil,
         scope' = scope, file' \in Seq(Bun!Line), Len(file') <= scope.lines,
         result' \in {"reading", "listed", "rejected"}, scope.format # "bytes",
         result' = "listed" => Len(K) <= maxEntries,
         BunEntries(file', K), Ordered(K),
         result' # "rejected" => LinesOf(K) = BunKeys(file'),
         result' = "rejected" /\ Len(K) <= maxEntries => BunRefused(file'),
         scope.format = "text" =>
           /\ result' # "rejected" => \A i \in 1..Len(K) : BunSaid(file', K[i])
           /\ result' = "reading" => \A i \in 1..Len(K) : ~StillOpen(file', BunEnds, K[i].line),
         scope.format = "json" =>
           /\ \A i \in 1..Len(K) : {K[i].resolved, K[i].integrity} \subseteq {0, K[i].line}
           /\ result' # "rejected" => Len(K) <= maxEntries
  PROVE  BunInv'
<1>1. Bun!flushEntry' = K
  BY Zenon DEF Bun!flushEntry
<1>2. Bun!Entry' = Bun!Entry /\ Bun!Line' = Bun!Line
  <2>1. Bun!Entry' = Bun!Entry
    BY Zenon DEF Bun!Entry, Bun!Place
  <2>2. Bun!TextLine' = Bun!TextLine /\ Bun!JsonEntry' = Bun!JsonEntry
    BY Zenon DEF Bun!TextLine, Bun!JsonEntry
  <2>3. Bun!Line' = Bun!Line
    BY <2>2, Zenon DEF Bun!Line
  <2> QED BY <2>1, <2>3
<1>3. Bun!TypeOK'
  <2>1. scope' \in BunScopes
    BY Zenon DEF BunInv, Bun!TypeOK
  <2>2. entries' \in Seq(Bun!Entry') /\ current' \in Bun!Entry' \cup {Nil}
        /\ file' \in Seq(Bun!Line')
    BY <1>2, Zenon
  <2> QED BY <2>1, <2>2, Zenon DEF Bun!TypeOK
<1>4. scope.format = "text" => BunText'
  BY <1>1, Zenon DEF BunText
<1>5. scope.format = "json" => BunJson'
  BY Zenon DEF BunJson
<1> QED BY <1>1, <1>3, <1>4, <1>5, Zenon DEF BunInv

\* A line of the text that begins no entry and ends none.
LEMMA BunLineRead ==
  ASSUME BunInv, NEW l \in Bun!Line, Bun!Read(l), scope.format = "text",
         entries' = entries, result' = result,
         l.word \notin BunEnds, l.word # "entry",
         \/ current' = current /\ ~(current # Nil /\ l.indent = 2 /\ l.val)
         \/ /\ current # Nil /\ current' \in Bun!Entry /\ l.indent = 2 /\ l.val
            /\ current'.line = current.line /\ current'.name = current.name
            /\ current'.keyVersion = current.keyVersion
            /\ current'.version = IF l.word = "version" THEN Bun!here ELSE current.version
            /\ current'.resolved = IF l.word = "resolution" THEN Bun!here ELSE current.resolved
            /\ current'.integrity = IF l.word = "integrity" THEN Bun!here ELSE current.integrity
  PROVE  BunInv'
<1> DEFINE L == Bun!flushEntry
<1>1. /\ result = "reading" /\ scope' = scope /\ file' = Append(file, l)
      /\ file' \in Seq(Bun!Line) /\ Len(file') = Len(file) + 1 /\ Len(file') <= scope.lines
      /\ file'[Len(file')] = l
      /\ Bun!Line' = Bun!Line /\ Bun!Entry' = Bun!Entry
      /\ Bun!here = Len(file) + 1
      /\ BunKeys(file')
           = BunKeys(file) \cup (IF /\ l.word \in {"key", "entry"} /\ l.key.tokens # <<>>
                                    /\ l.word = "entry" => l.readable
                                   THEN {Len(file) + 1} ELSE {})
      /\ BunEntries(file', L) /\ Ordered(L) /\ LinesOf(L) = BunKeys(file)
  <2>1. scope.format # "bytes"
    OBVIOUS
  <2> QED BY <2>1, BunRead, Zenon
<1>2. /\ file \in Seq(Bun!Line) /\ Len(file) \in Nat /\ Nil \notin Bun!Entry
      /\ entries \in Seq(Bun!Entry) /\ scope \in BunScopes
      /\ current # Nil => current \in Bun!Entry
  BY BunTypes, Zenon DEF BunInv
<1>3. BunKeys(file') = BunKeys(file)
  <2>1. l.word \notin {"key", "entry"}
    BY DEF BunEnds
  <2> QED BY <1>1, <2>1
<1>4. /\ \A i \in 1..Len(entries) :
           /\ i \in 1..Len(L) /\ L[i] = entries[i]
           /\ ~StillOpen(file', BunEnds, entries[i].line)
           /\ BunSaid(file', entries[i])
      /\ current # Nil =>
           /\ current \in Bun!Entry /\ L = Append(entries, current)
           /\ BunEntry(file', current)
           /\ current.line \in Nat /\ current.line <= Len(file)
           /\ StillOpen(file, BunEnds, current.line)
           /\ BunSaid(file, current)
  BY BunTextRead, Zenon
<1>5. Bun!TypeOK'
  <2>1. current' \in Bun!Entry \cup {Nil}
    BY <1>2
  <2>2. Len(file') <= scope'.lines /\ scope' \in BunScopes /\ file' \in Seq(Bun!Line')
    BY <1>1, <1>2, Zenon
  <2>3. result' = "reading" /\ "reading" # "listed"
        /\ "reading" \in {"reading", "listed", "rejected"}
    BY <1>1
  <2>4. entries' \in Seq(Bun!Entry') /\ current' \in Bun!Entry' \cup {Nil}
    BY <1>1, <1>2, <2>1, Zenon
  <2> QED BY <2>2, <2>3, <2>4, Zenon DEF Bun!TypeOK
<1>6. scope'.format = "text" /\ scope'.format # "bytes" /\ scope'.format # "json"
      /\ result' = "reading" /\ result' # "rejected"
  BY <1>1
<1>7. CASE current = Nil
  <2>1. current' = Nil /\ L = entries /\ Bun!flushEntry' = entries
    BY <1>7, Zenon DEF Bun!flushEntry
  <2>2. BunText'
    BY <1>4, <2>1, Zenon DEF BunText
  <2> QED BY <1>1, <1>3, <1>5, <1>6, <2>1, <2>2, Zenon DEF BunInv
<1>8. CASE current # Nil
  <2>1. /\ current' \in Bun!Entry /\ current' # Nil
        /\ current'.line = current.line /\ current'.name = current.name
        /\ current'.keyVersion = current.keyVersion
    <3>1. current' \in Bun!Entry => current' # Nil
      BY <1>2, Zenon
    <3>2. current' \in Bun!Entry
      BY <1>2, <1>8, Zenon
    <3> QED BY <3>1, <3>2, Zenon
  <2> DEFINE M == Append(entries, current')
  <2>2. LinesOf(M) = LinesOf(L) /\ Ordered(M)
    <3>1. L = Append(entries, current) /\ M = Append(entries, current') /\ current \in Bun!Entry
      BY <1>4, <1>8, Zenon
    <3>2. Ordered(L)
      BY <1>1, Zenon
    <3> HIDE DEF L, M
    <3> QED BY <1>2, <2>1, <3>1, <3>2, ListChanges
  <2>3. BunEntry(file', current')
    BY <1>4, <1>8, <2>1, Zenon DEF BunEntry
  <2>4. /\ StillOpen(file', BunEnds, current.line)
        /\ \A w : BunLast(file', current.line, w)
                    = IF l.indent = 2 /\ l.word = w /\ l.val
                        THEN Len(file) + 1 ELSE BunLast(file, current.line, w)
    <3>1. current.line \in Nat /\ current.line <= Len(file)
          /\ StillOpen(file, BunEnds, current.line)
      BY <1>4, <1>8, Zenon
    <3>2. /\ StillOpen(Append(file, l), BunEnds, current.line)
              <=> StillOpen(file, BunEnds, current.line) /\ l.word \notin BunEnds
          /\ \A w : BunLast(Append(file, l), current.line, w)
              = IF /\ StillOpen(file, BunEnds, current.line) /\ l.word \notin BunEnds
                   /\ l.indent = 2 /\ l.word = w /\ l.val
                  THEN Len(file) + 1 ELSE BunLast(file, current.line, w)
      BY <1>2, <3>1, BunLastGrows
    <3> QED BY <1>1, <3>1, <3>2
  <2>5. BunSaid(file', current')
    <3> DEFINE last(w) == BunLast(file', current.line, w)
               old(w) == BunLast(file, current.line, w)
    <3>1. /\ current.version = old("version") /\ current.resolved = old("resolution")
          /\ current.integrity = old("integrity")
      BY <1>4, <1>8, Zenon DEF BunSaid
    <3>2. \A w : last(w) = IF l.indent = 2 /\ l.word = w /\ l.val THEN Bun!here ELSE old(w)
      BY <1>1, <2>4, Zenon
    <3> HIDE DEF last, old
    <3>3. /\ current'.version = last("version") /\ current'.resolved = last("resolution")
          /\ current'.integrity = last("integrity")
      BY <1>8, <3>1, <3>2
    <3> QED BY <2>1, <3>3, Zenon DEF BunSaid, last
  <2>6. \A i \in 1..Len(M) : (i \in 1..Len(entries) /\ M[i] = entries[i])
                               \/ (i = Len(entries) + 1 /\ M[i] = current')
    BY <1>2, <2>1, ListGrows
  <2>7. BunEntries(file', M)
    BY <1>1, <1>4, <2>3, <2>6, Zenon DEF BunEntries
  <2>8. Bun!flushEntry' = M
    BY <2>1, Zenon DEF Bun!flushEntry
  <2>9. BunText'
    <3>1. \A i \in 1..Len(M) : BunSaid(file', M[i])
      BY <1>4, <2>5, <2>6, Zenon
    <3> QED BY <1>4, <2>1, <2>4, <2>8, <3>1, Zenon DEF BunText
  <2> QED BY <1>1, <1>3, <1>5, <1>6, <2>2, <2>7, <2>8, <2>9, Zenon DEF BunInv
<1> QED BY <1>7, <1>8

\* A key of the text keeps it.
LEMMA BunKeyRead ==
  ASSUME BunInv, NEW l \in Bun!Line, Bun!Read(l), scope.format = "text",
         ~Bun!Rejected(l), Bun!Key(l)
  PROVE  BunInv'
<1> DEFINE L == Bun!flushEntry
           e == Bun!EntryFor(l.key.tokens)
<1>1. /\ result = "reading" /\ scope' = scope /\ file' = Append(file, l)
      /\ file' \in Seq(Bun!Line) /\ Len(file') = Len(file) + 1 /\ Len(file') <= scope.lines
      /\ file'[Len(file')] = l
      /\ Bun!Line' = Bun!Line /\ Bun!Entry' = Bun!Entry
      /\ Bun!here = Len(file) + 1 /\ Bun!here \in Bun!Place /\ 0 \in Bun!Place
      /\ BunKeys(file')
           = BunKeys(file) \cup (IF /\ l.word \in {"key", "entry"} /\ l.key.tokens # <<>>
                                    /\ l.word = "entry" => l.readable
                                   THEN {Len(file) + 1} ELSE {})
      /\ BunEntries(file', L) /\ Ordered(L) /\ LinesOf(L) = BunKeys(file)
      /\ \A i \in 1..Len(L) : L[i].line \in 1..Len(file)
  <2>1. scope.format # "bytes"
    OBVIOUS
  <2> QED BY <2>1, BunRead, Zenon
<1>2. /\ l.word = "key" /\ entries' = L
      /\ current' = (IF l.key.tokens = <<>> THEN Nil ELSE e)
      /\ result' = result
  BY Zenon DEF Bun!Key
<1>3. /\ L \in Seq(Bun!Entry) /\ Nil \notin Bun!Entry /\ Len(file) \in Nat
      /\ scope \in BunScopes /\ scope.keys \subseteq Bun!AllKeys
  BY BunTypes, Zenon DEF BunInv
<1>4. /\ result' \in {"reading", "listed", "rejected"} /\ result' = "reading"
      /\ result' # "listed" /\ result' # "rejected"
      /\ scope.format # "bytes" /\ scope.format # "json"
  BY <1>1, <1>2
<1>5. \A i \in 1..Len(L) : ~StillOpen(file', BunEnds, L[i].line) /\ BunSaid(file', L[i])
  <2>1. l.word \in BunEnds
    BY <1>2 DEF BunEnds
  <2> QED BY <2>1, BunTextRead, Zenon
<1>6. CASE l.key.tokens = <<>>
  <2>1. current' = Nil /\ BunKeys(file') = BunKeys(file)
    BY <1>1, <1>2, <1>6
  <2> QED BY <1>1, <1>2, <1>3, <1>4, <1>5, <2>1, BunListed, Zenon
<1>7. CASE l.key.tokens # <<>>
  <2>1. current' = e /\ BunKeys(file') = BunKeys(file) \cup {Len(file) + 1}
    BY <1>1, <1>2, <1>7
  <2>2. /\ e.line = Len(file) + 1 /\ e.name = Bun!bunName(l.key.tokens)
        /\ e.keyVersion = Bun!bunVersion(l.key.tokens)
        /\ e.version = 0 /\ e.integrity = 0 /\ e.resolved = 0
    BY <1>1, Zenon DEF Bun!EntryFor
  <2>3. l.key.tokens \in Seq(Bun!Tokens)
    <3>1. l.key \in Bun!AllKeys
      BY <1>2, <1>3, BunLineIs, Zenon
    <3> QED BY <3>1, BunTokens, Zenon
  <2>4. /\ Bun!bunName(l.key.tokens) \in Seq(Bun!Tokens)
        /\ Bun!bunVersion(l.key.tokens) \in Seq(Bun!Tokens)
        /\ ~(Bun!LastAt(l.key.tokens, "@") > 1) => Bun!bunVersion(l.key.tokens) = <<>>
    BY <2>3, BunCutIs, Zenon
  <2>5. e \in Bun!Entry
    BY <1>1, <2>4, Zenon DEF Bun!EntryFor, Bun!Entry, Bun!Entries
  <2>6. Bun!SanitizePackageName(e.name) \/ e.keyVersion = <<>>
    <3>1. ~Bun!KeyRejected(l.key.tokens)
      BY <1>2, Zenon DEF Bun!Rejected
    <3> QED BY <2>2, <2>4, <3>1, Zenon DEF Bun!KeyRejected
  <2> HIDE DEF e
  <2>7. e # Nil /\ Bun!flushEntry' = Append(L, e)
    <3>1. e # Nil
      BY <1>3, <2>5, Zenon
    <3> QED BY <1>2, <2>1, <3>1, Zenon DEF Bun!flushEntry
  <2>8. /\ LinesOf(Append(L, e)) = LinesOf(L) \cup {e.line} /\ Ordered(Append(L, e))
        /\ \A i \in 1..Len(Append(L, e)) :
              (i \in 1..Len(L) /\ Append(L, e)[i] = L[i])
                \/ (i = Len(L) + 1 /\ Append(L, e)[i] = e)
    <3>0. L \in Seq(Bun!Entry) /\ e \in Bun!Entry /\ Len(file) \in Nat
      BY <1>3, <2>5, Zenon
    <3>1. /\ LinesOf(Append(L, e)) = LinesOf(L) \cup {e.line}
          /\ \A i \in 1..Len(Append(L, e)) :
              (i \in 1..Len(L) /\ Append(L, e)[i] = L[i])
                \/ (i = Len(L) + 1 /\ Append(L, e)[i] = e)
          /\ Ordered(L) /\ e.line = Len(file) + 1
             /\ (\A i \in 1..Len(L) : L[i].line \in 1..Len(file))
               => Ordered(Append(L, e))
      <4> HIDE DEF L
      <4> QED BY <3>0, ListGrows
    <3> QED BY <1>1, <2>2, <3>1, Zenon
  <2>9. e.line \in 1..Len(file') /\ file'[e.line] = l /\ e.line \in BunKeys(file')
    BY <1>1, <1>3, <2>1, <2>2
  <2>10. BunEntry(file', e)
    BY <2>2, <2>6, <2>9, Zenon DEF BunEntry
  <2>11. BunEntries(file', Append(L, e))
    BY <1>1, <2>8, <2>10, Zenon DEF BunEntries
  <2>12. \A j : j \notin e.line + 1..Len(file')
    BY <1>1, <1>3, <2>2
  <2>13. StillOpen(file', BunEnds, e.line)
    BY <2>12, Zenon DEF StillOpen
  <2>14. BunSaid(file', e)
    <3>1. Own(file', BunEnds, e.line) = {}
      BY <2>12, Zenon DEF Own
    <3>2. Max({0}) = 0
      <4>1. Max({0}) \in {0}
        BY GreatestNatural
      <4> QED BY <4>1
    <3>3. ASSUME NEW w PROVE BunLast(file', e.line, w) = 0
      <4> DEFINE A == {j \in Own(file', BunEnds, e.line) :
                         file'[j].indent = 2 /\ file'[j].word = w /\ file'[j].val}
      <4>1. {0} \cup A = {0}
        BY <3>1, Zenon
      <4>2. BunLast(file', e.line, w) = Max({0} \cup A)
        BY Zenon DEF BunLast
      <4> HIDE DEF A
      <4> QED BY <3>2, <4>1, <4>2, Zenon
    <3> QED BY <2>2, <3>3, Zenon DEF BunSaid
  <2>15. Bun!TypeOK'
    <3>1. entries' \in Seq(Bun!Entry') /\ current' \in Bun!Entry' \cup {Nil}
          /\ file' \in Seq(Bun!Line')
      BY <1>1, <1>2, <1>3, <2>1, <2>5, Zenon
    <3> QED BY <1>1, <1>3, <1>4, <3>1, Zenon DEF Bun!TypeOK
  <2>16. BunText'
    <3>1. \A i \in 1..Len(Append(L, e)) : BunSaid(file', Append(L, e)[i])
      BY <1>5, <2>8, <2>14, Zenon
    <3> QED BY <1>2, <1>5, <2>1, <2>7, <2>13, <3>1, Zenon DEF BunText
  <2>17. LinesOf(Append(L, e)) = BunKeys(file')
    BY <1>1, <2>1, <2>2, <2>8, Zenon
  <2> QED BY <1>1, <1>4, <2>7, <2>8, <2>11, <2>15, <2>16, <2>17, Zenon DEF BunInv
<1> QED BY <1>6, <1>7

\* Every line of the text keeps it.
LEMMA BunTextStep ==
  ASSUME BunInv, NEW l \in Bun!Line, Bun!ReadLine(l)
  PROVE  BunInv'
<1> DEFINE L == Bun!flushEntry
<1>0. scope.format = "text" /\ Bun!Read(l)
      /\ (Bun!Reject(l) \/ (~Bun!Rejected(l)
         /\ (Bun!Blank(l) \/ Bun!Key(l) \/ Bun!Text(l) \/ Bun!Property(l))))
  BY Zenon DEF Bun!ReadLine
<1>1. /\ result = "reading" /\ scope' = scope /\ file' = Append(file, l)
      /\ file' \in Seq(Bun!Line) /\ Len(file') = Len(file) + 1 /\ Len(file') <= scope.lines
      /\ file'[Len(file')] = l
      /\ Bun!Line' = Bun!Line /\ Bun!Entry' = Bun!Entry
      /\ Bun!here = Len(file) + 1 /\ Bun!here \in Bun!Place
      /\ BunKeys(file')
           = BunKeys(file) \cup (IF /\ l.word \in {"key", "entry"} /\ l.key.tokens # <<>>
                                    /\ l.word = "entry" => l.readable
                                   THEN {Len(file) + 1} ELSE {})
      /\ BunEntries(file', L) /\ Ordered(L) /\ LinesOf(L) = BunKeys(file)
  <2>1. scope.format # "bytes"
    BY <1>0
  <2> QED BY <1>0, <2>1, BunRead, Zenon
<1>2. /\ L \in Seq(Bun!Entry) /\ Nil \notin Bun!Entry /\ Len(file) \in Nat
      /\ scope \in BunScopes /\ (current # Nil => current \in Bun!Entry)
      /\ entries \in Seq(Bun!Entry)
  BY BunTypes, Zenon DEF BunInv
<1>3. /\ l.indent \in {0, 1, 2, 4}
      /\ l.indent = 0 <=> l.word \in {"blank", "text", "long", "key"}
      /\ l.indent = 2 => /\ l.word \in {"version", "resolution", "integrity", "other"}
                         /\ l.val \in BOOLEAN
                         /\ l.word = "other" => ~l.val
      /\ l.word # "entry"
  BY <1>0, BunLineIs, Zenon
<1>4. scope.format # "bytes" /\ scope.format # "json"
  BY <1>0
<1>5. CASE Bun!Reject(l)
  <2>1. /\ Bun!Rejected(l) /\ result' = "rejected" /\ current' = current /\ entries' = entries
    BY <1>5, Zenon DEF Bun!Reject
  <2>2. Bun!flushEntry' = L
    BY <2>1, Zenon DEF Bun!flushEntry
  <2>3. "rejected" # "listed" /\ "rejected" # "reading"
        /\ "rejected" \in {"reading", "listed", "rejected"}
    OBVIOUS
  <2>4. Bun!TypeOK'
    <3>1. Bun!TypeOK
      BY Zenon DEF BunInv
    <3> QED BY <1>1, <2>1, <2>3, <3>1, Zenon DEF Bun!TypeOK
  <2>5. BunRefused(file')
    <3>1. ASSUME l.word \in {"key", "entry"} PROVE l.key \notin Bun!PackageKeys
      <4>1. l.word = "key" /\ l.word # "long"
        BY <1>3, <3>1
      <4>2. l.indent # 1
        BY <1>3, <4>1
      <4>3. Bun!KeyRejected(l.key.tokens)
        BY <2>1, <4>1, <4>2, Zenon DEF Bun!Rejected
      <4> QED BY <4>3, BunKeyIs, Zenon
    <3> QED BY <1>1, <3>1, Zenon DEF BunRefused
  <2>6. BunText'
    BY <2>1, <2>3, Zenon DEF BunText
  <2> QED BY <1>1, <1>4, <2>1, <2>2, <2>4, <2>5, <2>6, Zenon DEF BunInv
<1>6. CASE Bun!Blank(l)
  <2>1. l.word = "blank" /\ current' = current /\ entries' = entries /\ result' = result
    BY <1>6, Zenon DEF Bun!Blank
  <2>2. l.word \notin BunEnds /\ l.indent # 2
    BY <1>3, <2>1 DEF BunEnds
  <2> QED BY <1>0, <1>3, <2>1, <2>2, BunLineRead, Zenon
<1>7. CASE Bun!Text(l)
  <2>1. l.word = "text" /\ entries' = L /\ current' = Nil /\ result' = result
    BY <1>7, Zenon DEF Bun!Text
  <2>2. l.word \in BunEnds /\ BunKeys(file') = BunKeys(file)
    BY <1>1, <2>1 DEF BunEnds
  <2>3. \A i \in 1..Len(L) : ~StillOpen(file', BunEnds, L[i].line) /\ BunSaid(file', L[i])
    BY <1>0, <2>2, BunTextRead, Zenon
  <2>4. result' \in {"reading", "listed", "rejected"} /\ result' # "listed" /\ result' # "rejected"
    BY <1>1, <2>1
  <2> QED BY <1>1, <1>2, <1>4, <2>1, <2>2, <2>3, <2>4, BunListed, Zenon
<1>8. CASE Bun!Property(l)
  <2>1. /\ l.indent > 1 /\ entries' = entries /\ result' = result
        /\ current' = IF current = Nil \/ l.indent # 2 \/ ~l.val THEN current
                      ELSE CASE l.word = "version" -> [current EXCEPT !.version = Bun!here]
                             [] l.word = "resolution" -> [current EXCEPT !.resolved = Bun!here]
                             [] l.word = "integrity" -> [current EXCEPT !.integrity = Bun!here]
    BY <1>8, Zenon DEF Bun!Property
  <2>2. l.indent # 0
    BY <1>3, <2>1
  <2>3. l.word \notin BunEnds
    BY <1>3, <2>2 DEF BunEnds
  <2>4. CASE current = Nil \/ l.indent # 2 \/ ~l.val
    <3>1. current' = current /\ ~(current # Nil /\ l.indent = 2 /\ l.val)
      BY <2>1, <2>4, Zenon
    <3> QED BY <1>0, <1>3, <2>1, <2>3, <3>1, BunLineRead, Zenon
  <2>5. CASE current # Nil /\ l.indent = 2 /\ l.val
    <3> DEFINE A == [current EXCEPT !.version = Bun!here]
               B == [current EXCEPT !.resolved = Bun!here]
               C == [current EXCEPT !.integrity = Bun!here]
    <3>1. l.word = "version" \/ l.word = "resolution" \/ l.word = "integrity"
      BY <1>3, <2>5
    <3>2. current' = CASE l.word = "version" -> A [] l.word = "resolution" -> B
                       [] l.word = "integrity" -> C
      BY <2>1, <2>5, Zenon
    <3>3. /\ l.word = "version" => current' = A
          /\ l.word = "resolution" => current' = B
          /\ l.word = "integrity" => current' = C
      <4> HIDE DEF A, B, C
      <4> QED BY <3>2
    <3>4. Bun!here \in Bun!Place /\ current \in Bun!Entry
      BY <1>1, <1>2, <2>5, Zenon
    <3>5. /\ current' \in Bun!Entry
          /\ current'.line = current.line /\ current'.name = current.name
          /\ current'.keyVersion = current.keyVersion
          /\ current'.version = IF l.word = "version" THEN Bun!here ELSE current.version
          /\ current'.resolved = IF l.word = "resolution" THEN Bun!here ELSE current.resolved
          /\ current'.integrity = IF l.word = "integrity" THEN Bun!here ELSE current.integrity
      <4> HIDE DEF Bun!here, Bun!Place
      <4> QED BY <3>1, <3>3, <3>4 DEF Bun!Entry, Bun!Entries
    <3> QED BY <1>0, <1>3, <2>1, <2>3, <2>5, <3>5, BunLineRead, Zenon
  <2> QED BY <2>4, <2>5, Zenon
<1> QED BY <1>0, <1>5, <1>6, <1>7, <1>8, BunKeyRead, Zenon

\* Every entry of the JSON keeps it.
LEMMA BunEntryStep ==
  ASSUME BunInv, NEW l \in Bun!Line, Bun!ReadEntry(l)
  PROVE  BunInv'
<1> DEFINE e == Bun!JsonNode(l)
           name == Bun!bunName(l.key.tokens)
<1>0. /\ scope.format = "json" /\ Bun!Read(l) /\ current' = current
      /\ scope.format # "bytes" /\ scope.format # "text"
  BY Zenon DEF Bun!ReadEntry
<1>1. /\ current = Nil /\ Bun!flushEntry = entries
      /\ \A i \in 1..Len(entries) :
           {entries[i].resolved, entries[i].integrity} \subseteq {0, entries[i].line}
      /\ result # "rejected" => Len(entries) <= maxEntries
  BY <1>0, Zenon DEF BunInv, BunJson, Bun!flushEntry
<1>2. /\ result = "reading" /\ scope' = scope /\ file' = Append(file, l)
      /\ file' \in Seq(Bun!Line) /\ Len(file') = Len(file) + 1 /\ Len(file') <= scope.lines
      /\ file'[Len(file')] = l
      /\ Bun!here = Len(file) + 1 /\ Bun!here \in Bun!Place /\ 0 \in Bun!Place
      /\ BunKeys(file')
           = BunKeys(file) \cup (IF /\ l.word \in {"key", "entry"} /\ l.key.tokens # <<>>
                                    /\ l.word = "entry" => l.readable
                                   THEN {Len(file) + 1} ELSE {})
      /\ BunEntries(file', entries) /\ Ordered(entries) /\ LinesOf(entries) = BunKeys(file)
      /\ \A i \in 1..Len(entries) : entries[i].line \in 1..Len(file)
  <2> DEFINE L == Bun!flushEntry
  <2>1. /\ result = "reading" /\ scope' = scope /\ file' = Append(file, l)
        /\ file' \in Seq(Bun!Line) /\ Len(file') = Len(file) + 1 /\ Len(file') <= scope.lines
        /\ file'[Len(file')] = l
        /\ Bun!here = Len(file) + 1 /\ Bun!here \in Bun!Place /\ 0 \in Bun!Place
        /\ BunKeys(file')
             = BunKeys(file) \cup (IF /\ l.word \in {"key", "entry"} /\ l.key.tokens # <<>>
                                      /\ l.word = "entry" => l.readable
                                     THEN {Len(file) + 1} ELSE {})
        /\ BunEntries(file', L) /\ Ordered(L) /\ LinesOf(L) = BunKeys(file)
        /\ \A i \in 1..Len(L) : L[i].line \in 1..Len(file)
    BY <1>0, BunRead, Zenon
  <2>2. L = entries
    BY <1>1, Zenon
  <2> HIDE DEF L
  <2> QED BY <2>1, <2>2
<1>3. /\ l.word = "entry" /\ l.key \in scope.keys
      /\ l.readable \in BOOLEAN /\ l.resolved \in BOOLEAN /\ l.integrity \in BOOLEAN
  BY <1>0, BunLineIs, Zenon
<1>4. /\ entries \in Seq(Bun!Entry) /\ Len(entries) \in Nat /\ maxEntries \in Nat
      /\ Len(file) \in Nat /\ scope.keys \subseteq Bun!AllKeys
  BY BunTypes, Zenon DEF BunInv
<1>5. /\ l.key.tokens \in Seq(Bun!Tokens)
      /\ name \in Seq(Bun!Tokens) /\ Bun!bunVersion(l.key.tokens) \in Seq(Bun!Tokens)
      /\ name = <<>> <=> l.key.tokens = <<>>
  <2>1. l.key.tokens \in Seq(Bun!Tokens)
    BY <1>3, <1>4, BunTokens, Zenon
  <2> QED BY <2>1, BunCutIs, Zenon
<1>6. \/ /\ ~l.readable \/ name = <<>>
         /\ entries' = entries /\ result' = result
      \/ /\ ~Bun!SanitizePackageName(name) /\ l.readable /\ name # <<>>
         /\ entries' = entries /\ result' = "rejected"
      \/ /\ Bun!SanitizePackageName(name) /\ l.readable /\ name # <<>>
         /\ entries' = Append(entries, e)
         /\ result' = (IF Len(entries') > maxEntries THEN "rejected" ELSE result)
  <2> DEFINE p == ~l.readable \/ name = <<>>
             q == l.readable /\ name # <<>> /\ ~Bun!SanitizePackageName(name)
             A == UNCHANGED <<entries, result>>
             B == UNCHANGED entries /\ result' = "rejected"
             C == /\ entries' = Append(entries, e)
                  /\ result' = IF Len(entries') > maxEntries THEN "rejected" ELSE result
  <2>1. (CASE p -> A [] q -> B [] OTHER -> C)
    BY Zenon DEF Bun!ReadEntry
  <2>2. p => ~q
    BY Zenon
  <2> HIDE DEF A, B, C, p, q
  <2>3. (p /\ A) \/ (q /\ B) \/ (~p /\ ~q /\ C)
    BY <2>1, <2>2
  <2>4. ~p /\ ~q => Bun!SanitizePackageName(name) /\ l.readable /\ name # <<>>
    BY <1>3, Zenon DEF p, q
  <2>5. C => /\ entries' = Append(entries, e)
             /\ result' = (IF Len(entries') > maxEntries THEN "rejected" ELSE result)
    BY Zenon DEF C
  <2>6. A => entries' = entries /\ result' = result
    BY Zenon DEF A
  <2>7. B => entries' = entries /\ result' = "rejected"
    BY Zenon DEF B
  <2> QED BY <2>3, <2>4, <2>5, <2>6, <2>7, Zenon DEF p, q
<1>7. current' = Nil
  BY <1>0, <1>1
<1>8. CASE (~l.readable \/ name = <<>>) /\ entries' = entries /\ result' = result
  <2>1. BunKeys(file') = BunKeys(file)
    BY <1>2, <1>3, <1>5, <1>8
  <2>2. /\ result' \in {"reading", "listed", "rejected"} /\ result' # "listed"
        /\ result' # "rejected" /\ Len(entries) <= maxEntries
    BY <1>1, <1>2, <1>8
  <2> HIDE DEF e, name
  <2> QED BY <1>0, <1>1, <1>2, <1>4, <1>7, <1>8, <2>1, <2>2, BunListed, Zenon
<1>9. CASE ~Bun!SanitizePackageName(name) /\ entries' = entries /\ result' = "rejected"
  <2>1. BunRefused(file')
    <3>1. l.key \notin Bun!PackageKeys
      BY <1>9, BunKeyIs, Zenon
    <3> QED BY <1>2, <3>1, Zenon DEF BunRefused
  <2>2. result' \in {"reading", "listed", "rejected"} /\ result' # "listed" /\ result' = "rejected"
    BY <1>9
  <2> HIDE DEF e, name
  <2> QED BY <1>0, <1>1, <1>2, <1>4, <1>7, <1>9, <2>1, <2>2, BunListed, Zenon
<1>10. CASE /\ Bun!SanitizePackageName(name) /\ l.readable /\ name # <<>>
            /\ entries' = Append(entries, e)
            /\ result' = (IF Len(entries') > maxEntries THEN "rejected" ELSE result)
  <2>1. BunKeys(file') = BunKeys(file) \cup {Len(file) + 1}
    BY <1>2, <1>3, <1>5, <1>10
  <2> DEFINE f == Bun!EntryFor(l.key.tokens)
             r == IF l.resolved THEN Bun!here ELSE 0
             s == IF l.integrity THEN Bun!here ELSE 0
  <2>2. /\ f.line = Len(file) + 1 /\ f.name = name
        /\ f.keyVersion = Bun!bunVersion(l.key.tokens) /\ f \in Bun!Entry
    BY <1>2, <1>5, Zenon DEF Bun!EntryFor, Bun!Entry, Bun!Entries
  <2>3. r \in Bun!Place /\ s \in Bun!Place /\ {r, s} \subseteq {0, Len(file) + 1}
    BY <1>2, Zenon
  <2>4. e = [f EXCEPT !.resolved = r, !.integrity = s]
    BY Zenon DEF Bun!JsonNode
  <2>5. /\ e \in Bun!Entry /\ e.line = Len(file) + 1 /\ e.name = name
        /\ e.keyVersion = Bun!bunVersion(l.key.tokens)
        /\ {e.resolved, e.integrity} \subseteq {0, e.line}
    <3> HIDE DEF e, f, r, s, name, Bun!Place
    <3> QED BY <2>2, <2>3, <2>4 DEF Bun!Entry, Bun!Entries
  <2> HIDE DEF e, f, r, s
  <2> DEFINE K == Append(entries, e)
  <2>6. /\ K \in Seq(Bun!Entry) /\ LinesOf(K) = LinesOf(entries) \cup {e.line}
        /\ \A i \in 1..Len(K) : (i \in 1..Len(entries) /\ K[i] = entries[i])
                                 \/ (i = Len(entries) + 1 /\ K[i] = e)
        /\ Ordered(K) /\ Len(K) = Len(entries) + 1
    <3>0. entries \in Seq(Bun!Entry) /\ e \in Bun!Entry /\ Len(file) \in Nat
      BY <1>4, <2>5, Zenon
    <3>1. /\ K \in Seq(Bun!Entry) /\ LinesOf(K) = LinesOf(entries) \cup {e.line}
          /\ \A i \in 1..Len(K) : (i \in 1..Len(entries) /\ K[i] = entries[i])
                                   \/ (i = Len(entries) + 1 /\ K[i] = e)
          /\ Ordered(entries) /\ e.line = Len(file) + 1
             /\ (\A i \in 1..Len(entries) : entries[i].line \in 1..Len(file)) => Ordered(K)
          /\ Len(K) = Len(entries) + 1
      BY <3>0, ListGrows
    <3> QED BY <1>2, <2>5, <3>1, Zenon
  <2> HIDE DEF K
  <2>7. LinesOf(K) = BunKeys(file')
    BY <1>2, <2>1, <2>5, <2>6, Zenon
  <2>8. BunEntries(file', K)
    <3>1. e.line \in 1..Len(file') /\ file'[e.line] = l /\ e.line \in BunKeys(file')
      BY <1>2, <1>4, <2>1, <2>5
    <3>2. BunEntry(file', e)
      BY <1>10, <2>5, <3>1, Zenon DEF BunEntry
    <3> QED BY <1>2, <2>6, <3>2, Zenon DEF BunEntries
  <2>9. \A i \in 1..Len(K) : {K[i].resolved, K[i].integrity} \subseteq {0, K[i].line}
    BY <1>1, <2>5, <2>6, Zenon
  <2>10. /\ entries' = K /\ result' \in {"reading", "listed", "rejected"} /\ result' # "listed"
         /\ result' = "rejected" <=> ~(Len(K) <= maxEntries)
    <3>1. entries' = K /\ Len(K) \in Nat
      BY <1>4, <1>10, <2>6 DEF K
    <3> QED BY <1>2, <1>4, <1>10, <3>1
  <2> HIDE DEF name
  <2> QED BY <1>0, <1>2, <1>7, <2>6, <2>7, <2>8, <2>9, <2>10, BunListed, Zenon
<1> QED BY <1>6, <1>8, <1>9, <1>10, Zenon

\* Every step of bun keeps it.
LEMMA BunStep ==
  ASSUME BunInv, Bun!Next PROVE BunInv'
<1> DEFINE L == Bun!flushEntry
<1>1. /\ L \in Seq(Bun!Entry) /\ Len(L) \in Nat /\ maxEntries \in Nat
      /\ file \in Seq(Bun!Line) /\ Len(file) <= scope.lines /\ scope \in BunScopes
      /\ entries \in Seq(Bun!Entry)
  BY BunTypes, Zenon DEF BunInv
<1>2. ASSUME NEW l \in Bun!Line, Bun!ReadByte(l) PROVE BunInv'
  <2>1. /\ scope.format = "bytes" /\ Bun!Read(l) /\ current' = current
        /\ entries' = entries /\ result' = result
    BY <1>2, Zenon DEF Bun!ReadByte
  <2>2. /\ entries = <<>> /\ current = Nil /\ result = "reading"
    BY <2>1, Zenon DEF BunInv
  <2>3. /\ scope' = scope /\ file' \in Seq(Bun!Line) /\ Len(file') <= scope.lines
        /\ Bun!Line' = Bun!Line /\ Bun!Entry' = Bun!Entry
    BY <2>1, BunRead, Zenon
  <2>4. Bun!TypeOK'
    <3>1. entries' \in Seq(Bun!Entry') /\ current' \in Bun!Entry' \cup {Nil}
          /\ file' \in Seq(Bun!Line') /\ Len(file') <= scope'.lines /\ scope' \in BunScopes
      BY <1>1, <2>1, <2>2, <2>3, Zenon
    <3>2. result' \in {"reading", "listed", "rejected"} /\ result' # "listed"
      BY <2>1, <2>2
    <3> QED BY <3>1, <3>2, Zenon DEF Bun!TypeOK
  <2>5. scope'.format # "text" /\ scope'.format # "json" /\ scope'.format = "bytes"
    BY <2>1, <2>3
  <2> QED BY <2>1, <2>2, <2>4, <2>5, Zenon DEF BunInv
<1>3. ASSUME Bun!EndOfText PROVE BunInv'
  <2>1. /\ scope.format = "text" /\ result = "reading" /\ entries' = L /\ current' = Nil
        /\ result' = (IF Len(L) > maxEntries THEN "rejected" ELSE "listed")
        /\ scope' = scope /\ file' = file
    BY <1>3, Zenon DEF Bun!EndOfText
  <2>2. scope.format # "bytes" /\ scope.format # "json" /\ result # "rejected"
    BY <2>1
  <2>3. /\ BunEntries(file, L) /\ Ordered(L) /\ LinesOf(L) = BunKeys(file)
        /\ \A i \in 1..Len(L) : BunSaid(file, L[i])
    BY <2>1, <2>2, Zenon DEF BunInv, BunText
  <2> HIDE DEF L
  <2>4. /\ result' \in {"reading", "listed", "rejected"} /\ result' # "reading"
        /\ result' = "listed" => Len(L) <= maxEntries
        /\ result' = "rejected" => ~(Len(L) <= maxEntries)
    BY <1>1, <2>1
  <2> QED BY <1>1, <2>1, <2>2, <2>3, <2>4, BunListed, Zenon
<1>4. ASSUME Bun!NotJson \/ Bun!EndOfJson PROVE BunInv'
  <2>1. /\ scope.format = "json" /\ result = "reading" /\ entries' = entries /\ current' = current
        /\ scope' = scope /\ file' = file
        /\ \/ result' = "rejected" /\ file = <<>>
           \/ result' = "listed"
    BY <1>4, Zenon DEF Bun!NotJson, Bun!EndOfJson
  <2>2. scope.format # "bytes" /\ scope.format # "text" /\ result # "rejected" /\ result # "listed"
    BY <2>1
  <2>3. /\ current = Nil /\ L = entries
        /\ \A i \in 1..Len(entries) :
             {entries[i].resolved, entries[i].integrity} \subseteq {0, entries[i].line}
        /\ Len(entries) <= maxEntries
    BY <2>1, <2>2, Zenon DEF BunInv, BunJson, Bun!flushEntry
  <2>4. BunEntries(file, entries) /\ Ordered(entries) /\ LinesOf(entries) = BunKeys(file)
    BY <2>1, <2>2, <2>3, Zenon DEF BunInv
  <2>5. result' \in {"reading", "listed", "rejected"} /\ result' # "reading"
        /\ (result' = "rejected" => file' = <<>>)
    BY <2>1
  <2>6. result' = "rejected" => BunRefused(file')
    BY <2>5, Zenon DEF BunRefused
  <2> QED BY <1>1, <2>1, <2>2, <2>3, <2>4, <2>5, <2>6, BunListed, Zenon
<1> QED BY <1>2, <1>3, <1>4, BunTextStep, BunEntryStep, Zenon DEF Bun!Next

\* What the properties of the parser of bun say, from its invariant.
LEMMA BunShown ==
  ASSUME BunInv
  PROVE  Bun!TypeOK /\ Bun!EveryPackageOfFile /\ Bun!PackageKeysUnderstood
<1> DEFINE L == Bun!flushEntry
<1>1. /\ file \in Seq(Bun!Line) /\ Len(file) \in Nat /\ DOMAIN file = 1..Len(file)
      /\ L \in Seq(Bun!Entry) /\ entries \in Seq(Bun!Entry)
  BY BunTypes, Zenon DEF BunInv
<1>2. DOMAIN L = 1..Len(L) /\ DOMAIN entries = 1..Len(entries)
  BY <1>1, LenProperties, Zenon
<1>3. ASSUME NEW e \in Bun!Range(L)
      PROVE  /\ scope.format # "bytes" /\ BunEntry(file, e)
             /\ result # "rejected" /\ scope.format = "text" => BunSaid(file, e)
  <2>1. PICK i \in 1..Len(L) : e = L[i]
    BY <1>2, Zenon DEF Bun!Range
  <2>2. scope.format # "bytes"
    <3>1. CASE scope.format = "bytes"
      <4>1. L = <<>>
        BY <3>1, Zenon DEF BunInv, Bun!flushEntry
      <4> HIDE DEF L
      <4> QED BY <2>1, <4>1
    <3> QED BY <3>1
  <2> QED BY <2>1, <2>2, Zenon DEF BunInv, BunText, BunEntries
<1>4. ASSUME NEW i \in Nat, NEW w PROVE Bun!Stated(i, w) = BunLast(file, i, w)
  <2> DEFINE E == {j \in i+1..Len(file) : file[j].word \in BunEnds}
  <2>1. i+1 .. Min(E \cup {Len(file) + 1}) - 1 = Own(file, BunEnds, i)
    BY <1>1, BlockIs, Zenon
  <2>2. \A S : Bun!Min(S) = Min(S) /\ Bun!Max(S) = Max(S)
    BY Zenon DEF Bun!Min, Min, Bun!Max, Max
  <2>3. Bun!Block(i) = i+1 .. Bun!Min(E \cup {Len(file) + 1}) - 1
    BY Zenon DEF Bun!Block, BunEnds
  <2>4. Bun!Block(i) = Own(file, BunEnds, i)
    BY <2>1, <2>2, <2>3, Zenon
  <2> QED BY <2>2, <2>4, Zenon DEF Bun!Stated, BunLast
<1>5. ASSUME result = "listed"
      PROVE  /\ {e.line : e \in Bun!Range(entries)} = Bun!PackageLines /\ Bun!InOrder
             /\ \A e \in Bun!Range(entries) :
                  /\ scope.format = "text" => /\ e.version = Bun!Stated(e.line, "version")
                                              /\ e.resolved = Bun!Stated(e.line, "resolution")
                                              /\ e.integrity = Bun!Stated(e.line, "integrity")
                  /\ scope.format = "json" => {e.resolved, e.integrity} \subseteq {0, e.line}
                  /\ Bun!SanitizePackageName(e.name) \/ e.keyVersion = <<>>
  <2>1. current = Nil /\ L = entries
    BY <1>5, Zenon DEF BunInv, Bun!TypeOK, Bun!flushEntry
  <2>2. result # "rejected" /\ result # "reading"
    BY <1>5
  <2>3. LinesOf(entries) = BunKeys(file) /\ Ordered(entries)
    BY <2>1, <2>2, Zenon DEF BunInv
  <2>4. {e.line : e \in Bun!Range(entries)} = LinesOf(entries)
    BY <1>2, Zenon DEF Bun!Range, LinesOf
  <2>5. Bun!PackageLines = BunKeys(file)
    BY <1>1, Zenon DEF Bun!PackageLines, BunKeys
  <2>6. Bun!InOrder
    BY <1>2, <2>3, Zenon DEF Bun!InOrder, Ordered
  <2>7. ASSUME NEW e \in Bun!Range(entries)
        PROVE  /\ scope.format = "text" => /\ e.version = Bun!Stated(e.line, "version")
                                           /\ e.resolved = Bun!Stated(e.line, "resolution")
                                           /\ e.integrity = Bun!Stated(e.line, "integrity")
               /\ scope.format = "json" => {e.resolved, e.integrity} \subseteq {0, e.line}
               /\ Bun!SanitizePackageName(e.name) \/ e.keyVersion = <<>>
    <3>1. BunEntry(file, e) /\ (scope.format = "text" => BunSaid(file, e))
      BY <1>3, <2>1, <2>2, Zenon
    <3>2. e.line \in Nat
      <4>1. e.line \in 1..Len(file)
        BY <3>1, Zenon DEF BunEntry, BunKeys
      <4> QED BY <1>1, <4>1
    <3>3. scope.format = "json" => {e.resolved, e.integrity} \subseteq {0, e.line}
      <4>1. PICK i \in 1..Len(entries) : e = entries[i]
        BY <1>2, Zenon DEF Bun!Range
      <4> QED BY <4>1, Zenon DEF BunInv, BunJson
    <3> QED BY <1>4, <3>1, <3>2, <3>3, Zenon DEF BunEntry, BunSaid
  <2> QED BY <2>3, <2>4, <2>5, <2>6, <2>7, Zenon
<1>6. Bun!EveryPackageOfFile
  BY <1>5, Zenon DEF Bun!EveryPackageOfFile
<1>7. Bun!PackageKeysUnderstood
  <2>1. ASSUME NEW e \in Bun!Range(L), file[e.line].key \in Bun!PackageKeys
        PROVE  /\ e.name = file[e.line].key.name
               /\ e.keyVersion = <<"v">> <=> e.keyVersion # <<>>
               /\ e.keyVersion # <<>> <=> "v" \in Bun!Range(file[e.line].key.tokens)
    <3>1. <<"v">> # <<>>
      OBVIOUS
    <3>2. e.name = file[e.line].key.name /\ e.keyVersion \in {<<>>, <<"v">>}
          /\ (e.keyVersion # <<>> <=> "v" \in Bun!Range(file[e.line].key.tokens))
      BY <1>3, <2>1, BunKeyIs, Zenon DEF BunEntry
    <3> QED BY <3>1, <3>2, Zenon
  <2>2. ASSUME result = "rejected", file # <<>>, Len(entries) <= maxEntries,
               file[Len(file)].word \in {"key", "entry"}
        PROVE  file[Len(file)].key \notin Bun!PackageKeys
    <3>1. scope.format # "bytes"
      <4>1. result # "reading"
        BY <2>2
      <4> QED BY <4>1, Zenon DEF BunInv
    <3> QED BY <2>2, <3>1, Zenon DEF BunInv, BunRefused
  <2> QED BY <2>1, <2>2, Zenon DEF Bun!PackageKeysUnderstood
<1> QED BY <1>6, <1>7, Zenon DEF BunInv

-----------------------------------------------------------------------------
(* Steps that leave what a parser has read. *)

\* The invariants speak of nothing but what the parsers remember.
LEMMA NpmStays ==
  ASSUME NpmInv, UNCHANGED <<scope, file, entries, result>> PROVE NpmInv'
BY DEF NpmInv, NpmListed, Npm!TypeOK, Npm!InOrder

\* pnpm's.
LEMMA PnpmStays ==
  ASSUME PnpmInv, UNCHANGED <<scope, file, current, inPackages, resolutionPending,
                              resolvedPending, entries, result>>
  PROVE  PnpmInv'
<1>1. Pnpm!Entry' = Pnpm!Entry /\ Pnpm!Line' = Pnpm!Line /\ Pnpm!flushEntry' = Pnpm!flushEntry
      /\ Pnpm!at' = Pnpm!at
  BY Zenon DEF Pnpm!Entry, Pnpm!Place, Pnpm!Line, Pnpm!flushEntry, Pnpm!at
<1>2. Pnpm!TypeOK'
  BY <1>1, Zenon DEF PnpmInv, Pnpm!TypeOK
<1> QED BY <1>1, <1>2, Zenon DEF PnpmInv

\* yarn's.
LEMMA YarnStays ==
  ASSUME YarnInv, UNCHANGED <<scope, file, current, inPackages, checksumPending,
                              resolutionPending, entries, result>>
  PROVE  YarnInv'
<1>1. Yarn!Entry' = Yarn!Entry /\ Yarn!Line' = Yarn!Line /\ Yarn!flushEntry' = Yarn!flushEntry
  BY Zenon DEF Yarn!Entry, Yarn!Place, Yarn!Line, Yarn!flushEntry
<1>2. Yarn!TypeOK'
  BY <1>1, Zenon DEF YarnInv, Yarn!TypeOK
<1> QED BY <1>1, <1>2, Zenon DEF YarnInv

\* bun's.
LEMMA BunStays ==
  ASSUME BunInv, UNCHANGED <<scope, file, current, entries, result>> PROVE BunInv'
<1>1. Bun!Entry' = Bun!Entry /\ Bun!Line' = Bun!Line /\ Bun!flushEntry' = Bun!flushEntry
  BY Zenon DEF Bun!Entry, Bun!Place, Bun!Line, Bun!TextLine, Bun!JsonEntry, Bun!flushEntry
<1>2. Bun!TypeOK'
  BY <1>1, Zenon DEF BunInv, Bun!TypeOK
<1>3. BunText => BunText'
  BY <1>1, Zenon DEF BunText
<1>4. BunJson => BunJson'
  BY Zenon DEF BunJson
<1> QED BY <1>1, <1>2, <1>3, <1>4, Zenon DEF BunInv

-----------------------------------------------------------------------------
(* The parser that was chosen. *)

\* The package manager that is detected is the one of every lockfile found.
LEMMA DetectIs ==
  ASSUME NEW files \in SUBSET Lockfiles, Detect(files) # "none"
  PROVE  {Manager[f] : f \in files} = {Detect(files)}
<1> DEFINE found == {Manager[f] : f \in files}
           M == {"npm", "pnpm", "yarn", "bun"}
<1>1. found \subseteq M
  BY DEF Manager, Lockfiles
<1>2. IsFiniteSet(M)
  <2>1. M = (({"npm"} \cup {"pnpm"}) \cup {"yarn"}) \cup {"bun"}
    OBVIOUS
  <2>2. ASSUME NEW S, IsFiniteSet(S) PROVE \A x : IsFiniteSet(S \cup {x})
    BY <2>2, FS_AddElement
  <2>3. IsFiniteSet({"npm"})
    BY FS_Singleton, Zenon
  <2>4. IsFiniteSet({"npm"} \cup {"pnpm"})
    BY <2>2, <2>3, Zenon
  <2>5. IsFiniteSet(({"npm"} \cup {"pnpm"}) \cup {"yarn"})
    BY <2>2, <2>4, Zenon
  <2>6. IsFiniteSet((({"npm"} \cup {"pnpm"}) \cup {"yarn"}) \cup {"bun"})
    BY <2>2, <2>5, Zenon
  <2> HIDE DEF M
  <2> QED BY <2>1, <2>6, Zenon
<1>3. IsFiniteSet(found)
  BY <1>1, <1>2, FS_Subset, Zenon
<1>4. /\ Cardinality(found) = 1
      /\ Detect(files) = CHOOSE m \in found : TRUE
  BY DEF Detect
<1> HIDE DEF found, M
<1>5. PICK m : found = {m}
  BY <1>3, <1>4, FS_Singleton, Zenon
<1>6. Detect(files) \in found
  <2>1. \E x \in found : TRUE
    BY <1>5
  <2> QED BY <1>4, <2>1, Zenon
<1> QED BY <1>5, <1>6, Zenon DEF found

\* The inductive invariant: the lockfiles are those of the package manager, and
\* its parser keeps to its own invariant.
ParsersInv ==
  /\ present \in SUBSET Lockfiles
  /\ pm # "none" => {Manager[f] : f \in present} = {pm}
  /\ Unread => result = "rejected"
  /\ pm = "npm" => NpmInv
  /\ pm = "pnpm" => PnpmInv
  /\ pm = "yarn" => YarnInv
  /\ pm = "bun" /\ ~Unread => BunInv

\* Each parser begins in its invariant.
LEMMA ParsersInit == Init => ParsersInv
<1> SUFFICES ASSUME Init PROVE ParsersInv
  OBVIOUS
<1>1. present \in SUBSET Lockfiles /\ (pm # "none" => {Manager[f] : f \in present} = {pm})
  BY DetectIs, Zenon DEF Init
<1>2. CASE Unread /\ result = "rejected"
  <2>1. pm # "npm" /\ pm # "pnpm" /\ pm # "yarn"
    BY <1>2 DEF Unread
  <2> QED BY <1>1, <1>2, <2>1, Zenon DEF ParsersInv
<1>3. CASE pm = "npm" /\ Npm!Init
  <2>1. ~Unread /\ pm # "pnpm" /\ pm # "yarn" /\ pm # "bun"
    BY <1>3 DEF Unread
  <2> QED BY <1>1, <1>3, <2>1, NpmInit, Zenon DEF ParsersInv
<1>4. CASE pm = "pnpm" /\ Pnpm!Init
  <2>1. ~Unread /\ pm # "npm" /\ pm # "yarn" /\ pm # "bun"
    BY <1>4 DEF Unread
  <2> QED BY <1>1, <1>4, <2>1, PnpmInit, Zenon DEF ParsersInv
<1>5. CASE pm = "yarn" /\ Yarn!Init
  <2>1. ~Unread /\ pm # "npm" /\ pm # "pnpm" /\ pm # "bun"
    BY <1>5 DEF Unread
  <2> QED BY <1>1, <1>5, <2>1, YarnInit, Zenon DEF ParsersInv
<1>6. CASE pm = "bun" /\ ~Unread /\ Bun!Init
  <2>1. pm # "npm" /\ pm # "pnpm" /\ pm # "yarn"
    BY <1>6
  <2> QED BY <1>1, <1>6, <2>1, BunInit, Zenon DEF ParsersInv
<1> QED BY <1>2, <1>3, <1>4, <1>5, <1>6, Zenon DEF Init

\* Each step is one of the parser that was chosen.
LEMMA ParsersStep == ParsersInv /\ [Next]_vars => ParsersInv'
<1> SUFFICES ASSUME ParsersInv, [Next]_vars PROVE ParsersInv'
  OBVIOUS
<1>0. /\ present' = present /\ pm' = pm
      /\ Unread' <=> Unread
      /\ present \in SUBSET Lockfiles /\ (pm # "none" => {Manager[f] : f \in present} = {pm})
  <2>1. UNCHANGED detected
    BY Zenon DEF Next, vars, ParseNpm, ParsePnpm, ParseYarn, ParseBun
  <2> QED BY <2>1, Zenon DEF detected, Unread, ParsersInv
<1>1. CASE ParseNpm
  <2>1. pm = "npm" /\ Npm!Next /\ NpmInv
    BY <1>1, Zenon DEF ParseNpm, ParsersInv
  <2>2. ~Unread /\ pm # "pnpm" /\ pm # "yarn" /\ pm # "bun"
    BY <2>1 DEF Unread
  <2> QED BY <1>0, <2>1, <2>2, NpmStep, Zenon DEF ParsersInv
<1>2. CASE ParsePnpm
  <2>1. pm = "pnpm" /\ Pnpm!Next /\ PnpmInv
    BY <1>2, Zenon DEF ParsePnpm, ParsersInv
  <2>2. ~Unread /\ pm # "npm" /\ pm # "yarn" /\ pm # "bun"
    BY <2>1 DEF Unread
  <2> QED BY <1>0, <2>1, <2>2, PnpmStep, Zenon DEF ParsersInv
<1>3. CASE ParseYarn
  <2>1. pm = "yarn" /\ Yarn!Next /\ YarnInv
    BY <1>3, Zenon DEF ParseYarn, ParsersInv
  <2>2. ~Unread /\ pm # "npm" /\ pm # "pnpm" /\ pm # "bun"
    BY <2>1 DEF Unread
  <2> QED BY <1>0, <2>1, <2>2, YarnStep, Zenon DEF ParsersInv
<1>4. CASE ParseBun
  <2>1. pm = "bun" /\ ~Unread /\ Bun!Next /\ BunInv
    BY <1>4, Zenon DEF ParseBun, ParsersInv
  <2>2. pm # "npm" /\ pm # "pnpm" /\ pm # "yarn"
    BY <2>1
  <2> QED BY <1>0, <2>1, <2>2, BunStep, Zenon DEF ParsersInv
<1>5. CASE UNCHANGED vars
  <2>1. UNCHANGED <<scope, file, entries, result>> /\ UNCHANGED textOnly
    BY <1>5, Zenon DEF vars
  <2>2. UNCHANGED <<current, inPackages, resolutionPending, checksumPending, resolvedPending>>
    BY <2>1, Zenon DEF textOnly
  <2>3. /\ scope' = scope /\ file' = file /\ entries' = entries /\ result' = result
        /\ current' = current /\ inPackages' = inPackages
        /\ resolutionPending' = resolutionPending /\ checksumPending' = checksumPending
        /\ resolvedPending' = resolvedPending
    BY <2>1, <2>2
  <2>4. /\ NpmInv => NpmInv'
        /\ PnpmInv => PnpmInv'
        /\ YarnInv => YarnInv'
        /\ BunInv => BunInv'
    <3>1. NpmInv => NpmInv'
      BY <2>3, NpmStays, Zenon
    <3>2. PnpmInv => PnpmInv'
      BY <2>3, PnpmStays, Zenon
    <3>3. YarnInv => YarnInv'
      BY <2>3, YarnStays, Zenon
    <3>4. BunInv => BunInv'
      BY <2>3, BunStays, Zenon
    <3> QED BY <3>1, <3>2, <3>3, <3>4, Zenon
  <2>5. Unread => result = "rejected"
    BY Zenon DEF ParsersInv
  <2>6. present' \in SUBSET Lockfiles /\ (pm' # "none" => {Manager[f] : f \in present'} = {pm'})
    BY <1>0, Zenon
  <2>7. Unread' => result' = "rejected"
    BY <1>0, <2>3, <2>5
  <2>8. ASSUME pm' = "npm" PROVE NpmInv'
    <3>1. pm = "npm"
      BY <1>0, <2>8, Zenon
    <3>2. NpmInv
      BY <3>1, Zenon DEF ParsersInv
    <3> QED BY <2>4, <3>2, Zenon
  <2>9. ASSUME pm' = "pnpm" PROVE PnpmInv'
    <3>1. pm = "pnpm"
      BY <1>0, <2>9, Zenon
    <3>2. PnpmInv
      BY <3>1, Zenon DEF ParsersInv
    <3> QED BY <2>4, <3>2, Zenon
  <2>10. ASSUME pm' = "yarn" PROVE YarnInv'
    <3>1. pm = "yarn"
      BY <1>0, <2>10, Zenon
    <3>2. YarnInv
      BY <3>1, Zenon DEF ParsersInv
    <3> QED BY <2>4, <3>2, Zenon
  <2>11. ASSUME pm' = "bun", ~Unread' PROVE BunInv'
    <3>1. pm = "bun" /\ ~Unread
      BY <1>0, <2>11, Zenon
    <3>2. BunInv
      BY <3>1, Zenon DEF ParsersInv
    <3> QED BY <2>4, <3>2, Zenon
  <2> QED BY <2>6, <2>7, <2>8, <2>9, <2>10, <2>11, Zenon DEF ParsersInv
<1> QED BY <1>1, <1>2, <1>3, <1>4, <1>5, Zenon DEF Next

\* What the properties say, from the invariant.
LEMMA ParsersShown == ParsersInv => TypeOK /\ AcceptedIsListed /\ KeysUnderstood
<1> SUFFICES ASSUME ParsersInv PROVE TypeOK /\ AcceptedIsListed /\ KeysUnderstood
  OBVIOUS
<1>1. NpmInv => Npm!TypeOK /\ Npm!ProjectPackagesListed
  BY Zenon DEF NpmInv, NpmListed, Npm!ProjectPackagesListed
<1>1a. result = "listed" => result # "rejected"
  OBVIOUS
<1>2. result # "rejected" => {Manager[f] : f \in present} = {pm}
  BY Zenon DEF ParsersInv, Unread
<1>3. TypeOK
  BY <1>1, <1>2, PnpmShown, YarnShown, BunShown, Zenon DEF ParsersInv, TypeOK
<1>4. AcceptedIsListed
  BY <1>1, PnpmShown, YarnShown, BunShown, Zenon DEF ParsersInv, AcceptedIsListed
<1>5. KeysUnderstood
  BY PnpmShown, BunShown, Zenon DEF ParsersInv, KeysUnderstood
<1> QED BY <1>3, <1>4, <1>5

\* The invariant holds of every state.
LEMMA ParsersInvHolds == Spec => []ParsersInv
BY ParsersInit, ParsersStep, PTL DEF Spec

\* The parser keeps to its types, and was chosen because the directory has a
\* lockfile of its package manager and of no other (pkgmanager.Detect).
THEOREM ParsersTypeCorrect == Spec => []TypeOK
BY ParsersInvHolds, ParsersShown, PTL

\* Of any file that is accepted, of any length, every package is listed once and
\* in order, and what is listed of one comes from its own block (the parsers of
\* npm, pnpm, yarn and bun); yarn loses one only where a text follows it.
THEOREM AcceptedListed == Spec => []AcceptedIsListed
BY ParsersInvHolds, ParsersShown, PTL

\* A key that names a package gives its name and its version, and no lockfile of
\* pnpm or bun is refused for one.
THEOREM KeysUnderstoodSound == Spec => []KeysUnderstood
BY ParsersInvHolds, ParsersShown, PTL

-----------------------------------------------------------------------------
(* What is written is listed: the values of an entry are the only lines of  *)
(* its block that state one.                                               *)

\* The one line of a set, or none.
Only(S, v) == (S = {} /\ v = 0) \/ S = {v}

\* The blocks of a list have ended.
Closed(fl, ends, es) == \A k \in 1..Len(es) : ~StillOpen(fl, ends, es[k].line)

\* One more line after a block that has ended, or that ends it, is none of it.
LEMMA ClosedStays ==
  ASSUME NEW S, NEW fl \in Seq(S), NEW l \in S, NEW ends, NEW i \in 1..Len(fl),
         ~StillOpen(fl, ends, i) \/ l.word \in ends
  PROVE  /\ ~StillOpen(Append(fl, l), ends, i)
         /\ Own(Append(fl, l), ends, i) = Own(fl, ends, i)
<1>1. i \in Nat /\ i <= Len(fl)
  OBVIOUS
<1> DEFINE more == StillOpen(fl, ends, i) /\ l.word \notin ends
<1>2. /\ StillOpen(Append(fl, l), ends, i) <=> more
      /\ Own(Append(fl, l), ends, i)
           = Own(fl, ends, i) \cup (IF more THEN {Len(fl) + 1} ELSE {})
  <2>1. BlockGrows(fl, l, ends, i)
    BY <1>1, OwnIs, Zenon
  <2> QED BY <2>1, Zenon DEF BlockGrows
<1>3. ~more
  OBVIOUS
<1> HIDE DEF more
<1> QED BY <1>2, <1>3

\* The lines of a block are between its key and the end of the file, and all of
\* them as long as nothing ends it.
LEMMA OwnRange ==
  ASSUME NEW fl, Len(fl) \in Nat, NEW ends, NEW i \in Nat
  PROVE  /\ Own(fl, ends, i) \subseteq i+1..Len(fl)
         /\ StillOpen(fl, ends, i) => Own(fl, ends, i) = i+1..Len(fl)
<1>1. Own(fl, ends, i) \subseteq i+1..Len(fl)
  BY Zenon DEF Own
<1>2. ASSUME StillOpen(fl, ends, i), NEW f \in i+1..Len(fl) PROVE f \in Own(fl, ends, i)
  <2>1. \A j \in i+1..f : j \in i+1..Len(fl)
    OBVIOUS
  <2> QED BY <1>2, <2>1, Zenon DEF Own, StillOpen
<1> QED BY <1>1, <1>2

\* The lines of a block of pnpm that state its integrity, and its address.
PnpmIntegrity(fl, i) ==
  {j \in Own(fl, PnpmEnds, i) :
     \/ fl[j].word = "resolution" /\ fl[j].val
     \/ /\ fl[j].word = "integrity"
        /\ j - 1 \in Own(fl, PnpmEnds, i) /\ fl[j - 1].word = "resolution"}
PnpmResolved(fl, i) == {j \in Own(fl, PnpmEnds, i) : fl[j].word = "resolved"}

\* An entry of pnpm has what its block states.
PnpmSays(fl, e) ==
  /\ Only(PnpmIntegrity(fl, e.line), e.integrity)
  /\ Only(PnpmResolved(fl, e.line), e.resolved)

\* One more line states one of them or none.
LEMMA PnpmStatesGrow ==
  ASSUME NEW fl \in Seq(Pnpm!Line), NEW l \in Pnpm!Line, NEW i \in 1..Len(fl)
  PROVE  LET n == Len(fl)
             open == StillOpen(fl, PnpmEnds, i) /\ l.word \notin PnpmEnds
             more == \/ l.word = "resolution" /\ l.val
                     \/ l.word = "integrity" /\ i < n /\ fl[n].word = "resolution"
         IN  /\ PnpmIntegrity(Append(fl, l), i)
                  = PnpmIntegrity(fl, i) \cup (IF open /\ more THEN {n + 1} ELSE {})
             /\ PnpmResolved(Append(fl, l), i)
                  = PnpmResolved(fl, i)
                      \cup (IF open /\ l.word = "resolved" THEN {n + 1} ELSE {})
<1> DEFINE n == Len(fl)
           g == Append(fl, l)
           O == Own(fl, PnpmEnds, i)
           P == Own(g, PnpmEnds, i)
           open == StillOpen(fl, PnpmEnds, i) /\ l.word \notin PnpmEnds
           more == \/ l.word = "resolution" /\ l.val
                   \/ l.word = "integrity" /\ i < n /\ fl[n].word = "resolution"
<1>1. n \in Nat /\ (\A k \in 1..n : g[k] = fl[k]) /\ g[n + 1] = l
  BY AppendIs
<1>2. i \in Nat /\ i <= n /\ i >= 1
  BY <1>1
<1>3. P = O \cup (IF open THEN {n + 1} ELSE {})
  <2>1. BlockGrows(fl, l, PnpmEnds, i)
    BY <1>2, OwnIs, Zenon
  <2> QED BY <2>1, Zenon DEF BlockGrows
<1>4. O \subseteq i+1..n /\ (StillOpen(fl, PnpmEnds, i) => O = i+1..n)
  BY <1>1, <1>2, OwnRange, Zenon
<1> HIDE DEF g, n, O, P
<1>5. ASSUME NEW j \in O
      PROVE  /\ j \in Int /\ j # n + 1 /\ j \in P /\ g[j] = fl[j]
             /\ j - 1 \in P <=> j - 1 \in O
             /\ j - 1 \in O => g[j - 1] = fl[j - 1]
  BY <1>1, <1>2, <1>3, <1>4
<1>6. n + 1 \notin O
  BY <1>1, <1>2, <1>4
<1>7. (n + 1) - 1 = n /\ n # n + 1
  BY <1>1
<1>8. open => (n \in P <=> i < n) /\ (i < n => g[n] = fl[n])
  BY <1>1, <1>2, <1>3, <1>4
<1>9. ASSUME open PROVE n + 1 \in P
  BY <1>3, <1>9
<1>10. \A j \in P : j \in O \/ (j = n + 1 /\ open)
  BY <1>3
<1> DEFINE States(h, B, j) == \/ h[j].word = "resolution" /\ h[j].val
                              \/ /\ h[j].word = "integrity"
                                 /\ j - 1 \in B /\ h[j - 1].word = "resolution"
<1>11. \A j \in O : States(g, P, j) <=> States(fl, O, j)
  BY <1>5, Zenon
<1>12. open => (States(g, P, n + 1) <=> more)
  BY <1>1, <1>7, <1>8
<1> HIDE DEF open, more, States
<1>13. {j \in P : States(g, P, j)}
         = {j \in O : States(fl, O, j)} \cup (IF open /\ more THEN {n + 1} ELSE {})
  BY <1>5, <1>9, <1>10, <1>11, <1>12
<1>14. {j \in P : g[j].word = "resolved"}
         = {j \in O : fl[j].word = "resolved"}
             \cup (IF open /\ l.word = "resolved" THEN {n + 1} ELSE {})
  <2>1. \A j \in O : j \in P /\ g[j].word = fl[j].word
    BY <1>5, Zenon
  <2> QED BY <1>1, <1>9, <1>10, <2>1
<1> QED BY <1>13, <1>14, Zenon DEF PnpmIntegrity, PnpmResolved, States, open, more, P, O, n, g

\* What is said of a block that has ended stays.
LEMMA PnpmSaysStays ==
  ASSUME NEW fl \in Seq(Pnpm!Line), NEW l \in Pnpm!Line, NEW e, e.line \in 1..Len(fl),
         ~StillOpen(fl, PnpmEnds, e.line) \/ l.word \in PnpmEnds, PnpmSays(fl, e)
  PROVE  PnpmSays(Append(fl, l), e)
<1> DEFINE i == e.line
<1>1. i \in 1..Len(fl) /\ ~(StillOpen(fl, PnpmEnds, i) /\ l.word \notin PnpmEnds)
  OBVIOUS
<1> HIDE DEF i
<1>2. PnpmIntegrity(Append(fl, l), i) = PnpmIntegrity(fl, i)
      /\ PnpmResolved(Append(fl, l), i) = PnpmResolved(fl, i)
  <2> DEFINE open == StillOpen(fl, PnpmEnds, i) /\ l.word \notin PnpmEnds
             more == \/ l.word = "resolution" /\ l.val
                     \/ /\ l.word = "integrity"
                        /\ i < Len(fl) /\ fl[Len(fl)].word = "resolution"
  <2>1. /\ PnpmIntegrity(Append(fl, l), i)
             = PnpmIntegrity(fl, i) \cup (IF open /\ more THEN {Len(fl) + 1} ELSE {})
        /\ PnpmResolved(Append(fl, l), i)
             = PnpmResolved(fl, i)
                 \cup (IF open /\ l.word = "resolved" THEN {Len(fl) + 1} ELSE {})
    BY <1>1, PnpmStatesGrow, ZenonT(60)
  <2>2. ~open
    BY <1>1, Zenon
  <2> HIDE DEF open, more
  <2> QED BY <2>1, <2>2
<1> QED BY <1>2, Zenon DEF PnpmSays, i

\* What is known of a line of pnpm by its word.
LEMMA PnpmWordIs ==
  ASSUME NEW l \in Pnpm!Line
  PROVE  /\ l.word \in {"resolution", "resolved"} => l.indent = 4 /\ l.val \in BOOLEAN
         /\ l.word = "integrity" => l.indent = 6 /\ l.val \in BOOLEAN
         /\ l.word = "blank" => l.indent = 0
         /\ l.word = "key" => l.indent = 2
         /\ l.indent = 8 => l.word = "other"
         /\ l.indent \in {4, 6} => l.word \in {"resolution", "resolved", "integrity", "other"}
         /\ l.indent = 3 => l.word = "other"
<1>1. CASE l \in [indent : {0}, word : {"blank", "packages", "text", "long"}, val : {FALSE}]
  BY <1>1
<1>2. CASE l \in [indent : {2}, word : {"key"}, key : Pnpm!AllKeys]
  BY <1>2
<1>3. CASE l \in [indent : {2}, word : {"line"}, val : {FALSE}]
  BY <1>3
<1>4. CASE l \in [indent : {3}, word : {"other"}, val : {FALSE}]
  BY <1>4
<1>5. CASE \/ l \in [indent : {4}, word : {"resolution"}, val : BOOLEAN, tarball : BOOLEAN]
           \/ l \in [indent : {4}, word : {"resolved"}, val : BOOLEAN]
  <2>1. CASE l \in [indent : {4}, word : {"resolution"}, val : BOOLEAN, tarball : BOOLEAN]
    BY <2>1
  <2>2. CASE l \in [indent : {4}, word : {"resolved"}, val : BOOLEAN]
    BY <2>2
  <2> QED BY <1>5, <2>1, <2>2
<1>6. CASE l \in [indent : {4}, word : {"other"}, val : {FALSE}]
  BY <1>6
<1>7. CASE l \in [indent : {6}, word : {"integrity"}, val : BOOLEAN]
  BY <1>7
<1>8. CASE l \in [indent : {6, 8}, word : {"other"}, val : {FALSE}]
  BY <1>8
<1> QED BY <1>1, <1>2, <1>3, <1>4, <1>5, <1>6, <1>7, <1>8, Zenon DEF Pnpm!Line

\* After its key a block has properties, and at the end a blank line.
PnpmProperties(fl, i) ==
  \A j \in i+1..Len(fl) : fl[j].indent \in {4, 6, 8} \/ (j = Len(fl) /\ fl[j].word = "blank")

\* What the parser waits for at the end of a block that pnpm writes: nothing
\* after a property that it does not know, and an integrity after a resolution
\* without a value.
PnpmOpen(fl, i, waits) ==
  /\ PnpmProperties(fl, i)
  /\ \A j \in i+1..Len(fl) :
       /\ fl[j].indent = 4 /\ fl[j].word = "other"
       /\ \A k \in j+1..Len(fl) : fl[k].indent # 4
       => ~waits
  /\ i < Len(fl) /\ fl[Len(fl)].word = "resolution" => (waits <=> ~fl[Len(fl)].val)
  /\ waits => PnpmIntegrity(fl, i) = {}

\* What pnpm writes next, in words of the block that it writes.
LEMMA PnpmWritesBlock ==
  ASSUME file \in Seq(Pnpm!Line), NEW i \in 1..Len(file), file[i].word = "key",
         PnpmProperties(file, i)
  PROVE  LET n == Len(file)
             props == {j \in i+1..n : file[j].indent = 4}
         IN  /\ Pnpm!at = file[n].word
             /\ Pnpm!properties = (IF file[n].word = "blank" THEN {} ELSE props)
             /\ Pnpm!openProperty = "other" =>
                  /\ file[n].word # "blank"
                  /\ \E p \in props : /\ file[p].word = "other"
                                      /\ \A k \in p+1..n : file[k].indent # 4
             /\ i < n /\ file[n].word = "resolution" =>
                  Pnpm!openProperty = "none" \/ (Pnpm!openProperty = "resolution" /\ file[n].val # TRUE)
<1> DEFINE n == Len(file)
           T == {0} \cup {k \in DOMAIN file : file[k].indent < 4}
           props == {j \in i+1..n : file[j].indent = 4}
           m == Max(T)
<1>1. n \in Nat /\ DOMAIN file = 1..n /\ file # <<>> /\ i \in Nat /\ i <= n /\ i >= 1
  OBVIOUS
<1>2. \A k \in 1..n : file[k] \in Pnpm!Line
  OBVIOUS
<1>3. /\ \A S : Pnpm!Max(S) = Max(S)
      /\ Pnpm!blockStart = m
  BY Zenon DEF Pnpm!Max, Max, Pnpm!blockStart
<1>4. m \in T /\ \A k \in T : m >= k
  <2>1. T \in SUBSET (0..n) /\ T # {}
    BY <1>1
  <2> QED BY <1>1, <2>1, GreatestNatural, Zenon
<1>5. Pnpm!at = file[n].word
  BY <1>1, Zenon DEF Pnpm!at
<1>6. file[i].indent = 2
  BY <1>1, <1>2, PnpmWordIs, Zenon
<1>7. \A j \in i+1..n : file[j].indent \in {4, 6, 8} \/ (j = n /\ file[j].word = "blank")
  BY Zenon DEF PnpmProperties
<1>8. Pnpm!properties = {j \in m+1..n : file[j].indent = 4}
  BY <1>3, Zenon DEF Pnpm!properties
<1> HIDE DEF m
<1>9. CASE file[n].word = "blank"
  <2>1. file[n].indent = 0
    BY <1>1, <1>2, <1>9, PnpmWordIs
  <2>2. n \in T
    BY <1>1, <2>1
  <2>3. m = n
    <3>1. m >= n
      BY <1>4, <2>2, Zenon
    <3>2. m \in 0..n
      BY <1>1, <1>4
    <3>3. n \in Nat
      BY <1>1
    <3> HIDE DEF n
    <3> QED BY <3>1, <3>2, <3>3
  <2>4. Pnpm!properties = {}
    BY <1>1, <1>8, <2>3
  <2>5. Pnpm!openProperty = "none"
    BY <2>4, Zenon DEF Pnpm!openProperty
  <2> QED BY <1>5, <1>9, <2>4, <2>5
<1>10. CASE file[n].word # "blank"
  <2>1. i \in T
    BY <1>1, <1>6
  <2>2. m = i
    <3>1. m >= i
      BY <1>4, <2>1, Zenon
    <3>2. ASSUME m \in i+1..n PROVE FALSE
      <4>1. file[m].indent \in {4, 6, 8}
        BY <1>7, <1>10, <3>2
      <4>2. m # 0 /\ m \in T
        BY <1>1, <1>4, <3>2
      <4> QED BY <4>1, <4>2
    <3>3. m \in 0..n
      BY <1>1, <1>4
    <3> QED BY <1>1, <3>1, <3>2, <3>3
  <2>3. Pnpm!properties = props
    BY <1>8, <2>2, Zenon
  <2> DEFINE p == Max(props)
  <2>4. ASSUME props # {} PROVE p \in props /\ \A k \in props : p >= k
    <3>1. props \in SUBSET (0..n)
      BY <1>1
    <3> QED BY <1>1, <2>4, <3>1, GreatestNatural, Zenon
  <2>5. Pnpm!openProperty
          = IF props = {} \/ Pnpm!Values(file[p]) # {} THEN "none" ELSE file[p].word
    BY <1>3, <2>3, Zenon DEF Pnpm!openProperty
  <2> HIDE DEF p
  <2>6. ASSUME Pnpm!openProperty = "other"
        PROVE  /\ file[n].word # "blank"
               /\ \E q \in props : /\ file[q].word = "other"
                                   /\ \A k \in q+1..n : file[k].indent # 4
    <3>1. props # {} /\ file[p].word = "other"
      BY <2>5, <2>6
    <3>2. p \in props /\ \A k \in props : p >= k
      BY <2>4, <3>1, Zenon
    <3>3. \A k \in p+1..n : file[k].indent # 4
      BY <1>1, <3>2
    <3> QED BY <1>10, <3>1, <3>2, <3>3
  <2>7. ASSUME i < n, file[n].word = "resolution"
        PROVE  Pnpm!openProperty = "none" \/ (Pnpm!openProperty = "resolution" /\ file[n].val # TRUE)
    <3>1. n \in props
      BY <1>1, <1>2, <2>7, PnpmWordIs
    <3>2. p = n
      <4>1. props # {}
        BY <3>1
      <4>2. p \in props /\ p >= n
        BY <2>4, <3>1, <4>1, Zenon
      <4>3. p \in i+1..n
        BY <4>2
      <4>4. n \in Nat /\ i \in Nat
        BY <1>1
      <4> HIDE DEF n, props
      <4> QED BY <4>2, <4>3, <4>4
    <3>3. file[n].val = TRUE => Pnpm!Values(file[n]) # {}
      <4>1. file[n] \in Pnpm!Line /\ file[n].word \in {"resolution", "resolved"}
        BY <1>1, <1>2, <2>7
      <4> QED BY <4>1, PnpmExtracts, Zenon
    <3>4. Pnpm!openProperty = "none" \/ (Pnpm!openProperty = "resolution" /\ Pnpm!Values(file[n]) = {})
      BY <2>5, <2>7, <3>1, <3>2
    <3> QED BY <3>3, <3>4
  <2> QED BY <1>5, <1>10, <2>3, <2>6, <2>7
<1> QED BY <1>9, <1>10

\* What a line is that pnpm writes.
LEMMA PnpmWritesIs ==
  ASSUME NEW l \in Pnpm!Line, Pnpm!PnpmWrites(l)
  PROVE  /\ l.word \notin {"line", "long"} /\ l.indent # 3
         /\ l.word = "packages" => "packages" \notin {w.word : w \in Pnpm!Range(file)}
         /\ l.word = "blank" => Pnpm!at # "blank"
         /\ l.indent = 4 => /\ Pnpm!at # "blank"
                            /\ \/ l.word = "other"
                               \/ l.word \notin {file[i].word : i \in Pnpm!properties}
                            /\ l.word = "resolved" => l.val
         /\ l.indent = 6 => \/ Pnpm!openProperty = "other"
                            \/ /\ Pnpm!openProperty = "resolution" /\ Pnpm!at = "resolution"
                               /\ l.word = "integrity" /\ l.val
         /\ l.indent = 8 => Pnpm!openProperty = "other"
<1>1. /\ l.indent \in {0, 2, 3, 4, 6, 8}
      /\ l.indent = 0 <=> l.word \in {"blank", "packages", "text", "long"}
      /\ l.indent = 2 <=> l.word \in {"key", "line"}
  BY PnpmLineIs, Zenon
<1> DEFINE A == "packages" \notin {w.word : w \in Pnpm!Range(file)}
           B == file # <<>> /\ Pnpm!at # "blank"
           C == Pnpm!at = "blank" \/ file = <<>>
           D == Pnpm!at = "blank" /\ inPackages /\ l.key \notin Pnpm!MalformedKeys
           E == /\ inPackages /\ Pnpm!at # "blank" /\ Pnpm!at # "packages"
                /\ l.word = "other" \/ l.word \notin {file[i].word : i \in Pnpm!properties}
                /\ l.word = "resolved" => l.val
           F == \/ Pnpm!openProperty = "other"
                \/ Pnpm!openProperty = "resolution" /\ Pnpm!at = "resolution"
                     /\ l.word = "integrity" /\ l.val
           G == Pnpm!openProperty = "other" /\ file[Len(file)].indent > 4
<1>2. (CASE l.word = "packages" -> A [] l.word = "blank" -> B [] l.word = "text" -> C
        [] l.word = "key" -> D [] l.indent = 4 -> E [] l.indent = 6 -> F
        [] l.indent = 8 -> G [] OTHER -> FALSE)
  BY Zenon DEF Pnpm!PnpmWrites
<1> HIDE DEF A, B, C, D, E, F, G
<1>3. /\ l.word \notin {"line", "long"} /\ l.indent # 3
      /\ l.word = "packages" => A
      /\ l.word = "blank" => B
      /\ l.indent = 4 => E
      /\ l.indent = 6 => F
      /\ l.indent = 8 => G
  BY <1>1, <1>2
<1> QED BY <1>3, Zenon DEF A, B, E, F, G

\* What holds besides of a file that pnpm wrote: each entry has the values that
\* its block states, and all blocks but the last have ended.
PnpmWritten ==
  scope.written =>
    /\ ~resolvedPending
    /\ result # "rejected" =>
         \A k \in 1..Len(Pnpm!flushEntry) : PnpmSays(file, Pnpm!flushEntry[k])
    /\ result = "reading" =>
         /\ Closed(file, PnpmEnds, entries)
         /\ current # Nil => PnpmOpen(file, current.line, resolutionPending)

\* The entry that is being read.
LEMMA PnpmCurrent ==
  ASSUME PnpmInv, PnpmWritten, scope.written, result = "reading", current # Nil
  PROVE  /\ current \in Pnpm!Entry
         /\ current.line \in 1..Len(file) /\ file[current.line].word = "key"
         /\ StillOpen(file, PnpmEnds, current.line)
         /\ PnpmSays(file, current)
         /\ PnpmOpen(file, current.line, resolutionPending)
         /\ ~resolvedPending /\ resolutionPending \in BOOLEAN
<1>1. /\ entries \in Seq(Pnpm!Entry) /\ current \in Pnpm!Entry
  BY PnpmTypes, Zenon DEF PnpmInv
<1>2. Pnpm!flushEntry = Append(entries, current)
  BY Zenon DEF Pnpm!flushEntry
<1>3. result # "rejected"
  OBVIOUS
<1> DEFINE L == Append(entries, current)
<1>4. Len(entries) + 1 \in 1..Len(L) /\ L[Len(entries) + 1] = current
  BY <1>1, AppendIs
<1> HIDE DEF L
<1>5. PnpmEntry(file, current)
  BY <1>2, <1>4, Zenon DEF PnpmInv, PnpmEntries, L
<1>6. PnpmSays(file, current)
  BY <1>2, <1>3, <1>4, Zenon DEF PnpmWritten, L
<1>7. StillOpen(file, PnpmEnds, current.line)
  BY <1>3, Zenon DEF PnpmInv
<1>8. resolutionPending \in BOOLEAN
  BY Zenon DEF PnpmInv, Pnpm!TypeOK
<1> QED BY <1>1, <1>5, <1>6, <1>7, <1>8, Zenon DEF PnpmEntry, PnpmWritten

\* A line that is read within a block, and what it leaves of the entry.
LEMMA PnpmLineKeeps ==
  ASSUME PnpmInv, PnpmWritten, scope.written, NEW l \in Pnpm!Line, Pnpm!Read(l),
         entries' = entries, ~resolvedPending',
         current = Nil => current' = Nil,
         current # Nil => /\ current' # Nil /\ current'.line = current.line
                          /\ PnpmSays(file', current')
                          /\ PnpmOpen(file', current'.line, resolutionPending')
  PROVE  PnpmWritten'
<1>1. result = "reading" /\ scope' = scope /\ file' = Append(file, l)
  BY PnpmRead, Zenon
<1>2. /\ file \in Seq(Pnpm!Line) /\ entries \in Seq(Pnpm!Entry) /\ Len(entries) \in Nat
      /\ current # Nil => current \in Pnpm!Entry
  BY PnpmTypes, Zenon DEF PnpmInv
<1>3. ASSUME NEW k \in 1..Len(entries)
      PROVE  /\ PnpmSays(file', entries[k])
             /\ ~StillOpen(file', PnpmEnds, entries[k].line)
  <2>1. k \in 1..Len(Pnpm!flushEntry) /\ Pnpm!flushEntry[k] = entries[k]
    <3>1. CASE current = Nil
      BY <3>1, Zenon DEF Pnpm!flushEntry
    <3>2. CASE current # Nil
      <4>1. k \in 1..Len(Append(entries, current)) /\ Append(entries, current)[k] = entries[k]
        BY <1>2, <3>2, AppendIs
      <4> QED BY <3>2, <4>1, Zenon DEF Pnpm!flushEntry
    <3> QED BY <3>1, <3>2
  <2>2. result # "rejected"
    BY <1>1
  <2>3. PnpmSays(file, entries[k]) /\ entries[k].line \in 1..Len(file)
    BY <2>1, <2>2, Zenon DEF PnpmWritten, PnpmInv, PnpmEntries, PnpmEntry
  <2>4. ~StillOpen(file, PnpmEnds, entries[k].line)
    BY <1>1, Zenon DEF PnpmWritten, Closed
  <2> QED BY <1>1, <1>2, <2>3, <2>4, PnpmSaysStays, ClosedStays, Zenon
<1>4. \A k \in 1..Len(Pnpm!flushEntry') : PnpmSays(file', Pnpm!flushEntry'[k])
  <2>1. CASE current = Nil
    BY <1>3, <2>1, Zenon DEF Pnpm!flushEntry
  <2>2. CASE current # Nil
    <3> DEFINE M == Append(entries, current')
    <3>1. Pnpm!flushEntry' = M
      BY <2>2, Zenon DEF Pnpm!flushEntry
    <3>2. Len(M) = Len(entries) + 1 /\ (\A k \in 1..Len(entries) : M[k] = entries[k])
          /\ M[Len(entries) + 1] = current'
      BY <1>2
    <3> HIDE DEF M
    <3>3. \A k \in 1..Len(M) : k \in 1..Len(entries) \/ k = Len(entries) + 1
      BY <1>2, <3>2
    <3>4. \A k \in 1..Len(M) : PnpmSays(file', M[k])
      BY <1>3, <2>2, <3>2, <3>3, Zenon
    <3> QED BY <3>1, <3>4, Zenon
  <2> QED BY <2>1, <2>2
<1>5. Closed(file', PnpmEnds, entries')
  BY <1>3, Zenon DEF Closed
<1> QED BY <1>1, <1>4, <1>5, Zenon DEF PnpmWritten

\* A block goes on with a property or a blank line.
LEMMA PnpmPropertiesGrow ==
  ASSUME NEW fl \in Seq(Pnpm!Line), NEW l \in Pnpm!Line, NEW i \in 1..Len(fl),
         PnpmProperties(fl, i), fl[Len(fl)].word # "blank",
         l.indent \in {4, 6, 8} \/ l.word = "blank"
  PROVE  PnpmProperties(Append(fl, l), i)
<1>1. Len(fl) \in Nat
  OBVIOUS
<1> DEFINE g == Append(fl, l)
           n == Len(fl)
<1>2. Len(g) = n + 1 /\ (\A k \in 1..n : g[k] = fl[k]) /\ g[n + 1] = l
  BY AppendIs
<1> HIDE DEF g
<1>3. ASSUME NEW j \in i+1..Len(g)
      PROVE  g[j].indent \in {4, 6, 8} \/ (j = Len(g) /\ g[j].word = "blank")
  <2>1. CASE j = n + 1
    BY <1>2, <2>1
  <2>2. CASE j \in i+1..n
    <3>1. g[j] = fl[j]
      BY <1>1, <1>2, <2>2
    <3>2. fl[j].indent \in {4, 6, 8}
      BY <2>2, Zenon DEF PnpmProperties
    <3> QED BY <3>1, <3>2
  <2> QED BY <1>1, <1>2, <2>1, <2>2
<1> QED BY <1>3, Zenon DEF PnpmProperties, g

\* What a line that pnpm writes within a block finds there.
LEMMA PnpmWithin ==
  ASSUME PnpmInv, PnpmWritten, scope.written, NEW l \in Pnpm!Line, Pnpm!Read(l),
         current # Nil, l.indent \in {4, 6, 8} \/ l.word = "blank"
  PROVE  LET n == Len(file)
             i == current.line
             props == {j \in i+1..n : file[j].indent = 4}
         IN  /\ n \in Nat /\ i \in 1..n /\ file \in Seq(Pnpm!Line)
             /\ file' = Append(file, l) /\ Len(file') = n + 1 /\ file'[n + 1] = l
             /\ \A k \in 1..n : file'[k] = file[k]
             /\ Pnpm!here = n + 1
             /\ file[n].word # "blank"
             /\ PnpmProperties(file', i)
             /\ l.indent = 4 => /\ \/ l.word = "other"
                                   \/ l.word \notin {file[j].word : j \in props}
                                /\ l.word = "resolved" => l.val
             /\ l.indent \in {6, 8} =>
                  \/ /\ ~resolutionPending
                     /\ ~(i < n /\ file[n].word = "resolution")
                  \/ /\ resolutionPending /\ i < n /\ file[n].word = "resolution"
                     /\ l.indent = 6 /\ l.word = "integrity" /\ l.val
             /\ PnpmIntegrity(file', i)
                  = PnpmIntegrity(file, i)
                      \cup (IF \/ l.word = "resolution" /\ l.val
                               \/ l.word = "integrity" /\ i < n /\ file[n].word = "resolution"
                              THEN {n + 1} ELSE {})
             /\ PnpmResolved(file', i)
                  = PnpmResolved(file, i) \cup (IF l.word = "resolved" THEN {n + 1} ELSE {})
<1> DEFINE n == Len(file)
           i == current.line
           props == {j \in i+1..n : file[j].indent = 4}
<1>1. /\ file' = Append(file, l) /\ Len(file') = n + 1 /\ file'[Len(file')] = l
      /\ Pnpm!here = n + 1 /\ result = "reading"
  BY PnpmRead, Zenon
<1>2. file \in Seq(Pnpm!Line) /\ n \in Nat
  BY PnpmTypes, Zenon DEF PnpmInv
<1>3. /\ i \in 1..n /\ file[i].word = "key" /\ StillOpen(file, PnpmEnds, i)
      /\ PnpmOpen(file, i, resolutionPending) /\ resolutionPending \in BOOLEAN
  BY <1>1, PnpmCurrent, Zenon
<1>4. \A k \in 1..n : file'[k] = file[k]
  BY <1>1, <1>2, AppendIs
<1>5. PnpmProperties(file, i)
  BY <1>3, Zenon DEF PnpmOpen
<1>6. Pnpm!PnpmWrites(l)
  BY Zenon DEF Pnpm!Read
<1>7. /\ l.word = "blank" => Pnpm!at # "blank"
      /\ l.indent = 4 => /\ Pnpm!at # "blank"
                         /\ \/ l.word = "other"
                            \/ l.word \notin {file[j].word : j \in Pnpm!properties}
                         /\ l.word = "resolved" => l.val
      /\ l.indent = 6 => \/ Pnpm!openProperty = "other"
                         \/ /\ Pnpm!openProperty = "resolution" /\ Pnpm!at = "resolution"
                            /\ l.word = "integrity" /\ l.val
      /\ l.indent = 8 => Pnpm!openProperty = "other"
  BY <1>6, PnpmWritesIs, Zenon
<1>8. /\ Pnpm!at = file[n].word
      /\ Pnpm!properties = (IF file[n].word = "blank" THEN {} ELSE props)
      /\ Pnpm!openProperty = "other" =>
           /\ file[n].word # "blank"
           /\ \E p \in props : /\ file[p].word = "other"
                               /\ \A k \in p+1..n : file[k].indent # 4
      /\ i < n /\ file[n].word = "resolution" =>
           Pnpm!openProperty = "none" \/ (Pnpm!openProperty = "resolution" /\ file[n].val # TRUE)
  BY <1>2, <1>3, <1>5, PnpmWritesBlock, ZenonT(60)
<1>9. file[n].word # "blank"
  BY <1>7, <1>8
<1>10. PnpmProperties(file', i)
  BY <1>1, <1>2, <1>3, <1>5, <1>9, PnpmPropertiesGrow, Zenon
<1>11. Pnpm!properties = props
  BY <1>8, <1>9
<1>12. ASSUME Pnpm!openProperty = "other"
       PROVE  ~resolutionPending /\ ~(i < n /\ file[n].word = "resolution")
  <2>1. PICK p \in props : file[p].word = "other" /\ \A k \in p+1..n : file[k].indent # 4
    BY <1>8, <1>12, Zenon
  <2>2. p \in i+1..n /\ file[p].indent = 4
    BY <2>1
  <2>3. ~resolutionPending
    BY <1>3, <2>1, <2>2, Zenon DEF PnpmOpen
  <2>4. ~(i < n /\ file[n].word = "resolution")
    BY <1>8, <1>12
  <2> QED BY <2>3, <2>4
<1>13. ASSUME Pnpm!openProperty = "resolution", Pnpm!at = "resolution"
       PROVE  resolutionPending /\ i < n /\ file[n].word = "resolution"
  <2>1. file[n].word = "resolution"
    BY <1>8, <1>13, Zenon
  <2>2. i < n
    <3>1. i # n
      BY <1>3, <2>1
    <3> HIDE DEF n, i
    <3> QED BY <1>2, <1>3, <3>1
  <2>3. file[n].val # TRUE
    BY <1>8, <1>13, <2>1, <2>2
  <2>4. resolutionPending
    BY <1>3, <2>1, <2>2, <2>3, Zenon DEF PnpmOpen
  <2> QED BY <2>1, <2>2, <2>4
<1>14. /\ l.indent \in {4, 6} => l.word \in {"resolution", "resolved", "integrity", "other"}
       /\ l.indent = 8 => l.word = "other"
  BY PnpmWordIs, Zenon
<1>15. l.word \notin PnpmEnds
  BY <1>14 DEF PnpmEnds
<1> DEFINE open == StillOpen(file, PnpmEnds, i) /\ l.word \notin PnpmEnds
           more == \/ l.word = "resolution" /\ l.val
                   \/ l.word = "integrity" /\ i < n /\ file[n].word = "resolution"
<1>16. open
  BY <1>3, <1>15
<1>17. /\ PnpmIntegrity(file', i)
            = PnpmIntegrity(file, i) \cup (IF open /\ more THEN {n + 1} ELSE {})
       /\ PnpmResolved(file', i)
            = PnpmResolved(file, i)
                \cup (IF open /\ l.word = "resolved" THEN {n + 1} ELSE {})
  BY <1>1, <1>2, <1>3, PnpmStatesGrow, ZenonT(60)
<1> HIDE DEF open
<1>18. /\ PnpmIntegrity(file', i)
            = PnpmIntegrity(file, i) \cup (IF more THEN {n + 1} ELSE {})
       /\ PnpmResolved(file', i)
            = PnpmResolved(file, i) \cup (IF l.word = "resolved" THEN {n + 1} ELSE {})
  <2> HIDE DEF more, n
  <2> QED BY <1>16, <1>17
<1>19. l.indent \in {6, 8} =>
         \/ ~resolutionPending /\ ~(i < n /\ file[n].word = "resolution")
         \/ /\ resolutionPending /\ i < n /\ file[n].word = "resolution"
            /\ l.indent = 6 /\ l.word = "integrity" /\ l.val
  <2> HIDE DEF n, i
  <2>1. CASE l.indent = 6
    BY <1>7, <1>12, <1>13, <2>1, Zenon
  <2>2. CASE l.indent = 8
    BY <1>7, <1>12, <2>2, Zenon
  <2> QED BY <2>1, <2>2
<1>20. l.indent = 4 => /\ \/ l.word = "other"
                          \/ l.word \notin {file[j].word : j \in props}
                       /\ l.word = "resolved" => l.val
  BY <1>7, <1>11, Zenon
<1>21. file'[n + 1] = l
  BY <1>1, Zenon
<1> QED BY <1>1, <1>2, <1>3, <1>4, <1>9, <1>10, <1>18, <1>19, <1>20, <1>21, Zenon DEF more

\* What a line leaves of what the parser waits for.
LEMMA PnpmOpenGrows ==
  ASSUME NEW fl, NEW i \in Nat, Len(fl) \in Nat, i < Len(fl), PnpmProperties(fl, i),
         NEW waits \in BOOLEAN, NEW was \in BOOLEAN,
         LET l == fl[Len(fl)]
         IN  /\ l.indent = 4 \/ ~waits
             /\ l.indent = 4 /\ l.word = "other" => ~waits
             /\ l.word = "resolution" => (waits <=> ~l.val)
             /\ waits => PnpmIntegrity(fl, i) = {}
  PROVE  PnpmOpen(fl, i, waits)
<1> DEFINE n == Len(fl)
<1>1. ASSUME NEW j \in i+1..n, fl[j].indent = 4, fl[j].word = "other",
             \A k \in j+1..n : fl[k].indent # 4
      PROVE  ~waits
  <2>1. CASE j = n
    BY <1>1, <2>1
  <2>2. CASE j # n
    <3>1. n \in j+1..n
      BY <2>2
    <3> QED BY <1>1, <3>1
  <2> QED BY <2>1, <2>2
<1> QED BY <1>1, Zenon DEF PnpmOpen

\* The values that an entry is given.
LEMMA PnpmGiven ==
  ASSUME Pnpm!TypeOK, current # Nil, NEW x \in Nat
  PROVE  LET c == [current EXCEPT !.integrity = x]
             d == [current EXCEPT !.resolved = x]
         IN  /\ c # Nil /\ c.line = current.line
             /\ c.integrity = x /\ c.resolved = current.resolved
             /\ d # Nil /\ d.line = current.line
             /\ d.integrity = current.integrity /\ d.resolved = x
<1>1. current \in Pnpm!Entry /\ scope.lines \in Nat
  BY PnpmTypes, Zenon
<1>2. current \in Pnpm!Entries(Nat)
  BY <1>1 DEF Pnpm!Entry, Pnpm!Entries, Pnpm!Place
<1>3. Nil \notin Pnpm!Entries(Nat)
  BY ParsersAssumption, Zenon DEF ParsersAssumption, Pnpm!ParserAssumption
<1>4. \A e \in Pnpm!Entries(Nat) : e # Nil
  BY <1>3
<1>5. /\ [current EXCEPT !.integrity = x] \in Pnpm!Entries(Nat)
      /\ [current EXCEPT !.resolved = x] \in Pnpm!Entries(Nat)
  BY <1>2 DEF Pnpm!Entries
<1>6. DOMAIN current = {"line", "name", "version", "integrity", "resolved"}
  BY <1>2 DEF Pnpm!Entries
<1> QED BY <1>4, <1>5, <1>6

\* A property.
LEMMA PnpmPropertyWritten ==
  ASSUME PnpmInv, PnpmWritten, scope.written, NEW l \in Pnpm!Line, Pnpm!Read(l),
         ~Pnpm!Rejected(l), Pnpm!Property(l)
  PROVE  PnpmWritten'
<1> DEFINE n == Len(file)
           i == current.line
           props == {j \in i+1..n : file[j].indent = 4}
<1>1. inPackages /\ l.indent = 4 /\ entries' = entries
  BY Zenon DEF Pnpm!Property
<1>2. current # Nil
  <2>1. l.indent \in {4, 6}
    BY <1>1
  <2> QED BY <1>1, <2>1, Zenon DEF Pnpm!Rejected
<1>3. result = "reading" /\ Nil \notin Pnpm!Entry
  BY PnpmRead, PnpmTypes, Zenon DEF PnpmInv
<1>4. /\ current \in Pnpm!Entry /\ ~resolvedPending /\ resolutionPending \in BOOLEAN
      /\ Only(PnpmIntegrity(file, i), current.integrity)
      /\ Only(PnpmResolved(file, i), current.resolved)
      /\ PnpmOpen(file, i, resolutionPending)
  BY <1>2, <1>3, PnpmCurrent, Zenon DEF PnpmSays
<1>5. /\ n \in Nat /\ i \in 1..n /\ Len(file') = n + 1 /\ file'[n + 1] = l
      /\ file \in Seq(Pnpm!Line)
      /\ Pnpm!here = n + 1 /\ PnpmProperties(file', i)
      /\ l.word = "other" \/ l.word \notin {file[j].word : j \in props}
      /\ l.word = "resolved" => l.val
      /\ PnpmIntegrity(file', i)
           = PnpmIntegrity(file, i)
               \cup (IF \/ l.word = "resolution" /\ l.val
                        \/ l.word = "integrity" /\ i < n /\ file[n].word = "resolution"
                       THEN {n + 1} ELSE {})
      /\ PnpmResolved(file', i)
           = PnpmResolved(file, i) \cup (IF l.word = "resolved" THEN {n + 1} ELSE {})
  <2>1. l.indent \in {4, 6, 8}
    BY <1>1
  <2> QED BY <1>1, <1>2, <2>1, PnpmWithin, ZenonT(60)
<1>6. Pnpm!TypeOK
  BY Zenon DEF PnpmInv
<1>7. \A j \in 1..n : file[j] \in Pnpm!Line
  BY <1>5
<1>8. Own(file, PnpmEnds, i) \subseteq i+1..n
  BY <1>5, OwnRange
<1>9. i \in Nat /\ i < Len(file') /\ Len(file') \in Nat /\ file'[Len(file')] = l
  BY <1>5
<1>10. ASSUME current' # Nil, current'.line = i, ~resolvedPending',
              Only(PnpmIntegrity(file', i), current'.integrity),
              Only(PnpmResolved(file', i), current'.resolved),
              PnpmOpen(file', i, resolutionPending')
       PROVE  PnpmWritten'
  <2>1. PnpmSays(file', current')
    BY <1>10, Zenon DEF PnpmSays
  <2> QED BY <1>1, <1>2, <1>10, <2>1, PnpmLineKeeps, Zenon
<1> DEFINE A == /\ current' = [current EXCEPT !.integrity = Pnpm!Given(l, @)]
                /\ resolutionPending' = (Pnpm!Extracted(l) = {}) /\ UNCHANGED resolvedPending
           B == /\ current' = [current EXCEPT !.resolved = Pnpm!Given(l, @)]
                /\ resolvedPending' = (Pnpm!Extracted(l) = {}) /\ UNCHANGED resolutionPending
           C == /\ resolutionPending' = FALSE /\ resolvedPending' = FALSE /\ UNCHANGED current
<1>11. \/ l.word = "resolution" /\ A
       \/ l.word = "resolved" /\ B
       \/ l.word = "other" /\ C
  <2>1. (CASE l.word = "resolution" -> A [] l.word = "resolved" -> B [] l.word = "other" -> C)
    BY Zenon DEF Pnpm!Property
  <2>2. l.word \in {"resolution", "resolved", "other"}
    BY <1>1, PnpmLineIs, Zenon
  <2> HIDE DEF A, B, C
  <2> QED BY <2>1, <2>2
<1>12. CASE l.word = "resolution" /\ A
  <2>1. l.val \in BOOLEAN
    BY <1>12, PnpmWordIs
  <2>2. PnpmIntegrity(file, i) = {}
    <3>1. ASSUME NEW j \in Own(file, PnpmEnds, i) PROVE file[j].word # "resolution"
      <4>1. j \in i+1..n /\ j \in 1..n
        BY <1>5, <1>8
      <4>2. file[j].word = "resolution" => file[j].indent = 4
        BY <1>7, <4>1, PnpmWordIs, Zenon
      <4> QED BY <1>5, <1>12, <4>1, <4>2
    <3> QED BY <3>1, Zenon DEF PnpmIntegrity
  <2>3. current.integrity = 0
    BY <1>4, <2>2 DEF Only
  <2>4. /\ current'.integrity = (IF l.val THEN n + 1 ELSE 0)
        /\ current'.line = i /\ current'.resolved = current.resolved
        /\ current' # Nil /\ ~resolvedPending' /\ resolutionPending' = ~l.val
    <3> DEFINE x == IF l.val THEN n + 1 ELSE 0
    <3>1. current' = [current EXCEPT !.integrity = x]
      <4>1. Pnpm!Given(l, 0) = x
        BY <1>5, <1>12, PnpmExtracts, Zenon
      <4> QED BY <1>12, <2>3, <4>1, Zenon
    <3>2. x \in Nat
      BY <1>5
    <3> HIDE DEF x
    <3>3. /\ current'.integrity = x /\ current'.line = i
          /\ current'.resolved = current.resolved /\ current' # Nil
      BY <1>2, <1>6, <3>1, <3>2, PnpmGiven, Zenon
    <3>4. (Pnpm!Extracted(l) = {}) = (~l.val)
      BY <1>12, PnpmExtracts, Zenon
    <3> QED BY <1>4, <1>12, <3>3, <3>4, Zenon DEF x
  <2>5. PnpmIntegrity(file', i) = (IF l.val THEN {n + 1} ELSE {})
        /\ PnpmResolved(file', i) = PnpmResolved(file, i)
    <3> HIDE DEF n, i
    <3> QED BY <1>5, <1>12, <2>2
  <2>6. Only(PnpmIntegrity(file', i), current'.integrity)
    BY <2>4, <2>5 DEF Only
  <2>7. Only(PnpmResolved(file', i), current'.resolved)
    BY <1>4, <2>4, <2>5, Zenon
  <2>8. PnpmOpen(file', i, resolutionPending')
    <3>1. resolutionPending' \in BOOLEAN
      BY <2>1, <2>4
    <3>2. resolutionPending' => PnpmIntegrity(file', i) = {}
      BY <2>4, <2>5
    <3>3. l.word = "resolution" /\ l.word # "other" /\ (resolutionPending' <=> ~l.val)
      BY <1>12, <2>4
    <3> HIDE DEF n, i
    <3> QED BY <1>1, <1>5, <1>9, <3>1, <3>2, <3>3, PnpmOpenGrows, ZenonT(60)
  <2> QED BY <1>10, <2>4, <2>6, <2>7, <2>8, Zenon
<1>13. CASE l.word = "resolved" /\ B
  <2>1. PnpmResolved(file, i) = {}
    <3>1. ASSUME NEW j \in Own(file, PnpmEnds, i) PROVE file[j].word # "resolved"
      <4>1. j \in i+1..n /\ j \in 1..n
        BY <1>5, <1>8
      <4>2. file[j].word = "resolved" => file[j].indent = 4
        BY <1>7, <4>1, PnpmWordIs, Zenon
      <4> QED BY <1>5, <1>13, <4>1, <4>2
    <3> QED BY <3>1, Zenon DEF PnpmResolved
  <2>2. /\ current'.integrity = current.integrity /\ current'.resolved = n + 1
        /\ current'.line = i /\ current' # Nil /\ ~resolvedPending'
        /\ resolutionPending' = resolutionPending
    <3>1. current' = [current EXCEPT !.resolved = n + 1]
      <4>1. Pnpm!Given(l, current.resolved) = n + 1
        <5>1. l.word \in {"resolution", "resolved"} /\ l.val /\ Pnpm!here = n + 1
          BY <1>5, <1>13
        <5>2. \A o : Pnpm!Given(l, o) = IF l.val THEN Pnpm!here ELSE o
          BY <5>1, PnpmExtracts, Zenon
        <5> HIDE DEF n
        <5> QED BY <5>1, <5>2
      <4>2. current' = [current EXCEPT !.resolved = Pnpm!Given(l, current.resolved)]
        BY <1>13, Zenon
      <4> HIDE DEF n
      <4> QED BY <4>1, <4>2
    <3>2. n + 1 \in Nat
      BY <1>5
    <3>3. /\ current'.integrity = current.integrity /\ current'.line = i
          /\ current'.resolved = n + 1 /\ current' # Nil
      BY <1>2, <1>6, <3>1, <3>2, PnpmGiven, Zenon
    <3>4. (Pnpm!Extracted(l) = {}) = (~l.val)
      BY <1>13, PnpmExtracts, Zenon
    <3> QED BY <1>5, <1>13, <3>3, <3>4, Zenon
  <2>3. PnpmIntegrity(file', i) = PnpmIntegrity(file, i) /\ PnpmResolved(file', i) = {n + 1}
    <3> HIDE DEF n, i
    <3> QED BY <1>5, <1>13, <2>1
  <2>4. Only(PnpmResolved(file', i), current'.resolved)
    BY <2>2, <2>3 DEF Only
  <2>5. Only(PnpmIntegrity(file', i), current'.integrity)
    BY <1>4, <2>2, <2>3, Zenon
  <2>6. PnpmOpen(file', i, resolutionPending')
    <3>1. resolutionPending' => PnpmIntegrity(file', i) = {}
      BY <1>4, <2>2, <2>3, Zenon DEF PnpmOpen
    <3>2. l.word # "other" /\ l.word # "resolution"
      BY <1>13
    <3> QED BY <1>1, <1>4, <1>5, <1>9, <2>2, <3>1, <3>2, PnpmOpenGrows, ZenonT(60)
  <2> QED BY <1>10, <2>2, <2>4, <2>5, <2>6, Zenon
<1>14. CASE l.word = "other" /\ C
  <2>1. PnpmIntegrity(file', i) = PnpmIntegrity(file, i)
        /\ PnpmResolved(file', i) = PnpmResolved(file, i)
    <3> HIDE DEF n, i
    <3> QED BY <1>5, <1>14
  <2>2. /\ current' = current /\ resolutionPending' = FALSE /\ resolvedPending' = FALSE
    BY <1>14
  <2>3. l.word # "resolution" /\ FALSE \in BOOLEAN
    BY <1>14
  <2>4. PnpmOpen(file', i, resolutionPending')
    BY <1>1, <1>5, <1>9, <2>2, <2>3, PnpmOpenGrows, ZenonT(60)
  <2>5. Only(PnpmIntegrity(file', i), current'.integrity)
        /\ Only(PnpmResolved(file', i), current'.resolved)
    BY <1>4, <2>1, <2>2, Zenon
  <2> QED BY <1>2, <1>10, <2>2, <2>4, <2>5, Zenon
<1> QED BY <1>11, <1>12, <1>13, <1>14

\* A line below a property, and a blank one.
LEMMA PnpmLineWritten ==
  ASSUME PnpmInv, PnpmWritten, scope.written, NEW l \in Pnpm!Line, Pnpm!Read(l),
         ~Pnpm!Rejected(l),
         Pnpm!Blank(l) \/ Pnpm!Preamble(l) \/ Pnpm!SubProperty(l) \/ Pnpm!Skipped(l)
  PROVE  PnpmWritten'
<1> DEFINE n == Len(file)
           i == current.line
<1>1. entries' = entries
  BY Zenon DEF Pnpm!Blank, Pnpm!Preamble, Pnpm!SubProperty, Pnpm!Skipped, Pnpm!state
<1>2. result = "reading" /\ ~resolvedPending
  BY PnpmRead, Zenon DEF PnpmWritten
<1>3. l.word # "line" /\ l.word # "long"
  <2>1. Pnpm!PnpmWrites(l)
    BY Zenon DEF Pnpm!Read
  <2>2. l.word \notin {"line", "long"}
    BY <2>1, PnpmWritesIs, Zenon
  <2> QED BY <2>2
<1>4. CASE current = Nil
  <2>1. ~resolvedPending' /\ current' = Nil
    <3>1. CASE Pnpm!SubProperty(l)
      <4>1. inPackages /\ l.indent \in {4, 6}
        BY <3>1 DEF Pnpm!SubProperty
      <4> QED BY <1>4, <4>1, Zenon DEF Pnpm!Rejected
    <3>2. /\ Pnpm!Blank(l) => resolvedPending' = FALSE /\ current' = current
          /\ Pnpm!Preamble(l) => resolvedPending' = resolvedPending /\ current' = current
          /\ Pnpm!Skipped(l) => resolvedPending' = resolvedPending /\ current' = current
      BY Zenon DEF Pnpm!Blank, Pnpm!Preamble, Pnpm!Skipped, Pnpm!state
    <3> QED BY <1>2, <1>4, <3>1, <3>2
  <2> QED BY <1>1, <1>4, <2>1, PnpmLineKeeps, Zenon
<1>5. CASE current # Nil
  <2>1. /\ Only(PnpmIntegrity(file, i), current.integrity)
        /\ Only(PnpmResolved(file, i), current.resolved)
        /\ PnpmOpen(file, i, resolutionPending) /\ resolutionPending \in BOOLEAN
        /\ Pnpm!TypeOK
    BY <1>2, <1>5, PnpmCurrent, Zenon DEF PnpmSays, PnpmInv
  <2>2. inPackages
    BY <1>5, Zenon DEF PnpmInv
  <2>3. \/ l.word = "blank" /\ l.indent = 0 /\ Pnpm!Blank(l)
        \/ l.indent = 6 /\ Pnpm!SubProperty(l)
        \/ l.indent = 8 /\ Pnpm!Skipped(l)
    <3>1. l.word = "blank" => l.indent = 0
      BY PnpmWordIs, Zenon
    <3> QED BY <1>3, <2>2, <3>1, Zenon
              DEF Pnpm!Blank, Pnpm!Preamble, Pnpm!SubProperty, Pnpm!Skipped
  <2>4. l.indent \in {4, 6, 8} \/ l.word = "blank"
    BY <2>3
  <2>5. /\ n \in Nat /\ i \in 1..n /\ Len(file') = n + 1 /\ file'[n + 1] = l
        /\ Pnpm!here = n + 1 /\ PnpmProperties(file', i)
        /\ l.indent \in {6, 8} =>
                  \/ /\ ~resolutionPending
                     /\ ~(i < n /\ file[n].word = "resolution")
                  \/ /\ resolutionPending /\ i < n /\ file[n].word = "resolution"
                     /\ l.indent = 6 /\ l.word = "integrity" /\ l.val
        /\ PnpmIntegrity(file', i)
             = PnpmIntegrity(file, i)
                 \cup (IF \/ l.word = "resolution" /\ l.val
                          \/ l.word = "integrity" /\ i < n /\ file[n].word = "resolution"
                         THEN {n + 1} ELSE {})
        /\ PnpmResolved(file', i)
             = PnpmResolved(file, i) \cup (IF l.word = "resolved" THEN {n + 1} ELSE {})
    BY <1>5, <2>4, PnpmWithin, ZenonT(60)
  <2>6. i \in Nat /\ i < Len(file') /\ Len(file') \in Nat /\ file'[Len(file')] = l
    BY <2>5
  <2>7. ASSUME current' # Nil, current'.line = i, ~resolvedPending',
               Only(PnpmIntegrity(file', i), current'.integrity),
               Only(PnpmResolved(file', i), current'.resolved), resolutionPending' = FALSE
        PROVE  PnpmWritten'
    <3>1. PnpmSays(file', current')
      BY <2>7, Zenon DEF PnpmSays
    <3>2. FALSE \in BOOLEAN /\ l.word # "resolution"
      <4>1. l.word = "resolution" => l.indent = 4
        BY PnpmWordIs
      <4> QED BY <2>3, <4>1
    <3>3. PnpmOpen(file', i, FALSE)
      BY <2>5, <2>6, <3>2, PnpmOpenGrows, ZenonT(60)
    <3> QED BY <1>1, <1>5, <2>7, <3>1, <3>3, PnpmLineKeeps, Zenon
  <2>8. l.word \notin {"resolution", "resolved"}
    <3>1. l.word \in {"resolution", "resolved"} => l.indent = 4
      BY PnpmWordIs
    <3> QED BY <2>3, <3>1
  <2>9. ASSUME current' = current, resolutionPending' = FALSE, resolvedPending' = FALSE,
               ~(l.word = "integrity" /\ i < n /\ file[n].word = "resolution")
        PROVE  PnpmWritten'
    <3>1. PnpmIntegrity(file', i) = PnpmIntegrity(file, i)
          /\ PnpmResolved(file', i) = PnpmResolved(file, i)
      <4> HIDE DEF n, i
      <4> QED BY <2>5, <2>8, <2>9
    <3> QED BY <1>5, <2>1, <2>7, <2>9, <3>1, Zenon
  <2>10. CASE l.word = "blank" /\ l.indent = 0 /\ Pnpm!Blank(l)
    <3>1. current' = current /\ resolutionPending' = FALSE /\ resolvedPending' = FALSE
      BY <2>10, Zenon DEF Pnpm!Blank
    <3>2. l.word # "integrity"
      BY <2>10
    <3> QED BY <2>9, <3>1, <3>2, Zenon
  <2>11. CASE l.indent = 8 /\ Pnpm!Skipped(l)
    <3>1. /\ current' = current /\ resolutionPending' = resolutionPending
          /\ resolvedPending' = resolvedPending
      BY <2>11, Zenon DEF Pnpm!Skipped, Pnpm!state
    <3>2. ~resolutionPending /\ ~(i < n /\ file[n].word = "resolution")
      <4> HIDE DEF n, i
      <4> QED BY <2>5, <2>11
    <3>3. resolutionPending' = FALSE /\ resolvedPending' = FALSE
      <4>1. resolvedPending \in BOOLEAN
        BY <2>1, Zenon DEF Pnpm!TypeOK
      <4> QED BY <1>2, <2>1, <3>1, <3>2, <4>1
    <3> QED BY <2>9, <3>1, <3>2, <3>3, Zenon
  <2>12. CASE l.indent = 6 /\ Pnpm!SubProperty(l)
    <3>1. IF l.word = "integrity" /\ (resolutionPending \/ resolvedPending)
            THEN /\ current' = [current EXCEPT !.integrity = Pnpm!here]
                 /\ resolutionPending' = FALSE
                 /\ resolvedPending' = (resolvedPending /\ resolutionPending)
            ELSE /\ current' = current /\ resolutionPending' = resolutionPending
                 /\ resolvedPending' = resolvedPending
      BY <2>12, Zenon DEF Pnpm!SubProperty
    <3>2. CASE ~resolutionPending /\ ~(i < n /\ file[n].word = "resolution")
      <4>1. current' = current /\ resolutionPending' = resolutionPending
            /\ resolvedPending' = resolvedPending
        BY <1>2, <3>1, <3>2, Zenon
      <4>2. resolutionPending' = FALSE /\ resolvedPending' = FALSE
        <5>1. resolvedPending \in BOOLEAN
          BY <2>1, Zenon DEF Pnpm!TypeOK
        <5> QED BY <1>2, <2>1, <3>2, <4>1, <5>1
      <4> QED BY <2>9, <3>2, <4>1, <4>2, Zenon
    <3>3. CASE /\ resolutionPending /\ i < n /\ file[n].word = "resolution"
               /\ l.word = "integrity" /\ l.val
      <4>1. /\ current' = [current EXCEPT !.integrity = n + 1]
            /\ resolutionPending' = FALSE
            /\ ~resolvedPending'
        BY <1>2, <2>5, <3>1, <3>3, Zenon
      <4>2. /\ current' # Nil /\ current'.line = i
            /\ current'.integrity = n + 1 /\ current'.resolved = current.resolved
        <5>1. n + 1 \in Nat
          BY <2>5
        <5> QED BY <1>5, <2>1, <4>1, <5>1, PnpmGiven, Zenon
      <4>3. PnpmIntegrity(file, i) = {}
        BY <2>1, <3>3, Zenon DEF PnpmOpen
      <4>4. PnpmIntegrity(file', i) = {n + 1} /\ PnpmResolved(file', i) = PnpmResolved(file, i)
        <5> HIDE DEF n, i
        <5> QED BY <2>5, <2>8, <3>3, <4>3
      <4>5. Only(PnpmIntegrity(file', i), current'.integrity)
        BY <4>2, <4>4 DEF Only
      <4>6. Only(PnpmResolved(file', i), current'.resolved)
        BY <2>1, <4>2, <4>4, Zenon
      <4> QED BY <2>7, <4>1, <4>2, <4>5, <4>6, Zenon
    <3>4. l.indent \in {6, 8}
      BY <2>12
    <3> QED BY <2>5, <3>2, <3>3, <3>4, Zenon
  <2> QED BY <2>3, <2>10, <2>11, <2>12, Zenon
<1> QED BY <1>4, <1>5

\* A key ends the block before it and begins one.
LEMMA PnpmKeyWritten ==
  ASSUME PnpmInv, PnpmWritten, scope.written, NEW l \in Pnpm!Line, Pnpm!Read(l), Pnpm!Key(l)
  PROVE  PnpmWritten'
<1> DEFINE L == Pnpm!flushEntry
           n == Len(file)
<1>1. /\ result = "reading" /\ scope' = scope /\ file' = Append(file, l)
      /\ Len(file') = n + 1 /\ Pnpm!here = n + 1
      /\ \A k \in 1..Len(L) : L[k].line \in 1..n
  BY PnpmRead, Zenon
<1>2. /\ l.word = "key" /\ entries' = L /\ current' = Pnpm!EntryFor(l.key.tokens)
      /\ resolutionPending' = FALSE /\ resolvedPending' = FALSE /\ result' = result
  BY Zenon DEF Pnpm!Key
<1>3. /\ file \in Seq(Pnpm!Line) /\ L \in Seq(Pnpm!Entry) /\ Len(L) \in Nat /\ n \in Nat
  BY PnpmTypes, Zenon DEF PnpmInv
<1>4. l.word \in PnpmEnds
  BY <1>2 DEF PnpmEnds
<1>5. ASSUME NEW k \in 1..Len(L)
      PROVE  PnpmSays(file', L[k]) /\ ~StillOpen(file', PnpmEnds, L[k].line)
  <2>1. result # "rejected"
    BY <1>1
  <2>2. PnpmSays(file, L[k]) /\ L[k].line \in 1..n
    BY <1>1, <2>1, Zenon DEF PnpmWritten
  <2> QED BY <1>1, <1>3, <1>4, <2>2, PnpmSaysStays, ClosedStays, Zenon
<1> DEFINE e == Pnpm!EntryFor(l.key.tokens)
<1>6. e.line = n + 1 /\ e.integrity = 0 /\ e.resolved = 0
  BY <1>1, Zenon DEF Pnpm!EntryFor
<1>7. Own(file', PnpmEnds, n + 1) = {} /\ \A j : j \notin (n + 1)+1..Len(file')
  <2>1. \A j : j \notin (n + 1)+1..Len(file')
    BY <1>1, <1>3
  <2> QED BY <2>1, Zenon DEF Own
<1>8. PnpmSays(file', e)
  <2>1. PnpmIntegrity(file', n + 1) = {} /\ PnpmResolved(file', n + 1) = {}
    BY <1>7, Zenon DEF PnpmIntegrity, PnpmResolved
  <2> HIDE DEF e
  <2> QED BY <1>6, <2>1, Zenon DEF PnpmSays, Only
<1>9. PnpmOpen(file', n + 1, FALSE)
  <2>1. ~(n + 1 < Len(file'))
    BY <1>1, <1>3
  <2> QED BY <1>7, <2>1, Zenon DEF PnpmOpen, PnpmProperties
<1> HIDE DEF e
<1>10. \A k \in 1..Len(Pnpm!flushEntry') : PnpmSays(file', Pnpm!flushEntry'[k])
  <2>1. CASE current' = Nil
    <3>1. Pnpm!flushEntry' = L
      BY <1>2, <2>1, Zenon DEF Pnpm!flushEntry
    <3> QED BY <1>5, <3>1, Zenon
  <2>2. CASE current' # Nil
    <3> DEFINE M == Append(L, e)
    <3>1. Pnpm!flushEntry' = M
      BY <1>2, <2>2, Zenon DEF Pnpm!flushEntry, e
    <3>2. Len(M) = Len(L) + 1 /\ (\A k \in 1..Len(L) : M[k] = L[k]) /\ M[Len(L) + 1] = e
      <4> HIDE DEF L
      <4> QED BY <1>3
    <3> HIDE DEF M, L
    <3>3. \A k \in 1..Len(M) : k \in 1..Len(L) \/ k = Len(L) + 1
      BY <1>3, <3>2
    <3>4. \A k \in 1..Len(M) : PnpmSays(file', M[k])
      BY <1>5, <1>8, <3>2, <3>3, Zenon
    <3> QED BY <3>1, <3>4, Zenon
  <2> QED BY <2>1, <2>2
<1>11. Closed(file', PnpmEnds, entries')
  BY <1>2, <1>5, Zenon DEF Closed
<1>12. current'.line = n + 1
  BY <1>2, <1>6, Zenon DEF e
<1> QED BY <1>1, <1>2, <1>9, <1>10, <1>11, <1>12, Zenon DEF PnpmWritten

\* A line that ends the section, and the end of the file.
LEMMA PnpmFinishWritten ==
  ASSUME PnpmInv, PnpmWritten, scope.written, result = "reading", Pnpm!Finish,
         \/ file' = file
         \/ \E l \in Pnpm!Line : l.word \in PnpmEnds /\ file' = Append(file, l)
  PROVE  PnpmWritten'
<1> DEFINE L == Pnpm!flushEntry
<1>1. /\ entries' = L /\ current' = Nil /\ resolvedPending' = resolvedPending
      /\ result' = (IF Len(L) > maxEntries THEN "rejected" ELSE "listed")
  BY Zenon DEF Pnpm!Finish
<1>2. result # "rejected" /\ result' # "reading"
  <2> HIDE DEF L
  <2> QED BY <1>1
<1>3. file \in Seq(Pnpm!Line)
  BY PnpmTypes, Zenon DEF PnpmInv
<1>4. ASSUME NEW k \in 1..Len(L) PROVE PnpmSays(file', L[k])
  <2>1. PnpmSays(file, L[k]) /\ L[k].line \in 1..Len(file)
    BY <1>2, Zenon DEF PnpmWritten, PnpmInv, PnpmEntries, PnpmEntry
  <2> QED BY <1>3, <2>1, PnpmSaysStays, Zenon
<1>5. Pnpm!flushEntry' = L
  BY <1>1, Zenon DEF Pnpm!flushEntry
<1>6. ~resolvedPending'
  BY <1>1, Zenon DEF PnpmWritten
<1> QED BY <1>2, <1>4, <1>5, <1>6, Zenon DEF PnpmWritten

\* Every step of pnpm keeps it.
LEMMA PnpmWrittenStep ==
  ASSUME PnpmInv, PnpmWritten, Pnpm!Next PROVE PnpmWritten'
<1>0. scope' = scope
  BY Zenon DEF Pnpm!Next, Pnpm!ReadLine, Pnpm!Read, Pnpm!EndOfFile
<1> SUFFICES ASSUME scope.written PROVE PnpmWritten'
  BY <1>0, Zenon DEF PnpmWritten
<1>1. ASSUME NEW l \in Pnpm!Line, Pnpm!ReadLine(l) PROVE PnpmWritten'
  <2>1. Pnpm!Read(l)
    BY <1>1, Zenon DEF Pnpm!ReadLine
  <2>2. CASE Pnpm!Reject(l)
    <3>1. result' = "rejected" /\ resolvedPending' = resolvedPending
      BY <2>2, Zenon DEF Pnpm!Reject, Pnpm!state
    <3>2. result' # "reading" /\ ~(result' # "rejected")
      BY <3>1
    <3> QED BY <3>1, <3>2, Zenon DEF PnpmWritten
  <2>3. CASE Pnpm!SectionEnds(l)
    <3>1. inPackages /\ l.word \in {"packages", "text"} /\ Pnpm!Finish
      BY <2>3, Zenon DEF Pnpm!SectionEnds
    <3>2. result = "reading" /\ file' = Append(file, l)
      BY <2>1, PnpmRead, Zenon
    <3>3. l.word # "packages"
      <4>1. PnpmBegun(file)
        BY <3>1, Zenon DEF PnpmInv
      <4>2. DOMAIN file = 1..Len(file)
        BY PnpmTypes, Zenon DEF PnpmInv
      <4>3. "packages" \in {w.word : w \in Pnpm!Range(file)}
        BY <4>1, <4>2, Zenon DEF PnpmBegun, Pnpm!Range
      <4>4. Pnpm!PnpmWrites(l)
        BY <2>1, Zenon DEF Pnpm!Read
      <4> QED BY <4>3, <4>4, PnpmWritesIs, Zenon
    <3>4. l.word \in PnpmEnds
      BY <3>1, <3>3 DEF PnpmEnds
    <3> QED BY <3>1, <3>2, <3>4, PnpmFinishWritten, Zenon
  <2>4. CASE ~Pnpm!Rejected(l) /\ Pnpm!Property(l)
    BY <2>1, <2>4, PnpmPropertyWritten, Zenon
  <2>5. CASE Pnpm!Key(l)
    BY <2>1, <2>5, PnpmKeyWritten, Zenon
  <2>6. CASE /\ ~Pnpm!Rejected(l)
             /\ Pnpm!Blank(l) \/ Pnpm!Preamble(l) \/ Pnpm!SubProperty(l) \/ Pnpm!Skipped(l)
    BY <2>1, <2>6, PnpmLineWritten, Zenon
  <2> QED BY <1>1, <2>2, <2>3, <2>4, <2>5, <2>6, Zenon DEF Pnpm!ReadLine
<1>2. ASSUME Pnpm!EndOfFile PROVE PnpmWritten'
  <2>1. result = "reading" /\ Pnpm!Finish /\ file' = file
    BY <1>2, Zenon DEF Pnpm!EndOfFile
  <2> QED BY <2>1, PnpmFinishWritten, Zenon
<1> QED BY <1>1, <1>2, Zenon DEF Pnpm!Next

\* pnpm begins in it.
LEMMA PnpmWrittenInit ==
  ASSUME Pnpm!Init PROVE PnpmWritten
<1>1. /\ file = <<>> /\ entries = <<>> /\ current = Nil /\ Pnpm!flushEntry = <<>>
      /\ resolvedPending = FALSE
  BY Zenon DEF Pnpm!Init, Pnpm!flushEntry
<1>2. \A k : k \notin 1..Len(<<>>)
  OBVIOUS
<1>3. ~resolvedPending
  BY <1>1
<1> QED BY <1>1, <1>2, <1>3, Zenon DEF PnpmWritten, Closed

\* The least of the one line of a set, or none.
LEMMA OnlyLeast ==
  ASSUME NEW n \in Nat, NEW S \in SUBSET (1..n), NEW v, Only(S, v)
  PROVE  (IF S = {} THEN 0 ELSE Min(S)) = v
<1>1. CASE S = {}
  BY <1>1 DEF Only
<1>2. CASE S = {v} /\ S # {}
  <2>1. v \in Nat
    BY <1>2
  <2>2. \A y \in {v} : v <= y
    BY <2>1
  <2>3. Min({v}) = v
    BY <2>2, Zenon DEF Min
  <2> QED BY <1>2, <2>3, Zenon
<1> QED BY <1>1, <1>2 DEF Only

\* What the property says, from both invariants.
LEMMA PnpmWrittenShown ==
  ASSUME PnpmInv, PnpmWritten PROVE Pnpm!ListsWhatIsWritten
<1> SUFFICES ASSUME scope.written, result = "listed"
             PROVE  /\ Pnpm!Range(entries) = {Pnpm!StatedEntry(i) : i \in Pnpm!PackageLines}
                    /\ Pnpm!InOrder
                    /\ \A e \in Pnpm!Range(entries) :
                         e.integrity # 0 =>
                           Pnpm!IntegrityText(e) =
                             IF file[e.integrity].word = "resolution"
                                  /\ file[e.integrity].tarball
                               THEN {"value", "tarball"} ELSE {"value"}
  BY Zenon DEF Pnpm!ListsWhatIsWritten
<1>1. /\ {e.line : e \in Pnpm!Range(entries)} = Pnpm!PackageLines /\ Pnpm!InOrder
  BY PnpmShown, Zenon DEF Pnpm!EveryKeyListed
<1>2. /\ file \in Seq(Pnpm!Line) /\ Len(file) \in Nat
      /\ entries \in Seq(Pnpm!Entry)
  BY PnpmTypes, Zenon DEF PnpmInv
<1>3. DOMAIN entries = 1..Len(entries) /\ result # "rejected"
  BY <1>2
<1>4. Pnpm!flushEntry = entries
  BY Zenon DEF PnpmInv, Pnpm!TypeOK, Pnpm!flushEntry
<1>5. ASSUME NEW e \in Pnpm!Range(entries)
      PROVE  PnpmSays(file, e) /\ e.line \in 1..Len(file) /\ PnpmEntry(file, e)
             /\ e \in Pnpm!Entry
  <2>1. PICK k \in 1..Len(entries) : e = entries[k]
    BY <1>3, Zenon DEF Pnpm!Range
  <2>2. k \in 1..Len(Pnpm!flushEntry) /\ Pnpm!flushEntry[k] = e
    BY <1>4, <2>1, Zenon
  <2>3. e \in Pnpm!Entry
    BY <1>2, <2>1
  <2> QED BY <1>3, <2>2, <2>3, Zenon DEF PnpmWritten, PnpmInv, PnpmEntries, PnpmEntry
<1>7. ASSUME NEW e \in Pnpm!Range(entries) PROVE e = Pnpm!StatedEntry(e.line)
  <2> DEFINE i == e.line
             B == Own(file, PnpmEnds, i)
  <2>1. PnpmSays(file, e) /\ i \in 1..Len(file)
    BY <1>5, Zenon
  <2>2. i \in Nat
    BY <1>2, <2>1
  <2> HIDE DEF i
  <2>3. Pnpm!Block(i) = B
    <3> DEFINE E == {j \in i+1..Len(file) : file[j].word \in PnpmEnds}
    <3>1. i+1 .. Min(E \cup {Len(file) + 1}) - 1 = B
      BY <1>2, <2>2, BlockIs, Zenon
    <3>2. \A S : Pnpm!Min(S) = Min(S)
      BY Zenon DEF Pnpm!Min, Min
    <3>3. Pnpm!Block(i) = i+1 .. Pnpm!Min(E \cup {Len(file) + 1}) - 1
      BY Zenon DEF Pnpm!Block, PnpmEnds
    <3> QED BY <3>1, <3>2, <3>3, Zenon
  <2> DEFINE props == {j \in B : file[j].word = "resolution"}
             lines == {j \in props : file[j].val}
                        \cup {j \in B : file[j].word = "integrity" /\ j - 1 \in props}
             addresses == {j \in B : file[j].word = "resolved"}
  <2>4. lines = PnpmIntegrity(file, i) /\ addresses = PnpmResolved(file, i)
    BY DEF PnpmIntegrity, PnpmResolved
  <2>5. B \subseteq i+1..Len(file)
    BY <1>2, <2>2, OwnRange
  <2>6. lines \subseteq 1..Len(file) /\ addresses \subseteq 1..Len(file)
    <3>1. B \subseteq 1..Len(file)
      BY <1>2, <2>2, <2>5
    <3> HIDE DEF B
    <3> QED BY <3>1
  <2>7. Pnpm!StatedIntegrity(i) = IF lines = {} THEN 0 ELSE Pnpm!Min(lines)
    BY <2>3, Zenon DEF Pnpm!StatedIntegrity
  <2>8. Pnpm!StatedResolved(i) = IF addresses = {} THEN 0 ELSE Pnpm!Min(addresses)
    BY <2>3, Zenon DEF Pnpm!StatedResolved
  <2>9. Only(lines, e.integrity) /\ Only(addresses, e.resolved)
    BY <2>1, <2>4, Zenon DEF PnpmSays, i
  <2> HIDE DEF lines, addresses
  <2>10. \A S : Pnpm!Min(S) = Min(S)
    BY Zenon DEF Pnpm!Min, Min
  <2>11. (IF lines = {} THEN 0 ELSE Min(lines)) = e.integrity
    BY <1>2, <2>6, <2>9, OnlyLeast
  <2>12. (IF addresses = {} THEN 0 ELSE Min(addresses)) = e.resolved
    BY <1>2, <2>6, <2>9, OnlyLeast
  <2>13. Pnpm!StatedIntegrity(i) = e.integrity /\ Pnpm!StatedResolved(i) = e.resolved
    <3>1. Pnpm!Min(lines) = Min(lines) /\ Pnpm!Min(addresses) = Min(addresses)
      BY <2>10, Zenon
    <3> QED BY <2>7, <2>8, <2>11, <2>12, <3>1
  <2> DEFINE key == file[i].key
  <2>14. /\ e.name = (IF key \in Pnpm!ListedKeys THEN key.name ELSE Pnpm!KeyName(key.tokens))
         /\ e.version = (IF key \in Pnpm!ListedKeys THEN <<"v">> ELSE Pnpm!KeyVersion(key.tokens))
    <3>1. e.name = Pnpm!KeyName(key.tokens) /\ e.version = Pnpm!KeyVersion(key.tokens)
      BY <1>5, Zenon DEF PnpmEntry, i
    <3> HIDE DEF key
    <3> QED BY <3>1, ListedKeyIs, Zenon
  <2>15. e = [line |-> e.line, name |-> e.name, version |-> e.version,
              integrity |-> e.integrity, resolved |-> e.resolved]
    <3>1. e \in Pnpm!Entry
      BY <1>5, Zenon
    <3> QED BY <3>1 DEF Pnpm!Entry, Pnpm!Entries
  <2>16. Pnpm!StatedEntry(i) =
           [line |-> i,
            name |-> IF key \in Pnpm!ListedKeys THEN key.name ELSE Pnpm!KeyName(key.tokens),
            version |-> IF key \in Pnpm!ListedKeys THEN <<"v">> ELSE Pnpm!KeyVersion(key.tokens),
            integrity |-> Pnpm!StatedIntegrity(i),
            resolved |-> Pnpm!StatedResolved(i)]
    BY Zenon DEF Pnpm!StatedEntry
  <2> HIDE DEF key
  <2> QED BY <2>13, <2>14, <2>15, <2>16, Zenon DEF i
<1>8. {e : e \in Pnpm!Range(entries)}
        = {Pnpm!StatedEntry(i) : i \in {e.line : e \in Pnpm!Range(entries)}}
  BY <1>7, Zenon
<1>9. Pnpm!Range(entries) = {Pnpm!StatedEntry(i) : i \in Pnpm!PackageLines}
  BY <1>1, <1>8, Zenon
<1>10. ASSUME NEW e \in Pnpm!Range(entries), e.integrity # 0
       PROVE  Pnpm!IntegrityText(e) =
                IF file[e.integrity].word = "resolution" /\ file[e.integrity].tarball
                  THEN {"value", "tarball"} ELSE {"value"}
  <2> DEFINE l == file[e.integrity]
  <2>1. e.integrity \in PnpmIntegrity(file, e.line)
    BY <1>5, <1>10 DEF PnpmSays, Only
  <2>2. l.word = "resolution" => l.val
    <3>1. (l.word = "resolution" /\ l.val) \/ l.word = "integrity"
      BY <2>1, Zenon DEF PnpmIntegrity
    <3> QED BY <3>1
  <2>3. Pnpm!IntegrityText(e)
          = IF l.word = "resolution" THEN Pnpm!extractInlineIntegrity(l) ELSE {"value"}
    <3>1. CASE l.word = "resolution"
      BY <1>10, <3>1 DEF Pnpm!IntegrityText
    <3>2. CASE l.word # "resolution"
      BY <1>10, <3>2 DEF Pnpm!IntegrityText
    <3> QED BY <3>1, <3>2
  <2> HIDE DEF l
  <2>4. ASSUME l.word = "resolution"
        PROVE  Pnpm!extractInlineIntegrity(l)
                 = IF l.tarball THEN {"value", "tarball"} ELSE {"value"}
    BY <2>2, <2>4 DEF Pnpm!extractInlineIntegrity, Pnpm!Values
  <2> QED BY <2>3, <2>4, Zenon DEF l
<1> QED BY <1>1, <1>9, <1>10, Zenon

-----------------------------------------------------------------------------
(* The same of yarn: a value may stand on a line of its own.  *)

\* What is known of a line of yarn by its word.
LEMMA YarnWordIs ==
  ASSUME NEW l \in Yarn!Line
  PROVE  /\ l.word \in {"version", "resolution", "checksum"} => l.indent = 2 /\ l.val \in BOOLEAN
         /\ l.word \in {"blank", "key", "__metadata"} => l.indent = 0
         /\ l.indent = 4 => l.word \in {"tarball", "other"} /\ l.val \in BOOLEAN
         /\ l.indent # 0 => l.word \notin YarnEnds
<1>1. CASE l \in [indent : {0}, word : {"blank", "__metadata", "packages", "text", "long"},
               val : {FALSE}]
  BY <1>1 DEF YarnEnds
<1>2. CASE l \in [indent : {0}, word : {"key"}, key : Yarn!Keys]
  BY <1>2 DEF YarnEnds
<1>3. CASE l \in [indent : {1}, word : {"other"}, val : {FALSE}]
  BY <1>3 DEF YarnEnds
<1>4. CASE l \in [indent : {2}, word : {"version", "resolution", "checksum"}, val : BOOLEAN]
  BY <1>4 DEF YarnEnds
<1>5. CASE l \in [indent : {2}, word : {"other"}, val : {FALSE}]
  BY <1>5 DEF YarnEnds
<1>6. CASE l \in [indent : {4}, word : {"tarball", "other"}, val : BOOLEAN]
  BY <1>6 DEF YarnEnds
<1> QED BY <1>1, <1>2, <1>3, <1>4, <1>5, <1>6, Zenon DEF Yarn!Line

\* A property of the block of line i; what stands below one; and the first line
\* there of its kind.
YarnProperty(fl, i, word, j) ==
  j \in Own(fl, YarnEnds, i) /\ fl[j].indent = 2 /\ fl[j].word = word
YarnBelow(fl, j, m) == \A n \in j+1..m : fl[n].indent = 4
YarnFirst(fl, j, sub, m) ==
  YarnBelow(fl, j, m) /\ fl[m].word = sub /\ \A n \in j+1..m-1 : fl[n].word # sub

\* The lines of a block that state the value of a property; and that the next
\* line may.
YarnLines(fl, i, word, sub) ==
  {m \in i+1..Len(fl) :
     \/ YarnProperty(fl, i, word, m) /\ fl[m].val
     \/ \E j \in i+1..m-1 : YarnProperty(fl, i, word, j) /\ YarnFirst(fl, j, sub, m)}
YarnWants(fl, i, word, sub) ==
  \E j \in i+1..Len(fl) : /\ YarnProperty(fl, i, word, j) /\ YarnBelow(fl, j, Len(fl))
                          /\ \A n \in j+1..Len(fl) : fl[n].word # sub

\* The line l states the value.
YarnStates(fl, i, l, word, sub) ==
  /\ StillOpen(fl, YarnEnds, i) /\ l.word \notin YarnEnds
  /\ \/ l.indent = 2 /\ l.word = word /\ l.val
     \/ l.indent = 4 /\ l.word = sub /\ YarnWants(fl, i, word, sub)

\* An entry of yarn has what its block states.
YarnSays(fl, e) ==
  /\ Only(YarnLines(fl, e.line, "version", "none"), e.version)
  /\ Only(YarnLines(fl, e.line, "checksum", "other"), e.integrity)
  /\ Only(YarnLines(fl, e.line, "resolution", "tarball"), e.resolved)

\* Below a property of a block that goes on with sub-properties it goes on.
LEMMA YarnWantsOpen ==
  ASSUME NEW fl \in Seq(Yarn!Line), NEW i \in 1..Len(fl), NEW word, NEW sub,
         YarnWants(fl, i, word, sub)
  PROVE  StillOpen(fl, YarnEnds, i)
<1> DEFINE n == Len(fl)
<1>1. PICK j \in i+1..n : YarnProperty(fl, i, word, j) /\ YarnBelow(fl, j, n)
  BY Zenon DEF YarnWants
<1>2. \A k \in i+1..j : fl[k].word \notin YarnEnds
  BY <1>1, Zenon DEF YarnProperty, Own
<1>3. ASSUME NEW k \in j+1..n PROVE fl[k].word \notin YarnEnds
  <2>1. fl[k].indent = 4
    BY <1>1, Zenon DEF YarnBelow
  <2>2. fl[k] \in Yarn!Line
    <3>1. k \in 1..n
      OBVIOUS
    <3> QED BY <3>1
  <2>3. fl[k].indent # 0
    BY <2>1
  <2> QED BY <2>2, <2>3, YarnWordIs, Zenon
<1>4. \A k \in i+1..n : k \in i+1..j \/ k \in j+1..n
  OBVIOUS
<1> QED BY <1>2, <1>3, <1>4, Zenon DEF StillOpen

\* One more line states a value or none.
LEMMA YarnLinesGrow ==
  ASSUME NEW fl \in Seq(Yarn!Line), NEW l \in Yarn!Line, NEW i \in 1..Len(fl),
         NEW word, NEW sub
  PROVE  YarnLines(Append(fl, l), i, word, sub)
           = YarnLines(fl, i, word, sub)
               \cup (IF YarnStates(fl, i, l, word, sub) THEN {Len(fl) + 1} ELSE {})
<1> DEFINE n == Len(fl)
           g == Append(fl, l)
           O == Own(fl, YarnEnds, i)
           P == Own(g, YarnEnds, i)
           open == StillOpen(fl, YarnEnds, i) /\ l.word \notin YarnEnds
           States(h, m) == \/ YarnProperty(h, i, word, m) /\ h[m].val
                           \/ \E j \in i+1..m-1 : /\ YarnProperty(h, i, word, j)
                                                  /\ YarnFirst(h, j, sub, m)
<1>1. n \in Nat /\ Len(g) = n + 1 /\ (\A k \in 1..n : g[k] = fl[k]) /\ g[n + 1] = l
  BY AppendIs
<1>2. i \in Nat /\ i <= n /\ i >= 1
  BY <1>1
<1>3. P = O \cup (IF open THEN {n + 1} ELSE {})
  <2>1. BlockGrows(fl, l, YarnEnds, i)
    BY <1>2, OwnIs, Zenon
  <2> QED BY <2>1, Zenon DEF BlockGrows
<1>4. O \subseteq i+1..n
  BY <1>1, <1>2, OwnRange, Zenon
<1> HIDE DEF g, n, O, P, open
<1>5. ASSUME NEW j \in i+1..n
      PROVE  /\ g[j] = fl[j]
             /\ YarnProperty(g, i, word, j) <=> YarnProperty(fl, i, word, j)
  <2>1. j \in 1..n /\ j # n + 1
    BY <1>1, <1>2
  <2>2. j \in P <=> j \in O
    BY <1>3, <2>1
  <2> QED BY <1>1, <2>1, <2>2, Zenon DEF YarnProperty, P, O
<1>6. ASSUME NEW m \in i+1..n, NEW j \in i+1..m-1
      PROVE  YarnFirst(g, j, sub, m) <=> YarnFirst(fl, j, sub, m)
  <2>1. /\ \A k \in j+1..m : k \in i+1..n
        /\ \A k \in j+1..m-1 : k \in i+1..n
    BY <1>1, <1>2
  <2> QED BY <1>5, <2>1, Zenon DEF YarnFirst, YarnBelow
<1>7. ASSUME NEW m \in i+1..n PROVE States(g, m) <=> States(fl, m)
  <2>1. \A j \in i+1..m-1 : j \in i+1..n
    BY <1>1, <1>2
  <2> QED BY <1>5, <1>6, <2>1, Zenon
<1>8. YarnProperty(g, i, word, n + 1) /\ g[n + 1].val
        <=> open /\ l.indent = 2 /\ l.word = word /\ l.val
  <2>1. n + 1 \in P <=> open
    BY <1>1, <1>2, <1>3, <1>4
  <2> QED BY <1>1, <2>1, Zenon DEF YarnProperty, P
<1>9. (\E j \in i+1..(n + 1)-1 : YarnProperty(g, i, word, j) /\ YarnFirst(g, j, sub, n + 1))
        <=> l.indent = 4 /\ l.word = sub /\ YarnWants(fl, i, word, sub)
  <2>1. (n + 1) - 1 = n
    BY <1>1
  <2>2. ASSUME NEW j \in i+1..n
        PROVE  YarnFirst(g, j, sub, n + 1)
                 <=> /\ l.indent = 4 /\ l.word = sub
                     /\ YarnBelow(fl, j, n) /\ \A k \in j+1..n : fl[k].word # sub
    <3>1. /\ \A k \in j+1..n : k \in i+1..n /\ k \in j+1..n + 1
          /\ \A k \in j+1..n + 1 : k \in j+1..n \/ k = n + 1
          /\ n + 1 \in j+1..n + 1
      BY <1>1, <1>2
    <3> QED BY <1>1, <1>5, <2>1, <3>1, Zenon DEF YarnFirst, YarnBelow
  <2> QED BY <1>5, <2>1, <2>2, Zenon DEF YarnWants, n
<1>10. l.indent = 4 /\ YarnWants(fl, i, word, sub) => open
  <2>1. l.indent = 4 => l.word \notin YarnEnds
    BY YarnWordIs
  <2> QED BY <2>1, YarnWantsOpen, Zenon DEF open
<1>11. States(g, n + 1) <=> YarnStates(fl, i, l, word, sub)
  BY <1>8, <1>9, <1>10, Zenon DEF YarnStates, open
<1>12. YarnLines(g, i, word, sub) = {m \in i+1..n + 1 : States(g, m)}
  BY <1>1, Zenon DEF YarnLines
<1>13. YarnLines(fl, i, word, sub) = {m \in i+1..n : States(fl, m)}
  BY Zenon DEF YarnLines, n
<1> HIDE DEF States
<1>14. /\ \A m \in i+1..n + 1 : m \in i+1..n \/ m = n + 1
       /\ i+1..n \subseteq i+1..n + 1 /\ n + 1 \in i+1..n + 1 /\ n + 1 \notin i+1..n
  BY <1>1, <1>2
<1>15. {m \in i+1..n + 1 : States(g, m)}
         = {m \in i+1..n : States(fl, m)} \cup (IF YarnStates(fl, i, l, word, sub) THEN {n + 1} ELSE {})
  BY <1>7, <1>11, <1>14
<1> QED BY <1>12, <1>13, <1>15, Zenon DEF g, n

\* What is said of a block that has ended stays.
LEMMA YarnSaysStays ==
  ASSUME NEW fl \in Seq(Yarn!Line), NEW l \in Yarn!Line, NEW e, e.line \in 1..Len(fl),
         ~StillOpen(fl, YarnEnds, e.line) \/ l.word \in YarnEnds, YarnSays(fl, e)
  PROVE  YarnSays(Append(fl, l), e)
<1> DEFINE i == e.line
<1>1. i \in 1..Len(fl) /\ ~(StillOpen(fl, YarnEnds, i) /\ l.word \notin YarnEnds)
  OBVIOUS
<1> HIDE DEF i
<1>2. ASSUME NEW word, NEW sub
      PROVE  YarnLines(Append(fl, l), i, word, sub) = YarnLines(fl, i, word, sub)
  <2>1. ~YarnStates(fl, i, l, word, sub)
    BY <1>1, Zenon DEF YarnStates
  <2>2. YarnLines(Append(fl, l), i, word, sub)
          = YarnLines(fl, i, word, sub)
              \cup (IF YarnStates(fl, i, l, word, sub) THEN {Len(fl) + 1} ELSE {})
    BY <1>1, YarnLinesGrow
  <2> QED BY <2>1, <2>2
<1> QED BY <1>2, Zenon DEF YarnSays, i

\* After its key a block has properties and what stands below them, and at the
\* end a blank line.
YarnProperties(fl, i) ==
  \A j \in i+1..Len(fl) : fl[j].indent \in {2, 4} \/ (j = Len(fl) /\ fl[j].word = "blank")

\* What the parser waits for at the end of a block that yarn writes: a checksum
\* after one without a value; a resolution after one without a value and
\* without a tarball, and not after a property that it does not know.
YarnOpen(fl, i, checksum, resolution) ==
  /\ YarnProperties(fl, i)
  /\ checksum <=> i < Len(fl) /\ fl[Len(fl)].word = "checksum" /\ ~fl[Len(fl)].val
  /\ checksum => YarnLines(fl, i, "checksum", "other") = {}
  /\ resolution => YarnLines(fl, i, "resolution", "tarball") = {}
  /\ \A j \in i+1..Len(fl) :
       fl[j].indent = 2 /\ YarnBelow(fl, j, Len(fl)) =>
         /\ fl[j].word = "other" => ~resolution
         /\ fl[j].word = "resolution" /\ ~fl[j].val =>
              (resolution <=> \A k \in j+1..Len(fl) : fl[k].word # "tarball")

\* What yarn writes next, in words of the block that it writes.
LEMMA YarnWritesBlock ==
  ASSUME file \in Seq(Yarn!Line), NEW i \in 1..Len(file), file[i].word = "key",
         YarnProperties(file, i)
  PROVE  LET n == Len(file)
             props == {j \in i+1..n : file[j].indent = 2}
         IN  /\ file[n].word # "blank" => Yarn!inBlock = {file[j].word : j \in props}
             /\ Yarn!openProperty # "none" =>
                  /\ file[n].word # "blank"
                  /\ \E p \in props : /\ file[p].word = Yarn!openProperty
                                      /\ file[p].val # TRUE
                                      /\ YarnBelow(file, p, n)
<1> DEFINE n == Len(file)
           T == {0} \cup {k \in DOMAIN file : file[k].indent = 0}
           props == {j \in i+1..n : file[j].indent = 2}
           m == Max(T)
<1>1. n \in Nat /\ DOMAIN file = 1..n /\ file # <<>> /\ i \in Nat /\ i <= n /\ i >= 1
  OBVIOUS
<1>2. \A k \in 1..n : file[k] \in Yarn!Line
  OBVIOUS
<1>3. /\ \A S : Yarn!Max(S) = Max(S)
      /\ Yarn!blockStart = m
  BY Zenon DEF Yarn!Max, Max, Yarn!blockStart
<1>4. m \in T /\ \A k \in T : m >= k
  <2>1. T \in SUBSET (0..n) /\ T # {}
    BY <1>1
  <2> QED BY <1>1, <2>1, GreatestNatural, Zenon
<1>5. file[i].indent = 0
  BY <1>1, <1>2, YarnWordIs, Zenon
<1>6. \A j \in i+1..n : file[j].indent \in {2, 4} \/ (j = n /\ file[j].word = "blank")
  BY Zenon DEF YarnProperties
<1> DEFINE after == {j \in DOMAIN file : j > m /\ file[j].indent = 2}
<1>7. /\ Yarn!inBlock = {file[j].word : j \in after}
      /\ Yarn!openProperty = IF after = {} THEN "none"
                             ELSE IF file[Max(after)].val = TRUE THEN "none"
                             ELSE file[Max(after)].word
  <2>1. {j \in DOMAIN file : j > Yarn!blockStart /\ file[j].indent = 2} = after
    BY <1>3, Zenon
  <2> HIDE DEF after
  <2> QED BY <1>3, <2>1, Zenon DEF Yarn!inBlock, Yarn!openProperty
<1> HIDE DEF m
<1>8. CASE file[n].word = "blank"
  <2>1. file[n].indent = 0
    BY <1>1, <1>2, <1>8, YarnWordIs
  <2>2. n \in T
    BY <1>1, <2>1
  <2>3. m >= n
    BY <1>4, <2>2, Zenon
  <2>4. after = {}
    <3>1. m \in 0..n
      BY <1>1, <1>4
    <3> QED BY <1>1, <2>3, <3>1
  <2> QED BY <1>7, <1>8, <2>4
<1>9. CASE file[n].word # "blank"
  <2>1. m = i
    <3>0. i \in T
      BY <1>1, <1>5
    <3>1. m >= i
      BY <1>4, <3>0, Zenon
    <3>2. ASSUME m \in i+1..n PROVE FALSE
      <4>1. file[m].indent \in {2, 4}
        BY <1>6, <1>9, <3>2
      <4>2. m # 0 /\ m \in T
        BY <1>1, <1>4, <3>2
      <4> QED BY <4>1, <4>2
    <3>3. m \in 0..n
      BY <1>1, <1>4
    <3> QED BY <1>1, <3>1, <3>2, <3>3
  <2>2. after = props
    BY <1>1, <2>1
  <2> DEFINE p == Max(props)
  <2>3. ASSUME Yarn!openProperty # "none"
        PROVE  \E q \in props : /\ file[q].word = Yarn!openProperty
                                /\ file[q].val # TRUE /\ YarnBelow(file, q, n)
    <3>1. props # {} /\ file[p].val # TRUE /\ file[p].word = Yarn!openProperty
      BY <1>7, <2>2, <2>3, Zenon
    <3>2. p \in props /\ \A k \in props : p >= k
      <4>1. props \in SUBSET (0..n)
        BY <1>1
      <4> QED BY <1>1, <3>1, <4>1, GreatestNatural, Zenon
    <3> HIDE DEF p
    <3>3. ASSUME NEW k \in p+1..n PROVE file[k].indent = 4
      <4>1. k \in i+1..n /\ k \notin props
        BY <1>1, <3>2
      <4>2. file[k].indent \in {2, 4}
        BY <1>6, <1>9, <4>1
      <4> QED BY <4>1, <4>2
    <3> QED BY <3>1, <3>2, <3>3, Zenon DEF YarnBelow
  <2> QED BY <1>7, <1>9, <2>2, <2>3
<1> QED BY <1>8, <1>9

\* What a line is that yarn writes.
LEMMA YarnWritesIs ==
  ASSUME NEW l \in Yarn!Line, Yarn!YarnWrites(l)
  PROVE  LET last == IF file = <<>> THEN "blank" ELSE file[Len(file)].word
         IN  /\ l.word \notin {"packages", "text", "long"} /\ l.indent # 1
             /\ l.word = "blank" => last # "blank" /\ ~Yarn!valueExpected
             /\ l.word = "__metadata" => file = <<>>
             /\ l.word = "key" => last = "blank"
             /\ l.indent = 2 => /\ last # "blank" /\ ~Yarn!valueExpected
                                /\ l.word = "other" \/ l.word \notin Yarn!inBlock
                                /\ l.word = "version" => l.val
             /\ l.indent = 4 => \/ Yarn!openProperty = "other"
                                \/ Yarn!openProperty = "resolution" /\ l.val
                                \/ /\ Yarn!openProperty = "checksum" /\ Yarn!valueExpected
                                   /\ l.word = "other" /\ l.val
<1> DEFINE last == IF file = <<>> THEN "blank" ELSE file[Len(file)].word
           B == last # "blank" /\ ~Yarn!valueExpected
           C == file = <<>>
           D == last = "blank" /\ (Yarn!Recognized(l.key) \/ Yarn!Skipped(l.key))
           E == /\ last # "blank" /\ ~Yarn!valueExpected
                /\ l.word = "other" \/ l.word \notin Yarn!inBlock
                /\ l.word = "version" => l.val
           F == \/ Yarn!openProperty = "other"
                \/ Yarn!openProperty = "resolution" /\ l.val
                \/ Yarn!openProperty = "checksum" /\ Yarn!valueExpected
                     /\ l.word = "other" /\ l.val
<1>1. /\ l.indent \in {0, 1, 2, 4}
      /\ l.indent = 0 <=> l.word \in {"blank", "__metadata", "packages", "text", "long", "key"}
  BY YarnLineIs, Zenon
<1>2. (CASE l.word \in {"packages", "text", "long"} \/ l.indent = 1 -> FALSE
        [] l.word = "blank" -> B [] l.word = "__metadata" -> C
        [] l.word = "key" -> D [] l.indent = 2 -> E [] l.indent = 4 -> F
        [] OTHER -> FALSE)
  BY Zenon DEF Yarn!YarnWrites
<1> HIDE DEF B, C, D, E, F
<1>3. /\ l.word \notin {"packages", "text", "long"} /\ l.indent # 1
      /\ l.word = "blank" => B
      /\ l.word = "__metadata" => C
      /\ l.word = "key" => D
      /\ l.indent = 2 => E
      /\ l.indent = 4 => F
  BY <1>1, <1>2
<1> QED BY <1>3, Zenon DEF B, C, D, E, F

\* What holds besides of a file that yarn wrote: it has no line that yarn does
\* not know, each entry has the values that its block states, and all blocks but
\* the last have ended.
YarnWritten ==
  scope.written =>
    /\ \A j \in 1..Len(file) : file[j].word # "text"
    /\ result # "rejected" =>
         \A k \in 1..Len(Yarn!flushEntry) : YarnSays(file, Yarn!flushEntry[k])
    /\ result = "reading" =>
         /\ Closed(file, YarnEnds, entries)
         /\ current = Nil => ~checksumPending /\ ~resolutionPending
         /\ current # Nil =>
              inPackages /\ YarnOpen(file, current.line, checksumPending, resolutionPending)

\* The entry that is being read.
LEMMA YarnReading ==
  ASSUME YarnInv, YarnWritten, scope.written, result = "reading", current # Nil
  PROVE  /\ current \in Yarn!Entry /\ inPackages
         /\ current.line \in 1..Len(file) /\ file[current.line].word = "key"
         /\ StillOpen(file, YarnEnds, current.line)
         /\ YarnSays(file, current)
         /\ YarnOpen(file, current.line, checksumPending, resolutionPending)
         /\ checksumPending \in BOOLEAN /\ resolutionPending \in BOOLEAN
<1>1. /\ entries \in Seq(Yarn!Entry) /\ current \in Yarn!Entry
  BY YarnTypes, Zenon DEF YarnInv
<1>2. Yarn!flushEntry = Append(entries, current)
  BY Zenon DEF Yarn!flushEntry
<1>3. result # "rejected"
  OBVIOUS
<1> DEFINE L == Append(entries, current)
<1>4. Len(entries) + 1 \in 1..Len(L) /\ L[Len(entries) + 1] = current
  BY <1>1, AppendIs
<1> HIDE DEF L
<1>5. YarnEntry(file, current)
  BY <1>2, <1>4, Zenon DEF YarnInv, YarnEntries, L
<1>6. YarnSays(file, current)
  BY <1>2, <1>3, <1>4, Zenon DEF YarnWritten, L
<1>7. StillOpen(file, YarnEnds, current.line)
  BY <1>3, Zenon DEF YarnInv, YarnWritten
<1>8. checksumPending \in BOOLEAN /\ resolutionPending \in BOOLEAN
  BY Zenon DEF YarnInv, Yarn!TypeOK
<1> QED BY <1>1, <1>5, <1>6, <1>7, <1>8, Zenon DEF YarnEntry, YarnWritten

\* What is listed has ended, and what is said of it stays.
LEMMA YarnListKeeps ==
  ASSUME YarnInv, YarnWritten, scope.written, NEW l \in Yarn!Line, Yarn!Read(l)
  PROVE  /\ \A j \in 1..Len(file') : file'[j].word # "text"
         /\ \A k \in 1..Len(entries) : /\ YarnSays(file', entries[k])
                                       /\ ~StillOpen(file', YarnEnds, entries[k].line)
         /\ l.word \in YarnEnds =>
              \A k \in 1..Len(Yarn!flushEntry) :
                 /\ YarnSays(file', Yarn!flushEntry[k])
                 /\ ~StillOpen(file', YarnEnds, Yarn!flushEntry[k].line)
<1> DEFINE L == Yarn!flushEntry
<1>1. /\ result = "reading" /\ file' = Append(file, l)
      /\ \A k \in 1..Len(L) : L[k].line \in 1..Len(file)
  BY YarnRead, Zenon
<1>2. /\ file \in Seq(Yarn!Line) /\ Len(file) \in Nat
      /\ entries \in Seq(Yarn!Entry) /\ Len(entries) \in Nat
      /\ current # Nil => current \in Yarn!Entry
  BY YarnTypes, Zenon DEF YarnInv
<1>3. result # "rejected"
  BY <1>1
<1>4. \A k \in 1..Len(L) : YarnSays(file, L[k]) /\ L[k].line \in 1..Len(file)
  BY <1>1, <1>3, Zenon DEF YarnWritten
<1>5. ASSUME l.word \in YarnEnds, NEW k \in 1..Len(L)
      PROVE  YarnSays(file', L[k]) /\ ~StillOpen(file', YarnEnds, L[k].line)
  BY <1>1, <1>2, <1>4, <1>5, YarnSaysStays, ClosedStays, Zenon
<1>6. ASSUME NEW k \in 1..Len(entries)
      PROVE  YarnSays(file', entries[k]) /\ ~StillOpen(file', YarnEnds, entries[k].line)
  <2>1. k \in 1..Len(L) /\ L[k] = entries[k]
    <3>1. CASE current = Nil
      BY <3>1, Zenon DEF Yarn!flushEntry
    <3>2. CASE current # Nil
      <4>1. k \in 1..Len(Append(entries, current)) /\ Append(entries, current)[k] = entries[k]
        BY <1>2, <3>2, AppendIs
      <4> QED BY <3>2, <4>1, Zenon DEF Yarn!flushEntry
    <3> QED BY <3>1, <3>2
  <2>2. YarnSays(file, entries[k]) /\ entries[k].line \in 1..Len(file)
    BY <1>4, <2>1, Zenon
  <2>3. ~StillOpen(file, YarnEnds, entries[k].line)
    BY <1>1, Zenon DEF YarnWritten, Closed
  <2> QED BY <1>1, <1>2, <2>2, <2>3, YarnSaysStays, ClosedStays, Zenon
<1>7. ASSUME NEW j \in 1..Len(file') PROVE file'[j].word # "text"
  <2>1. Len(file') = Len(file) + 1 /\ file'[Len(file) + 1] = l
        /\ \A k \in 1..Len(file) : file'[k] = file[k]
    BY <1>1, <1>2, AppendIs
  <2>2. j \in 1..Len(file) \/ j = Len(file) + 1
    BY <1>2, <2>1
  <2>3. l.word # "text"
    <3>1. Yarn!YarnWrites(l)
      BY Zenon DEF Yarn!Read
    <3>2. l.word \notin {"packages", "text", "long"}
      BY <3>1, YarnWritesIs, Zenon
    <3> QED BY <3>2
  <2> QED BY <2>1, <2>2, <2>3, Zenon DEF YarnWritten
<1> QED BY <1>5, <1>6, <1>7, Zenon

\* A line that is read within a block, and what it leaves of the entry.
LEMMA YarnLineKeeps ==
  ASSUME YarnInv, YarnWritten, scope.written, NEW l \in Yarn!Line, Yarn!Read(l),
         entries' = entries, inPackages' = inPackages,
         current = Nil => current' = Nil /\ ~checksumPending' /\ ~resolutionPending',
         current # Nil => /\ current' # Nil /\ current'.line = current.line
                          /\ YarnSays(file', current')
                          /\ YarnOpen(file', current'.line, checksumPending', resolutionPending')
  PROVE  YarnWritten'
<1>1. result = "reading" /\ scope' = scope
  BY YarnRead, Zenon
<1>2. /\ entries \in Seq(Yarn!Entry) /\ Len(entries) \in Nat
  BY YarnTypes, Zenon DEF YarnInv
<1>3. /\ \A j \in 1..Len(file') : file'[j].word # "text"
      /\ \A k \in 1..Len(entries) : /\ YarnSays(file', entries[k])
                                    /\ ~StillOpen(file', YarnEnds, entries[k].line)
  BY YarnListKeeps, Zenon
<1>4. \A k \in 1..Len(Yarn!flushEntry') : YarnSays(file', Yarn!flushEntry'[k])
  <2>1. CASE current = Nil
    BY <1>3, <2>1, Zenon DEF Yarn!flushEntry
  <2>2. CASE current # Nil
    <3> DEFINE M == Append(entries, current')
    <3>1. Yarn!flushEntry' = M
      BY <2>2, Zenon DEF Yarn!flushEntry
    <3>2. Len(M) = Len(entries) + 1 /\ (\A k \in 1..Len(entries) : M[k] = entries[k])
          /\ M[Len(entries) + 1] = current'
      BY <1>2
    <3> HIDE DEF M
    <3>3. \A k \in 1..Len(M) : k \in 1..Len(entries) \/ k = Len(entries) + 1
      BY <1>2, <3>2
    <3>4. \A k \in 1..Len(M) : YarnSays(file', M[k])
      BY <1>3, <2>2, <3>2, <3>3, Zenon
    <3> QED BY <3>1, <3>4, Zenon
  <2> QED BY <2>1, <2>2
<1>5. Closed(file', YarnEnds, entries')
  BY <1>3, Zenon DEF Closed
<1>6. current # Nil => inPackages
  BY <1>1, Zenon DEF YarnWritten
<1> QED BY <1>1, <1>3, <1>4, <1>5, <1>6, Zenon DEF YarnWritten

\* A block goes on with a property or a blank line.
LEMMA YarnPropertiesGrow ==
  ASSUME NEW fl \in Seq(Yarn!Line), NEW l \in Yarn!Line, NEW i \in 1..Len(fl),
         YarnProperties(fl, i), fl[Len(fl)].word # "blank",
         l.indent \in {2, 4} \/ l.word = "blank"
  PROVE  YarnProperties(Append(fl, l), i)
<1>1. Len(fl) \in Nat
  OBVIOUS
<1> DEFINE g == Append(fl, l)
           n == Len(fl)
<1>2. Len(g) = n + 1 /\ (\A k \in 1..n : g[k] = fl[k]) /\ g[n + 1] = l
  BY AppendIs
<1> HIDE DEF g
<1>3. ASSUME NEW j \in i+1..Len(g)
      PROVE  g[j].indent \in {2, 4} \/ (j = Len(g) /\ g[j].word = "blank")
  <2>1. CASE j = n + 1
    BY <1>2, <2>1
  <2>2. CASE j \in i+1..n
    <3>1. g[j] = fl[j]
      BY <1>1, <1>2, <2>2
    <3>2. fl[j].indent \in {2, 4}
      BY <2>2, Zenon DEF YarnProperties
    <3> QED BY <3>1, <3>2
  <2> QED BY <1>1, <1>2, <2>1, <2>2
<1> QED BY <1>3, Zenon DEF YarnProperties, g

\* A key ends the block before it and may begin one; the metadata come first.
LEMMA YarnKeyWritten ==
  ASSUME YarnInv, YarnWritten, scope.written, NEW l \in Yarn!Line, Yarn!Read(l),
         Yarn!Key(l) \/ Yarn!Metadata(l)
  PROVE  YarnWritten'
<1> DEFINE L == Yarn!flushEntry
           n == Len(file)
<1>1. /\ result = "reading" /\ scope' = scope /\ file' = Append(file, l)
      /\ Len(file') = n + 1 /\ Yarn!here = n + 1
      /\ \A k \in 1..Len(L) : L[k].line \in 1..n
  BY YarnRead, Zenon
<1>2. /\ file \in Seq(Yarn!Line) /\ L \in Seq(Yarn!Entry) /\ Len(L) \in Nat /\ n \in Nat
  BY YarnTypes, Zenon DEF YarnInv
<1>3. l.word \in YarnEnds
  BY DEF Yarn!Key, Yarn!Metadata, YarnEnds
<1>4. /\ \A j \in 1..Len(file') : file'[j].word # "text"
      /\ \A k \in 1..Len(L) : /\ YarnSays(file', L[k])
                              /\ ~StillOpen(file', YarnEnds, L[k].line)
  BY <1>3, YarnListKeeps, Zenon
<1>5. ~inPackages => current = Nil /\ L = entries /\ ~checksumPending /\ ~resolutionPending
  BY <1>1, Zenon DEF YarnWritten, Yarn!flushEntry
<1> DEFINE e == Yarn!EntryFor(l.key)
<1>6. /\ entries' = L /\ (current' = Nil \/ (current' = e /\ inPackages'))
      /\ ~checksumPending' /\ ~resolutionPending' /\ result' = result
  <2>1. CASE Yarn!Key(l)
    <3>1. /\ entries' = (IF inPackages THEN L ELSE entries)
          /\ current' = (IF Yarn!Skipped(l.key) THEN Nil ELSE e) /\ inPackages' = TRUE
          /\ checksumPending' = (checksumPending /\ ~inPackages)
          /\ resolutionPending' = (resolutionPending /\ ~inPackages) /\ result' = result
      BY <2>1, Zenon DEF Yarn!Key
    <3> HIDE DEF L, e
    <3> QED BY <1>5, <3>1
  <2>2. CASE Yarn!Metadata(l)
    <3>1. Yarn!YarnWrites(l) /\ l.word = "__metadata"
      BY <2>2, Zenon DEF Yarn!Read, Yarn!Metadata
    <3>2. file = <<>>
      BY <3>1, YarnWritesIs, Zenon
    <3>3. current = Nil
      <4>1. n = 0
        BY <3>2
      <4>2. current # Nil => current.line \in 1..n
        BY <1>1, YarnReading, Zenon
      <4> QED BY <4>1, <4>2
    <3>4. /\ entries' = (IF inPackages THEN L ELSE entries)
          /\ current' = (IF inPackages THEN Nil ELSE current)
          /\ checksumPending' = checksumPending /\ resolutionPending' = resolutionPending
          /\ result' = result
      BY <2>2, Zenon DEF Yarn!Metadata
    <3>5. ~checksumPending /\ ~resolutionPending
      BY <1>1, <3>3, Zenon DEF YarnWritten
    <3> HIDE DEF L, e
    <3> QED BY <1>5, <3>3, <3>4, <3>5
  <2> QED BY <2>1, <2>2
<1>7. e.line = n + 1 /\ e.version = 0 /\ e.integrity = 0 /\ e.resolved = 0
  BY <1>1, Zenon DEF Yarn!EntryFor
<1>8. \A j : j \notin (n + 1)+1..Len(file')
  BY <1>1, <1>2
<1>9. \A word, sub : YarnLines(file', n + 1, word, sub) = {}
  BY <1>8, Zenon DEF YarnLines
<1>10. YarnSays(file', e)
  <2> HIDE DEF e
  <2> QED BY <1>7, <1>9, Zenon DEF YarnSays, Only
<1>11. YarnOpen(file', n + 1, FALSE, FALSE)
  <2>1. ~(n + 1 < Len(file'))
    BY <1>1, <1>2
  <2> QED BY <1>8, <2>1, Zenon DEF YarnOpen, YarnProperties
<1> HIDE DEF e
<1>12. \A k \in 1..Len(Yarn!flushEntry') : YarnSays(file', Yarn!flushEntry'[k])
  <2>1. CASE current' = Nil
    <3>1. Yarn!flushEntry' = L
      BY <1>6, <2>1, Zenon DEF Yarn!flushEntry
    <3> QED BY <1>4, <3>1, Zenon
  <2>2. CASE current' # Nil
    <3> DEFINE M == Append(L, e)
    <3>1. Yarn!flushEntry' = M
      BY <1>6, <2>2, Zenon DEF Yarn!flushEntry
    <3>2. Len(M) = Len(L) + 1 /\ (\A k \in 1..Len(L) : M[k] = L[k]) /\ M[Len(L) + 1] = e
      <4> HIDE DEF L
      <4> QED BY <1>2
    <3> HIDE DEF M, L
    <3>3. \A k \in 1..Len(M) : k \in 1..Len(L) \/ k = Len(L) + 1
      BY <1>2, <3>2
    <3>4. \A k \in 1..Len(M) : YarnSays(file', M[k])
      BY <1>4, <1>10, <3>2, <3>3, Zenon
    <3> QED BY <3>1, <3>4, Zenon
  <2> QED BY <2>1, <2>2
<1>13. Closed(file', YarnEnds, entries')
  BY <1>4, <1>6, Zenon DEF Closed
<1>14. ASSUME current' # Nil
       PROVE  inPackages' /\ YarnOpen(file', current'.line, checksumPending', resolutionPending')
  <2>1. inPackages' /\ current'.line = n + 1
    BY <1>6, <1>7, <1>14, Zenon
  <2>2. checksumPending' = FALSE /\ resolutionPending' = FALSE
    <3>1. checksumPending' \in BOOLEAN /\ resolutionPending' \in BOOLEAN
      <4>1. checksumPending \in BOOLEAN /\ resolutionPending \in BOOLEAN
        BY Zenon DEF YarnInv, Yarn!TypeOK
      <4> QED BY <4>1, Zenon DEF Yarn!Key, Yarn!Metadata
    <3> QED BY <1>6, <3>1
  <2> QED BY <1>11, <2>1, <2>2, Zenon
<1> QED BY <1>1, <1>4, <1>6, <1>12, <1>13, <1>14, Zenon DEF YarnWritten

\* The property that the end of a block stands below is one.
LEMMA YarnBelowOne ==
  ASSUME NEW fl, NEW n \in Nat, NEW p \in 1..n, NEW q \in 1..n,
         fl[p].indent = 2, fl[q].indent = 2, YarnBelow(fl, p, n), YarnBelow(fl, q, n)
  PROVE  p = q
<1>1. CASE p < q
  <2>1. q \in p+1..n
    BY <1>1
  <2> QED BY <2>1 DEF YarnBelow
<1>2. CASE q < p
  <2>1. p \in q+1..n
    BY <1>2
  <2> QED BY <2>1 DEF YarnBelow
<1> QED BY <1>1, <1>2

\* What the block waits for, by that property.
LEMMA YarnWantsIs ==
  ASSUME NEW fl, NEW n \in Nat, Len(fl) = n, NEW i \in 1..n, StillOpen(fl, YarnEnds, i),
         NEW p \in i+1..n, fl[p].indent = 2, YarnBelow(fl, p, n), NEW word, NEW sub
  PROVE  YarnWants(fl, i, word, sub)
           <=> fl[p].word = word /\ \A k \in p+1..n : fl[k].word # sub
<1>1. Own(fl, YarnEnds, i) = i+1..n /\ i \in Nat
  BY OwnRange
<1>2. ASSUME NEW j \in i+1..n, YarnProperty(fl, i, word, j), YarnBelow(fl, j, n) PROVE j = p
  <2>1. j \in 1..n /\ p \in 1..n
    OBVIOUS
  <2> QED BY <1>2, <2>1, YarnBelowOne, Zenon DEF YarnProperty
<1>3. p \in Own(fl, YarnEnds, i)
  BY <1>1
<1>4. YarnProperty(fl, i, word, p) <=> fl[p].word = word
  BY <1>3, Zenon DEF YarnProperty
<1> QED BY <1>2, <1>4, Zenon DEF YarnWants

\* A block without a property states no value of it.
LEMMA YarnNone ==
  ASSUME NEW fl, NEW i, NEW word, NEW sub,
         \A j \in i+1..Len(fl) : fl[j].indent = 2 => fl[j].word # word
  PROVE  YarnLines(fl, i, word, sub) = {}
<1>1. \A j : ~YarnProperty(fl, i, word, j)
  BY Zenon DEF YarnProperty, Own
<1> QED BY <1>1, Zenon DEF YarnLines

\* What a line that yarn writes within a block finds there.
LEMMA YarnWithin ==
  ASSUME YarnInv, YarnWritten, scope.written, NEW l \in Yarn!Line, Yarn!Read(l),
         current # Nil, l.indent \in {2, 4} \/ l.word = "blank"
  PROVE  LET n == Len(file)
             i == current.line
         IN  /\ n \in Nat /\ i \in 1..n /\ file \in Seq(Yarn!Line)
             /\ file' = Append(file, l) /\ Len(file') = n + 1 /\ file'[n + 1] = l
             /\ \A k \in 1..n : file'[k] = file[k]
             /\ Yarn!here = n + 1
             /\ YarnProperties(file', i)
             /\ l.indent # 4 => ~checksumPending
             /\ l.indent = 2 => /\ \/ l.word = "other"
                                   \/ \A j \in i+1..n : file[j].indent = 2 => file[j].word # l.word
                                /\ l.word = "version" => l.val
             /\ l.indent = 4 =>
                  \E p \in i+1..n :
                    /\ file[p].indent = 2 /\ YarnBelow(file, p, n) /\ ~file[p].val
                    /\ \/ /\ file[p].word = "other" /\ ~checksumPending /\ ~resolutionPending
                       \/ /\ file[p].word = "resolution" /\ ~checksumPending /\ l.val
                          /\ resolutionPending <=> \A k \in p+1..n : file[k].word # "tarball"
                       \/ /\ file[p].word = "checksum" /\ checksumPending /\ p = n
                          /\ l.word = "other" /\ l.val
<1> DEFINE n == Len(file)
           i == current.line
           props == {j \in i+1..n : file[j].indent = 2}
<1>1. /\ file' = Append(file, l) /\ Len(file') = n + 1 /\ file'[Len(file')] = l
      /\ Yarn!here = n + 1 /\ result = "reading"
  BY YarnRead, Zenon
<1>2. file \in Seq(Yarn!Line) /\ n \in Nat
  BY YarnTypes, Zenon DEF YarnInv
<1>3. /\ i \in 1..n /\ file[i].word = "key" /\ StillOpen(file, YarnEnds, i)
      /\ YarnOpen(file, i, checksumPending, resolutionPending)
      /\ checksumPending \in BOOLEAN /\ resolutionPending \in BOOLEAN
  BY <1>1, YarnReading, Zenon
<1>4. (\A k \in 1..n : file'[k] = file[k]) /\ file # <<>>
  BY <1>1, <1>2, <1>3, AppendIs
<1>5. YarnProperties(file, i)
  BY <1>3, Zenon DEF YarnOpen
<1>6. Yarn!YarnWrites(l)
  BY Zenon DEF Yarn!Read
<1>7. /\ l.word = "blank" => file[n].word # "blank" /\ ~Yarn!valueExpected
      /\ l.indent = 2 => /\ file[n].word # "blank" /\ ~Yarn!valueExpected
                         /\ l.word = "other" \/ l.word \notin Yarn!inBlock
                         /\ l.word = "version" => l.val
      /\ l.indent = 4 => \/ Yarn!openProperty = "other"
                         \/ Yarn!openProperty = "resolution" /\ l.val
                         \/ /\ Yarn!openProperty = "checksum" /\ Yarn!valueExpected
                            /\ l.word = "other" /\ l.val
  BY <1>4, <1>6, YarnWritesIs, Zenon
<1>8. /\ file[n].word # "blank" => Yarn!inBlock = {file[j].word : j \in props}
      /\ Yarn!openProperty # "none" =>
           /\ file[n].word # "blank"
           /\ \E p \in props : /\ file[p].word = Yarn!openProperty
                               /\ file[p].val # TRUE
                               /\ YarnBelow(file, p, n)
  BY <1>2, <1>3, <1>5, YarnWritesBlock, ZenonT(60)
<1>9. file[n].word # "blank"
  BY <1>7, <1>8
<1>10. YarnProperties(file', i)
  BY <1>1, <1>2, <1>3, <1>5, <1>9, YarnPropertiesGrow, Zenon
<1>11. Yarn!valueExpected
         <=> file[n].word \in {"resolution", "checksum", "version"} /\ ~file[n].val
  BY <1>4, Zenon DEF Yarn!valueExpected
<1>12. checksumPending <=> i < n /\ file[n].word = "checksum" /\ ~file[n].val
  BY <1>3, Zenon DEF YarnOpen
<1>13. ASSUME l.indent # 4 PROVE ~checksumPending
  <2>1. ~Yarn!valueExpected
    BY <1>7, <1>13
  <2> QED BY <1>11, <1>12, <2>1
<1>14. ASSUME l.indent = 2
       PROVE  /\ \/ l.word = "other"
                 \/ \A j \in i+1..n : file[j].indent = 2 => file[j].word # l.word
              /\ l.word = "version" => l.val
  <2>1. l.word = "other" \/ l.word \notin {file[j].word : j \in props}
    BY <1>7, <1>8, <1>9, <1>14, Zenon
  <2>2. l.word = "version" => l.val
    BY <1>7, <1>14, Zenon
  <2> QED BY <2>1, <2>2
<1>15. ASSUME l.indent = 4
       PROVE  \E p \in i+1..n :
                /\ file[p].indent = 2 /\ YarnBelow(file, p, n) /\ ~file[p].val
                /\ \/ /\ file[p].word = "other" /\ ~checksumPending /\ ~resolutionPending
                   \/ /\ file[p].word = "resolution" /\ ~checksumPending /\ l.val
                      /\ resolutionPending <=> \A k \in p+1..n : file[k].word # "tarball"
                   \/ /\ file[p].word = "checksum" /\ checksumPending /\ p = n
                      /\ l.word = "other" /\ l.val
  <2>1. Yarn!openProperty \in {"other", "resolution", "checksum"}
    BY <1>7, <1>15
  <2>2. PICK p \in props : /\ file[p].word = Yarn!openProperty
                           /\ file[p].val # TRUE /\ YarnBelow(file, p, n)
    <3>1. Yarn!openProperty # "none"
      BY <2>1
    <3> QED BY <1>8, <3>1, Zenon
  <2>3. p \in i+1..n /\ p \in 1..n /\ file[p].indent = 2 /\ n \in 1..n
    BY <1>2, <1>3
  <2>4. ~file[p].val
    <3>1. file[p] \in Yarn!Line
      BY <1>2, <2>3
    <3>2. file[p].val \in BOOLEAN
      BY <2>3, <3>1, YarnLineIs
    <3> QED BY <2>2, <3>2
  <2>5. ASSUME file[n].word \in {"resolution", "checksum", "version"} PROVE p = n
    <3>1. file[n].indent = 2
      <4>1. file[n] \in Yarn!Line
        BY <1>2, <2>3
      <4> QED BY <2>5, <4>1, YarnWordIs
    <3>2. n \notin p+1..n
      BY <2>2, <3>1 DEF YarnBelow
    <3> QED BY <1>2, <2>3, <3>2
  <2>6. ASSUME file[p].word # "checksum" PROVE ~checksumPending
    <3> HIDE DEF n, i
    <3> QED BY <1>12, <2>5, <2>6
  <2>7. /\ file[p].word = "other" => ~resolutionPending
        /\ file[p].word = "resolution" =>
             (resolutionPending <=> \A k \in p+1..n : file[k].word # "tarball")
    BY <1>3, <2>2, <2>3, <2>4, Zenon DEF YarnOpen
  <2>8. CASE Yarn!openProperty = "other"
    <3>1. file[p].word = "other" /\ file[p].word # "checksum"
      BY <2>2, <2>8
    <3> QED BY <2>2, <2>3, <2>4, <2>6, <2>7, <3>1, Zenon
  <2>9. CASE Yarn!openProperty = "resolution" /\ l.val
    <3>1. file[p].word = "resolution" /\ file[p].word # "checksum"
      BY <2>2, <2>9
    <3> QED BY <2>2, <2>3, <2>4, <2>6, <2>7, <2>9, <3>1, Zenon
  <2>10. CASE /\ Yarn!openProperty = "checksum" /\ Yarn!valueExpected
              /\ l.word = "other" /\ l.val
    <3>1. file[p].word = "checksum" /\ p = n
      BY <1>11, <2>2, <2>5, <2>10, Zenon
    <3>2. i < n
      BY <1>2, <1>3, <2>3, <3>1
    <3>3. checksumPending
      BY <1>12, <2>4, <3>1, <3>2, Zenon
    <3> QED BY <2>2, <2>3, <2>4, <2>10, <3>1, <3>3, Zenon
  <2> QED BY <1>7, <1>15, <2>8, <2>9, <2>10, Zenon
<1>16. file'[n + 1] = l
  BY <1>1, Zenon
<1> QED BY <1>1, <1>2, <1>3, <1>4, <1>10, <1>13, <1>14, <1>15, <1>16, Zenon

\* What that line states.
LEMMA YarnWithinStates ==
  ASSUME YarnInv, YarnWritten, scope.written, NEW l \in Yarn!Line, Yarn!Read(l),
         current # Nil, l.indent \in {2, 4} \/ l.word = "blank", NEW word, NEW sub
  PROVE  LET i == current.line
             more == \/ l.indent = 2 /\ l.word = word /\ l.val
                     \/ l.indent = 4 /\ l.word = sub /\ YarnWants(file, i, word, sub)
         IN  YarnLines(file', i, word, sub)
               = YarnLines(file, i, word, sub) \cup (IF more THEN {Len(file) + 1} ELSE {})
<1> DEFINE i == current.line
<1>1. file' = Append(file, l) /\ result = "reading"
  BY YarnRead, Zenon
<1>2. file \in Seq(Yarn!Line)
  BY YarnTypes, Zenon DEF YarnInv
<1>3. i \in 1..Len(file) /\ StillOpen(file, YarnEnds, i)
  BY <1>1, YarnReading, Zenon
<1>4. l.word \notin YarnEnds
  <2>1. CASE l.word = "blank"
    BY <2>1 DEF YarnEnds
  <2>2. CASE l.indent \in {2, 4}
    <3>1. l.indent # 0
      BY <2>2
    <3> QED BY <3>1, YarnWordIs, Zenon
  <2> QED BY <2>1, <2>2
<1> DEFINE more == \/ l.indent = 2 /\ l.word = word /\ l.val
                   \/ l.indent = 4 /\ l.word = sub /\ YarnWants(file, i, word, sub)
<1>5. YarnStates(file, i, l, word, sub) <=> more
  BY <1>3, <1>4, Zenon DEF YarnStates
<1> HIDE DEF i, more
<1>6. YarnLines(Append(file, l), i, word, sub)
        = YarnLines(file, i, word, sub)
            \cup (IF YarnStates(file, i, l, word, sub) THEN {Len(file) + 1} ELSE {})
  BY <1>2, <1>3, YarnLinesGrow
<1>7. YarnLines(file', i, word, sub)
        = YarnLines(file, i, word, sub) \cup (IF more THEN {Len(file) + 1} ELSE {})
  BY <1>1, <1>5, <1>6
<1> QED BY <1>7, Zenon DEF i, more

\* What a property or a blank line leaves of what the parser waits for.
LEMMA YarnOpenGrows ==
  ASSUME NEW fl, NEW i \in Nat, Len(fl) \in Nat, i < Len(fl), YarnProperties(fl, i),
         NEW checksum \in BOOLEAN, NEW resolution \in BOOLEAN,
         checksum => YarnLines(fl, i, "checksum", "other") = {},
         resolution => YarnLines(fl, i, "resolution", "tarball") = {},
         LET l == fl[Len(fl)]
         IN  /\ l.indent # 4
             /\ checksum <=> l.word = "checksum" /\ ~l.val
             /\ l.word = "other" => ~resolution
             /\ l.word = "resolution" /\ ~l.val => resolution
  PROVE  YarnOpen(fl, i, checksum, resolution)
<1> DEFINE n == Len(fl)
<1>1. ASSUME NEW j \in i+1..n, YarnBelow(fl, j, n) PROVE j = n
  <2>1. n \notin j+1..n
    BY <1>1 DEF YarnBelow
  <2> QED BY <2>1
<1>2. \A k : k \notin n+1..n
  OBVIOUS
<1>3. ASSUME NEW j \in i+1..n, YarnBelow(fl, j, n)
      PROVE  /\ fl[j].word = "other" => ~resolution
             /\ fl[j].word = "resolution" /\ ~fl[j].val =>
                  (resolution <=> \A k \in j+1..n : fl[k].word # "tarball")
  <2>1. j = n
    BY <1>1, <1>3, Zenon
  <2> QED BY <1>2, <2>1, Zenon
<1>4. checksum <=> i < n /\ fl[n].word = "checksum" /\ ~fl[n].val
  OBVIOUS
<1> QED BY <1>3, <1>4, Zenon DEF YarnOpen

\* What a line below a property leaves.
LEMMA YarnOpenBelow ==
  ASSUME NEW fl \in Seq(Yarn!Line), NEW l \in Yarn!Line, NEW i \in 1..Len(fl),
         NEW p \in i+1..Len(fl), fl[p].indent = 2, YarnBelow(fl, p, Len(fl)),
         l.indent = 4, YarnProperties(Append(fl, l), i),
         NEW resolution \in BOOLEAN,
         resolution => YarnLines(Append(fl, l), i, "resolution", "tarball") = {},
         fl[p].word = "other" => ~resolution,
         fl[p].word = "resolution" /\ ~fl[p].val =>
           (resolution <=> l.word # "tarball" /\ \A k \in p+1..Len(fl) : fl[k].word # "tarball")
  PROVE  YarnOpen(Append(fl, l), i, FALSE, resolution)
<1> DEFINE n == Len(fl)
           g == Append(fl, l)
<1>1. n \in Nat /\ Len(g) = n + 1 /\ (\A k \in 1..n : g[k] = fl[k]) /\ g[n + 1] = l
  BY AppendIs
<1>2. p \in 1..n /\ p \in 1..n + 1 /\ n + 1 \in Nat /\ i \in Nat
  BY <1>1
<1> HIDE DEF n, g
<1>3. \A k \in p+1..n + 1 : (k \in p+1..n /\ g[k] = fl[k]) \/ k = n + 1
  BY <1>1, <1>2
<1>4. /\ \A k \in p+1..n : k \in p+1..n + 1 /\ g[k] = fl[k]
      /\ n + 1 \in p+1..n + 1
  BY <1>1, <1>2
<1>5. YarnBelow(g, p, n + 1)
  BY <1>1, <1>3, Zenon DEF YarnBelow, n
<1>6. g[p] = fl[p]
  BY <1>1, <1>2
<1>7. fl[p].word = "resolution" /\ ~fl[p].val =>
        (resolution <=> \A k \in p+1..n + 1 : g[k].word # "tarball")
  BY <1>1, <1>3, <1>4, Zenon DEF n
<1>8. ASSUME NEW j \in i+1..n + 1, g[j].indent = 2, YarnBelow(g, j, n + 1) PROVE j = p
  <2>1. j \in 1..n + 1
    BY <1>1, <1>2
  <2> QED BY <1>2, <1>5, <1>6, <1>8, <2>1, YarnBelowOne, Zenon
<1>9. ~(g[n + 1].word = "checksum")
  <2>1. l.word # "checksum"
    BY YarnWordIs
  <2> QED BY <1>1, <2>1
<1>10. ASSUME NEW j \in i+1..n + 1, g[j].indent = 2, YarnBelow(g, j, n + 1)
       PROVE  /\ g[j].word = "other" => ~resolution
              /\ g[j].word = "resolution" /\ ~g[j].val =>
                   (resolution <=> \A k \in j+1..n + 1 : g[k].word # "tarball")
  <2>1. j = p
    BY <1>8, <1>10, Zenon
  <2> QED BY <1>6, <1>7, <2>1, Zenon
<1> QED BY <1>1, <1>9, <1>10, Zenon DEF YarnOpen, g

\* The values that an entry is given.
LEMMA YarnGiven ==
  ASSUME Yarn!TypeOK, current # Nil, NEW x \in Nat
  PROVE  LET b == [current EXCEPT !.version = x]
             c == [current EXCEPT !.integrity = x]
             d == [current EXCEPT !.resolved = x]
         IN  /\ b # Nil /\ b.line = current.line /\ b.version = x
             /\ b.integrity = current.integrity /\ b.resolved = current.resolved
             /\ c # Nil /\ c.line = current.line /\ c.version = current.version
             /\ c.integrity = x /\ c.resolved = current.resolved
             /\ d # Nil /\ d.line = current.line /\ d.version = current.version
             /\ d.integrity = current.integrity /\ d.resolved = x
<1>1. current \in Yarn!Entry /\ scope.lines \in Nat
  BY YarnTypes, Zenon
<1>2. current \in Yarn!Entries(Nat)
  BY <1>1 DEF Yarn!Entry, Yarn!Entries, Yarn!Place
<1>3. Nil \notin Yarn!Entries(Nat)
  BY ParsersAssumption, Zenon DEF ParsersAssumption, Yarn!ParserAssumption
<1>4. \A e \in Yarn!Entries(Nat) : e # Nil
  BY <1>3
<1>5. /\ [current EXCEPT !.version = x] \in Yarn!Entries(Nat)
      /\ [current EXCEPT !.integrity = x] \in Yarn!Entries(Nat)
      /\ [current EXCEPT !.resolved = x] \in Yarn!Entries(Nat)
  BY <1>2 DEF Yarn!Entries
<1>6. DOMAIN current = {"line", "name", "version", "integrity", "resolved"}
  BY <1>2 DEF Yarn!Entries
<1> QED BY <1>4, <1>5, <1>6

\* A property.
LEMMA YarnPropertyWritten ==
  ASSUME YarnInv, YarnWritten, scope.written, NEW l \in Yarn!Line, Yarn!Read(l),
         Yarn!Property(l)
  PROVE  YarnWritten'
<1> DEFINE n == Len(file)
           i == current.line
           V(fl) == YarnLines(fl, i, "version", "none")
           C(fl) == YarnLines(fl, i, "checksum", "other")
           R(fl) == YarnLines(fl, i, "resolution", "tarball")
<1>1. /\ l.indent = 2 /\ inPackages /\ current # Nil
      /\ entries' = entries /\ inPackages' = inPackages
  BY Zenon DEF Yarn!Property
<1>2. result = "reading"
  BY YarnRead, Zenon
<1>3. /\ current \in Yarn!Entry
      /\ Only(V(file), current.version) /\ Only(C(file), current.integrity)
      /\ Only(R(file), current.resolved)
      /\ YarnOpen(file, i, checksumPending, resolutionPending)
      /\ checksumPending \in BOOLEAN /\ resolutionPending \in BOOLEAN
  BY <1>1, <1>2, YarnReading, Zenon DEF YarnSays
<1>4. l.indent \in {2, 4} /\ l.indent # 4
  BY <1>1
<1>5. /\ n \in Nat /\ i \in 1..n /\ Len(file') = n + 1 /\ file'[n + 1] = l
      /\ Yarn!here = n + 1 /\ YarnProperties(file', i) /\ ~checksumPending
      /\ \/ l.word = "other"
         \/ \A j \in i+1..n : file[j].indent = 2 => file[j].word # l.word
      /\ l.word = "version" => l.val
  BY <1>1, <1>4, YarnWithin, ZenonT(60)
<1>6. l.val \in BOOLEAN /\ l.word \in {"version", "resolution", "checksum", "other"}
  BY <1>1, YarnLineIs
<1>7. ASSUME NEW word, NEW sub
      PROVE  YarnLines(file', i, word, sub)
               = YarnLines(file, i, word, sub)
                   \cup (IF l.word = word /\ l.val THEN {n + 1} ELSE {})
  <2>1. YarnLines(file', i, word, sub)
          = YarnLines(file, i, word, sub)
              \cup (IF \/ l.indent = 2 /\ l.word = word /\ l.val
                       \/ l.indent = 4 /\ l.word = sub /\ YarnWants(file, i, word, sub)
                      THEN {n + 1} ELSE {})
    BY <1>1, <1>4, YarnWithinStates
  <2> HIDE DEF n, i
  <2> QED BY <1>1, <1>4, <2>1
<1>8. ASSUME NEW word, NEW sub, l.word = word, word # "other"
      PROVE  /\ YarnLines(file, i, word, sub) = {}
             /\ YarnLines(file', i, word, sub) = (IF l.val THEN {n + 1} ELSE {})
  <2>1. YarnLines(file, i, word, sub) = {}
    BY <1>5, <1>8, YarnNone
  <2> QED BY <1>7, <1>8, <2>1
<1>9. ASSUME NEW word, NEW sub, l.word # word
       PROVE  YarnLines(file', i, word, sub) = YarnLines(file, i, word, sub)
  <2> DEFINE L == YarnLines(file, i, word, sub)
             M == YarnLines(file', i, word, sub)
             other == l.word = word /\ l.val
  <2>1. M = L \cup (IF other THEN {n + 1} ELSE {}) /\ ~other
    BY <1>7, <1>9, Zenon
  <2> HIDE DEF L, M, other
  <2>2. M = L
    BY <2>1
  <2> QED BY <2>2, Zenon DEF L, M
<1>10. i \in Nat /\ i < Len(file') /\ Len(file') \in Nat /\ file'[Len(file')] = l
  BY <1>5
<1>11. Yarn!TypeOK /\ n + 1 \in Nat
  BY <1>5 DEF YarnInv
<1>12. ASSUME current' # Nil, current'.line = i,
              Only(V(file'), current'.version), Only(C(file'), current'.integrity),
              Only(R(file'), current'.resolved),
              checksumPending' \in BOOLEAN, resolutionPending' \in BOOLEAN,
              checksumPending' => C(file') = {}, resolutionPending' => R(file') = {},
              checksumPending' <=> l.word = "checksum" /\ ~l.val,
              l.word = "other" => ~resolutionPending',
              l.word = "resolution" /\ ~l.val => resolutionPending'
       PROVE  YarnWritten'
  <2>1. YarnSays(file', current')
    BY <1>12, Zenon DEF YarnSays
  <2>2. YarnOpen(file', i, checksumPending', resolutionPending')
    <3> DEFINE fl == file'
               cs == checksumPending'
               rs == resolutionPending'
    <3>1. /\ i \in Nat /\ Len(fl) \in Nat /\ i < Len(fl) /\ YarnProperties(fl, i)
          /\ cs \in BOOLEAN /\ rs \in BOOLEAN
          /\ cs => C(fl) = {}
          /\ rs => R(fl) = {}
          /\ fl[Len(fl)].indent # 4
          /\ cs <=> fl[Len(fl)].word = "checksum" /\ ~fl[Len(fl)].val
          /\ fl[Len(fl)].word = "other" => ~rs
          /\ fl[Len(fl)].word = "resolution" /\ ~fl[Len(fl)].val => rs
      BY <1>4, <1>5, <1>10, <1>12, Zenon
    <3> HIDE DEF fl, cs, rs, i
    <3>2. YarnOpen(fl, i, cs, rs)
      BY <3>1, YarnOpenGrows, ZenonT(60)
    <3> QED BY <3>2, Zenon DEF fl, cs, rs
  <2> QED BY <1>1, <1>12, <2>1, <2>2, YarnLineKeeps, Zenon
<1> DEFINE x == IF l.val THEN n + 1 ELSE 0
           Av == /\ current' = [current EXCEPT !.version = Yarn!Given(l, @)]
                 /\ UNCHANGED <<checksumPending, resolutionPending>>
           Ar == /\ current' = [current EXCEPT !.resolved = Yarn!Given(l, @)]
                 /\ resolutionPending' = ~l.val /\ UNCHANGED checksumPending
           Ac == /\ current' = [current EXCEPT !.integrity = Yarn!Given(l, @)]
                 /\ checksumPending' = ~l.val /\ UNCHANGED resolutionPending
           Ao == /\ checksumPending' = FALSE /\ resolutionPending' = FALSE /\ UNCHANGED current
<1>13. \/ l.word = "version" /\ Av
       \/ l.word = "resolution" /\ Ar
       \/ l.word = "checksum" /\ Ac
       \/ l.word = "other" /\ Ao
  <2>1. (CASE l.word = "version" -> Av [] l.word = "resolution" -> Ar
          [] l.word = "checksum" -> Ac [] l.word = "other" -> Ao)
    BY Zenon DEF Yarn!Property
  <2> HIDE DEF Av, Ar, Ac, Ao
  <2> QED BY <1>6, <2>1
<1>14. x \in Nat /\ Only((IF l.val THEN {n + 1} ELSE {}), x)
  BY <1>5 DEF Only
<1>15. \A v : Only({}, v) => v = 0
  BY DEF Only
<1>16. \A v : v = 0 => Yarn!Given(l, v) = x
  BY <1>5, Zenon DEF Yarn!Given
<1> HIDE DEF V, C, R, n, x, i
<1>17. CASE l.word = "version" /\ Av
  <2>1. V(file) = {} /\ V(file') = (IF l.val THEN {n + 1} ELSE {})
    <3>1. "version" # "other"
      OBVIOUS
    <3> QED BY <1>8, <1>17, <3>1 DEF V
  <2>2. C(file') = C(file) /\ R(file') = R(file)
    <3>1. l.word # "checksum" /\ l.word # "resolution"
      BY <1>17
    <3> QED BY <1>9, <3>1, Zenon DEF C, R
  <2>3. current' = [current EXCEPT !.version = x]
    <3>1. current.version = 0
      BY <1>3, <1>15, <2>1, Zenon
    <3> QED BY <1>16, <1>17, <3>1, Zenon
  <2>4. /\ current' # Nil /\ current'.line = i /\ current'.version = x
        /\ current'.integrity = current.integrity /\ current'.resolved = current.resolved
    BY <1>1, <1>11, <1>14, <2>3, YarnGiven, Zenon DEF i
  <2>5. Only(V(file'), current'.version) /\ Only(C(file'), current'.integrity)
        /\ Only(R(file'), current'.resolved)
    BY <1>3, <1>14, <2>1, <2>2, <2>4, Zenon
  <2>6. checksumPending' = checksumPending /\ resolutionPending' = resolutionPending
    BY <1>17
  <2>7. l.word # "other" /\ l.word # "checksum" /\ l.word # "resolution"
    BY <1>17
  <2>8. resolutionPending' => R(file') = {}
    BY <1>3, <2>2, <2>6, Zenon DEF YarnOpen, R
  <2> QED BY <1>3, <1>5, <1>12, <2>4, <2>5, <2>6, <2>7, <2>8, Zenon
<1>18. CASE l.word = "resolution" /\ Ar
  <2>1. R(file) = {} /\ R(file') = (IF l.val THEN {n + 1} ELSE {})
    <3>1. "resolution" # "other"
      OBVIOUS
    <3> QED BY <1>8, <1>18, <3>1 DEF R
  <2>2. C(file') = C(file) /\ V(file') = V(file)
    <3>1. l.word # "checksum" /\ l.word # "version"
      BY <1>18
    <3> QED BY <1>9, <3>1, Zenon DEF C, V
  <2>3. current' = [current EXCEPT !.resolved = x]
    <3>1. current.resolved = 0
      BY <1>3, <1>15, <2>1, Zenon
    <3> QED BY <1>16, <1>18, <3>1, Zenon
  <2>4. /\ current' # Nil /\ current'.line = i /\ current'.resolved = x
        /\ current'.integrity = current.integrity /\ current'.version = current.version
    BY <1>1, <1>11, <1>14, <2>3, YarnGiven, Zenon DEF i
  <2>5. Only(V(file'), current'.version) /\ Only(C(file'), current'.integrity)
        /\ Only(R(file'), current'.resolved)
    BY <1>3, <1>14, <2>1, <2>2, <2>4, Zenon
  <2>6. checksumPending' = checksumPending /\ resolutionPending' = ~l.val
    BY <1>18
  <2>7. l.word # "other" /\ l.word # "checksum"
    BY <1>18
  <2>8. resolutionPending' => R(file') = {}
    BY <2>1, <2>6
  <2>9. resolutionPending' \in BOOLEAN
    BY <1>6, <2>6
  <2> QED BY <1>3, <1>5, <1>12, <2>4, <2>5, <2>6, <2>7, <2>8, <2>9, Zenon
<1>19. CASE l.word = "checksum" /\ Ac
  <2>1. C(file) = {} /\ C(file') = (IF l.val THEN {n + 1} ELSE {})
    <3>1. "checksum" # "other"
      OBVIOUS
    <3> QED BY <1>8, <1>19, <3>1 DEF C
  <2>2. R(file') = R(file) /\ V(file') = V(file)
    <3>1. l.word # "resolution" /\ l.word # "version"
      BY <1>19
    <3> QED BY <1>9, <3>1, Zenon DEF R, V
  <2>3. current' = [current EXCEPT !.integrity = x]
    <3>1. current.integrity = 0
      BY <1>3, <1>15, <2>1, Zenon
    <3> QED BY <1>16, <1>19, <3>1, Zenon
  <2>4. /\ current' # Nil /\ current'.line = i /\ current'.integrity = x
        /\ current'.resolved = current.resolved /\ current'.version = current.version
    BY <1>1, <1>11, <1>14, <2>3, YarnGiven, Zenon DEF i
  <2>5. Only(V(file'), current'.version) /\ Only(C(file'), current'.integrity)
        /\ Only(R(file'), current'.resolved)
    BY <1>3, <1>14, <2>1, <2>2, <2>4, Zenon
  <2>6. checksumPending' = ~l.val /\ resolutionPending' = resolutionPending
    BY <1>19
  <2>7. l.word # "other" /\ l.word # "resolution"
    BY <1>19
  <2>8. checksumPending' => C(file') = {}
    BY <2>1, <2>6
  <2>9. checksumPending' \in BOOLEAN
    BY <1>6, <2>6
  <2>10. resolutionPending' => R(file') = {}
    BY <1>3, <2>2, <2>6, Zenon DEF YarnOpen, R
  <2> QED BY <1>3, <1>12, <1>19, <2>4, <2>5, <2>6, <2>7, <2>8, <2>9, <2>10, Zenon
<1>20. CASE l.word = "other" /\ Ao
  <2>1. V(file') = V(file) /\ C(file') = C(file) /\ R(file') = R(file)
    <3>1. l.word # "version" /\ l.word # "checksum" /\ l.word # "resolution"
      BY <1>20
    <3> QED BY <1>9, <3>1, Zenon DEF V, C, R
  <2>2. /\ current' = current /\ checksumPending' = FALSE /\ resolutionPending' = FALSE
    BY <1>20
  <2>3. current' # Nil /\ current'.line = i
    BY <1>1, <2>2, Zenon DEF i
  <2>4. Only(V(file'), current'.version) /\ Only(C(file'), current'.integrity)
        /\ Only(R(file'), current'.resolved)
    BY <1>3, <2>1, <2>2, Zenon
  <2>5. FALSE \in BOOLEAN /\ l.word # "checksum" /\ l.word # "resolution"
    BY <1>20
  <2> QED BY <1>12, <2>2, <2>3, <2>4, <2>5, Zenon
<1> QED BY <1>13, <1>17, <1>18, <1>19, <1>20

\* A line below a property.
LEMMA YarnBelowWritten ==
  ASSUME YarnInv, YarnWritten, scope.written, NEW l \in Yarn!Line, Yarn!Read(l),
         Yarn!SubProperty(l)
  PROVE  YarnWritten'
<1> DEFINE n == Len(file)
           i == current.line
           V(fl) == YarnLines(fl, i, "version", "none")
           C(fl) == YarnLines(fl, i, "checksum", "other")
           R(fl) == YarnLines(fl, i, "resolution", "tarball")
<1>1. /\ l.indent = 4 /\ inPackages /\ current # Nil
      /\ entries' = entries /\ inPackages' = inPackages
  BY Zenon DEF Yarn!SubProperty
<1>2. result = "reading"
  BY YarnRead, Zenon
<1>3. /\ current \in Yarn!Entry /\ StillOpen(file, YarnEnds, i)
      /\ Only(V(file), current.version) /\ Only(C(file), current.integrity)
      /\ Only(R(file), current.resolved)
      /\ checksumPending => C(file) = {}
      /\ resolutionPending => R(file) = {}
      /\ checksumPending \in BOOLEAN /\ resolutionPending \in BOOLEAN
  BY <1>1, <1>2, YarnReading, Zenon DEF YarnSays, YarnOpen
<1>4. l.indent \in {2, 4} /\ l.indent # 2
  BY <1>1
<1>5. /\ n \in Nat /\ i \in 1..n /\ file \in Seq(Yarn!Line)
      /\ file' = Append(file, l) /\ Yarn!here = n + 1 /\ YarnProperties(file', i)
      /\ \E p \in i+1..n :
            /\ file[p].indent = 2 /\ YarnBelow(file, p, n) /\ ~file[p].val
            /\ \/ /\ file[p].word = "other" /\ ~checksumPending /\ ~resolutionPending
               \/ /\ file[p].word = "resolution" /\ ~checksumPending /\ l.val
                  /\ resolutionPending <=> \A k \in p+1..n : file[k].word # "tarball"
               \/ /\ file[p].word = "checksum" /\ checksumPending /\ p = n
                  /\ l.word = "other" /\ l.val
  BY <1>1, <1>4, YarnWithin, ZenonT(60)
<1>6. PICK p \in i+1..n :
            /\ file[p].indent = 2 /\ YarnBelow(file, p, n) /\ ~file[p].val
            /\ \/ /\ file[p].word = "other" /\ ~checksumPending /\ ~resolutionPending
               \/ /\ file[p].word = "resolution" /\ ~checksumPending /\ l.val
                  /\ resolutionPending <=> \A k \in p+1..n : file[k].word # "tarball"
               \/ /\ file[p].word = "checksum" /\ checksumPending /\ p = n
                  /\ l.word = "other" /\ l.val
  BY <1>5, Zenon
<1>7. l.word \in {"tarball", "other"}
  BY <1>1, YarnWordIs
<1>8. ASSUME NEW word, NEW sub
      PROVE  YarnLines(file', i, word, sub)
               = YarnLines(file, i, word, sub)
                   \cup (IF /\ l.word = sub /\ file[p].word = word
                            /\ \A k \in p+1..n : file[k].word # sub
                           THEN {n + 1} ELSE {})
  <2>1. YarnLines(file', i, word, sub)
          = YarnLines(file, i, word, sub)
              \cup (IF \/ l.indent = 2 /\ l.word = word /\ l.val
                       \/ l.indent = 4 /\ l.word = sub /\ YarnWants(file, i, word, sub)
                      THEN {n + 1} ELSE {})
    BY <1>1, <1>4, YarnWithinStates
  <2>2. YarnWants(file, i, word, sub)
          <=> file[p].word = word /\ \A k \in p+1..n : file[k].word # sub
    <3> HIDE DEF n, i
    <3>1. Len(file) = n /\ i \in 1..n
      BY <1>5, Zenon DEF n
    <3> QED BY <1>3, <1>5, <1>6, <3>1, YarnWantsIs
  <2> HIDE DEF n, i
  <2> QED BY <1>1, <1>4, <2>1, <2>2
<1>8a. ASSUME NEW word, NEW sub, l.word # sub \/ file[p].word # word
       PROVE  YarnLines(file', i, word, sub) = YarnLines(file, i, word, sub)
  <2>1. ~(/\ l.word = sub /\ file[p].word = word
          /\ \A k \in p+1..n : file[k].word # sub)
    BY <1>8a
  <2>2. YarnLines(file', i, word, sub)
               = YarnLines(file, i, word, sub)
                   \cup (IF /\ l.word = sub /\ file[p].word = word
                            /\ \A k \in p+1..n : file[k].word # sub
                           THEN {n + 1} ELSE {})
    BY <1>8
  <2> HIDE DEF n, i
  <2> QED BY <2>1, <2>2
<1>9. Yarn!TypeOK /\ n + 1 \in Nat /\ \A v : Only({}, v) => v = 0
  BY <1>5 DEF YarnInv, Only
<1>10. V(file') = V(file)
  <2>1. l.word # "none"
    BY <1>7
  <2> QED BY <1>8a, <2>1, Zenon
<1> HIDE DEF V, C, R
<1>11. ASSUME current' # Nil, current'.line = i,
              Only(V(file'), current'.version), Only(C(file'), current'.integrity),
              Only(R(file'), current'.resolved),
              checksumPending' = FALSE, resolutionPending' \in BOOLEAN,
              resolutionPending' => R(file') = {},
              file[p].word = "other" => ~resolutionPending',
              file[p].word = "resolution" =>
                (resolutionPending'
                   <=> l.word # "tarball" /\ \A k \in p+1..n : file[k].word # "tarball")
       PROVE  YarnWritten'
  <2>1. YarnSays(file', current')
    BY <1>11, Zenon DEF YarnSays, V, C, R
  <2>2. YarnOpen(file', i, checksumPending', resolutionPending')
    <3> DEFINE rs == resolutionPending'
    <3>1. /\ rs \in BOOLEAN
          /\ rs => YarnLines(Append(file, l), i, "resolution", "tarball") = {}
          /\ file[p].word = "other" => ~rs
          /\ file[p].word = "resolution" /\ ~file[p].val =>
                (rs <=> l.word # "tarball" /\ \A k \in p+1..n : file[k].word # "tarball")
      BY <1>5, <1>11, Zenon DEF R
    <3>2. YarnProperties(Append(file, l), i)
      BY <1>5, Zenon
    <3> HIDE DEF rs, i
    <3>3. YarnOpen(Append(file, l), i, FALSE, rs)
      BY <1>1, <1>5, <1>6, <3>1, <3>2, YarnOpenBelow, ZenonT(60)
    <3> QED BY <1>5, <1>11, <3>3, Zenon DEF rs
  <2> QED BY <1>1, <1>11, <2>1, <2>2, YarnLineKeeps, Zenon
<1> DEFINE Ar == /\ resolutionPending /\ l.word = "tarball"
                 /\ current' = [current EXCEPT !.resolved = Yarn!Given(l, @)]
                 /\ resolutionPending' = FALSE /\ checksumPending' = checksumPending
           Ac == /\ checksumPending /\ ~(resolutionPending /\ l.word = "tarball")
                 /\ current' = [current EXCEPT !.integrity = Yarn!Given(l, @)]
                 /\ checksumPending' = FALSE /\ resolutionPending' = resolutionPending
           Ao == /\ ~checksumPending /\ ~(resolutionPending /\ l.word = "tarball")
                 /\ current' = current /\ checksumPending' = checksumPending
                 /\ resolutionPending' = resolutionPending
<1>12. Ar \/ Ac \/ Ao
  <2> DEFINE P == resolutionPending /\ l.word = "tarball"
             Q == checksumPending /\ ~(resolutionPending /\ l.word = "tarball")
             Br == /\ current' = [current EXCEPT !.resolved = Yarn!Given(l, @)]
                   /\ resolutionPending' = FALSE /\ UNCHANGED checksumPending
             Bc == /\ current' = [current EXCEPT !.integrity = Yarn!Given(l, @)]
                   /\ checksumPending' = FALSE /\ UNCHANGED resolutionPending
             Bo == UNCHANGED <<current, checksumPending, resolutionPending>>
  <2>1. (CASE P -> Br [] Q -> Bc [] OTHER -> Bo)
    BY Zenon DEF Yarn!SubProperty
  <2>2. Q => ~P
    BY Zenon
  <2> HIDE DEF P, Q, Br, Bc, Bo
  <2>3. (P /\ Br) \/ (Q /\ Bc) \/ (~P /\ ~Q /\ Bo)
    BY <2>1, <2>2
  <2> QED BY <2>3, Zenon DEF P, Q, Br, Bc, Bo
<1> DEFINE none == \A k \in p+1..n : file[k].word # "tarball"
<1>13. CASE file[p].word = "other" /\ ~checksumPending /\ ~resolutionPending
  <2>1. C(file') = C(file) /\ R(file') = R(file)
    <3>1. file[p].word # "checksum" /\ file[p].word # "resolution"
      BY <1>13
    <3> QED BY <1>8a, <3>1, Zenon DEF C, R
  <2>2. Ao
    BY <1>12, <1>13, Zenon
  <2>3. current' = current /\ checksumPending' = FALSE /\ resolutionPending' = FALSE
    BY <1>3, <1>13, <2>2
  <2>4. FALSE \in BOOLEAN /\ file[p].word # "resolution"
    BY <1>13
  <2> QED BY <1>1, <1>3, <1>10, <1>11, <2>1, <2>3, <2>4, Zenon
<1>14. CASE /\ file[p].word = "resolution" /\ ~checksumPending /\ l.val
            /\ resolutionPending <=> none
  <2>1. C(file') = C(file)
    <3>1. file[p].word # "checksum"
      BY <1>14
    <3> QED BY <1>8a, <3>1, Zenon DEF C
  <2>2. R(file') = R(file) \cup (IF l.word = "tarball" /\ resolutionPending THEN {n + 1} ELSE {})
    <3>1. R(file') = R(file) \cup (IF /\ l.word = "tarball" /\ file[p].word = "resolution"
                                      /\ none
                                     THEN {n + 1} ELSE {})
      BY <1>8, Zenon DEF R
    <3> HIDE DEF none
    <3> QED BY <1>14, <3>1
  <2>3. file[p].word # "other" /\ ~Ac /\ FALSE \in BOOLEAN
    BY <1>14
  <2>4. CASE Ar
    <3>1. R(file) = {} /\ R(file') = {n + 1}
      BY <1>3, <2>2, <2>4
    <3>2. current' = [current EXCEPT !.resolved = n + 1]
      BY <1>5, <1>14, <2>4, Zenon DEF Yarn!Given
    <3>3. /\ current' # Nil /\ current'.line = i /\ current'.version = current.version
          /\ current'.integrity = current.integrity /\ current'.resolved = n + 1
      BY <1>1, <1>9, <3>2, YarnGiven, Zenon
    <3>4. Only(R(file'), current'.resolved)
      BY <3>1, <3>3 DEF Only
    <3>5. Only(V(file'), current'.version) /\ Only(C(file'), current'.integrity)
      BY <1>3, <1>10, <2>1, <3>3, Zenon
    <3>6. checksumPending' = FALSE /\ resolutionPending' = FALSE
      BY <1>3, <1>14, <2>4
    <3>7. ~(l.word # "tarball")
      BY <2>4
    <3> QED BY <1>11, <2>3, <3>3, <3>4, <3>5, <3>6, <3>7, Zenon
  <2>5. CASE Ao
    <3>1. R(file') = R(file)
      BY <2>2, <2>5
    <3>2. current' = current /\ checksumPending' = FALSE
          /\ resolutionPending' = resolutionPending
      BY <1>3, <1>14, <2>5
    <3>3. resolutionPending' <=> l.word # "tarball" /\ none
      <4> HIDE DEF none
      <4> QED BY <1>14, <2>5, <3>2
    <3>4. resolutionPending' => R(file') = {}
      BY <1>3, <3>1, <3>2, Zenon
    <3> QED BY <1>1, <1>3, <1>10, <1>11, <2>1, <2>3, <3>1, <3>2, <3>3, <3>4, Zenon
  <2> QED BY <1>12, <2>3, <2>4, <2>5, Zenon
<1>15. CASE /\ file[p].word = "checksum" /\ checksumPending /\ p = n
            /\ l.word = "other" /\ l.val
  <2>1. R(file') = R(file)
    <3>1. l.word # "tarball"
      BY <1>15
    <3> QED BY <1>8a, <3>1, Zenon DEF R
  <2>2. C(file) = {} /\ C(file') = {n + 1}
    <3>1. C(file) = {}
      BY <1>3, <1>15
    <3>2. \A k : k \notin n+1..n
      BY <1>5
    <3>3. C(file') = C(file) \cup (IF /\ l.word = "other" /\ file[p].word = "checksum"
                                      /\ \A k \in p+1..n : file[k].word # "other"
                                     THEN {n + 1} ELSE {})
      BY <1>8, Zenon DEF C
    <3>4. \A k \in p+1..n : file[k].word # "other"
      BY <1>15, <3>2, Zenon
    <3> QED BY <1>15, <3>1, <3>3, <3>4
  <2>3. Ac /\ l.word # "tarball"
    <3>1. l.word # "tarball"
      BY <1>15
    <3> QED BY <1>12, <1>15, <3>1, Zenon
  <2>4. current' = [current EXCEPT !.integrity = n + 1]
    BY <1>5, <1>15, <2>3, Zenon DEF Yarn!Given
  <2>5. /\ current' # Nil /\ current'.line = i /\ current'.version = current.version
        /\ current'.integrity = n + 1 /\ current'.resolved = current.resolved
    BY <1>1, <1>9, <2>4, YarnGiven, Zenon
  <2>6. Only(C(file'), current'.integrity)
    BY <2>2, <2>5 DEF Only
  <2>7. Only(V(file'), current'.version) /\ Only(R(file'), current'.resolved)
    BY <1>3, <1>10, <2>1, <2>5, Zenon
  <2>8. checksumPending' = FALSE /\ resolutionPending' = resolutionPending
    BY <2>3
  <2>9. file[p].word # "other" /\ file[p].word # "resolution"
    BY <1>15
  <2> QED BY <1>3, <1>11, <2>1, <2>5, <2>6, <2>7, <2>8, <2>9, Zenon
<1> QED BY <1>6, <1>13, <1>14, <1>15, Zenon

\* A blank line, and the lines of a block that is skipped.
LEMMA YarnLineWritten ==
  ASSUME YarnInv, YarnWritten, scope.written, NEW l \in Yarn!Line, Yarn!Read(l),
         Yarn!Blank(l) \/ Yarn!Ignored(l)
  PROVE  YarnWritten'
<1> DEFINE i == current.line
<1>1. /\ entries' = entries /\ inPackages' = inPackages /\ current' = current
      /\ \/ l.word = "blank" /\ checksumPending' = FALSE /\ resolutionPending' = FALSE
         \/ /\ ~inPackages \/ current = Nil
            /\ checksumPending' = checksumPending /\ resolutionPending' = resolutionPending
  BY Zenon DEF Yarn!Blank, Yarn!Ignored, Yarn!state
<1>2. result = "reading"
  BY YarnRead, Zenon
<1>3. CASE current = Nil
  <2>1. ~checksumPending /\ ~resolutionPending
    BY <1>2, <1>3, Zenon DEF YarnWritten
  <2>2. ~checksumPending' /\ ~resolutionPending'
    BY <1>1, <2>1
  <2> QED BY <1>1, <1>3, <2>2, YarnLineKeeps, Zenon
<1>4. CASE current # Nil
  <2>1. inPackages /\ YarnSays(file, current)
    BY <1>2, <1>4, YarnReading, Zenon
  <2>2. l.word = "blank" /\ checksumPending' = FALSE /\ resolutionPending' = FALSE
    BY <1>1, <1>4, <2>1, Zenon
  <2>3. l.indent = 0
    BY <2>2, YarnWordIs
  <2>4. /\ i \in 1..Len(file) /\ Len(file) \in Nat
        /\ Len(file') = Len(file) + 1 /\ file'[Len(file) + 1] = l
        /\ YarnProperties(file', i)
    BY <1>4, <2>2, YarnWithin, ZenonT(60)
  <2>5. ASSUME NEW word, NEW sub
        PROVE  YarnLines(file', i, word, sub) = YarnLines(file, i, word, sub)
    <3>1. YarnLines(file', i, word, sub)
            = YarnLines(file, i, word, sub)
                \cup (IF \/ l.indent = 2 /\ l.word = word /\ l.val
                         \/ l.indent = 4 /\ l.word = sub /\ YarnWants(file, i, word, sub)
                        THEN {Len(file) + 1} ELSE {})
      BY <1>4, <2>2, YarnWithinStates
    <3> HIDE DEF i
    <3> QED BY <2>3, <3>1
  <2>6. YarnSays(file', current)
    BY <2>1, <2>5, Zenon DEF YarnSays
  <2>7. YarnOpen(file', i, FALSE, FALSE)
    <3>1. /\ i \in Nat /\ i < Len(file') /\ Len(file') \in Nat /\ file'[Len(file')] = l
      BY <2>4
    <3>2. FALSE \in BOOLEAN /\ l.word # "checksum" /\ l.word # "resolution" /\ l.indent # 4
      BY <2>2, <2>3
    <3> DEFINE fl == file'
    <3>3. /\ i \in Nat /\ i < Len(fl) /\ Len(fl) \in Nat /\ YarnProperties(fl, i)
          /\ fl[Len(fl)].indent # 4 /\ fl[Len(fl)].word # "checksum"
          /\ fl[Len(fl)].word # "resolution"
      BY <2>4, <3>1, <3>2, Zenon
    <3> HIDE DEF fl, i
    <3>4. YarnOpen(fl, i, FALSE, FALSE)
      BY <3>2, <3>3, YarnOpenGrows, ZenonT(60)
    <3> QED BY <3>4, Zenon DEF fl
  <2> QED BY <1>1, <1>4, <2>2, <2>6, <2>7, YarnLineKeeps, Zenon
<1> QED BY <1>3, <1>4

\* The end of the file.
LEMMA YarnEndWritten ==
  ASSUME YarnInv, YarnWritten, scope.written, Yarn!EndOfFile
  PROVE  YarnWritten'
<1> DEFINE L == Yarn!flushEntry
<1>1. /\ result = "reading" /\ entries' = L /\ current' = Nil /\ file' = file
      /\ result' = (IF Len(L) > maxEntries THEN "rejected" ELSE "listed")
  BY Zenon DEF Yarn!EndOfFile
<1>2. result # "rejected" /\ result' # "reading"
  <2> HIDE DEF L
  <2> QED BY <1>1
<1>3. Yarn!flushEntry' = L
  BY <1>1, Zenon DEF Yarn!flushEntry
<1>4. \A k \in 1..Len(L) : YarnSays(file, L[k])
  BY <1>2, Zenon DEF YarnWritten
<1>5. \A j \in 1..Len(file) : file[j].word # "text"
  BY Zenon DEF YarnWritten
<1> QED BY <1>1, <1>2, <1>3, <1>4, <1>5, Zenon DEF YarnWritten

\* Every step of yarn keeps it.
LEMMA YarnWrittenStep ==
  ASSUME YarnInv, YarnWritten, Yarn!Next PROVE YarnWritten'
<1>0. scope' = scope
  BY Zenon DEF Yarn!Next, Yarn!ReadLine, Yarn!Read, Yarn!EndOfFile
<1> SUFFICES ASSUME scope.written PROVE YarnWritten'
  BY <1>0, Zenon DEF YarnWritten
<1>1. ASSUME NEW l \in Yarn!Line, Yarn!ReadLine(l) PROVE YarnWritten'
  <2>1. Yarn!Read(l)
    BY <1>1, Zenon DEF Yarn!ReadLine
  <2>2. CASE Yarn!Reject(l)
    <3>1. result' = "rejected"
      BY <2>2, Zenon DEF Yarn!Reject
    <3>2. result' # "reading" /\ ~(result' # "rejected")
      BY <3>1
    <3>3. \A j \in 1..Len(file') : file'[j].word # "text"
      BY <2>1, YarnListKeeps, Zenon
    <3> QED BY <3>2, <3>3, Zenon DEF YarnWritten
  <2>3. ~Yarn!Text(l)
    <3>1. Yarn!YarnWrites(l)
      BY <2>1, Zenon DEF Yarn!Read
    <3>2. l.word \notin {"packages", "text", "long"}
      BY <3>1, YarnWritesIs, Zenon
    <3>3. l.word # "text"
      BY <3>2
    <3> QED BY <3>3, Zenon DEF Yarn!Text
  <2> QED BY <1>1, <2>1, <2>2, <2>3, YarnKeyWritten, YarnPropertyWritten, YarnBelowWritten,
             YarnLineWritten, Zenon DEF Yarn!ReadLine
<1> QED BY <1>1, YarnEndWritten, Zenon DEF Yarn!Next

\* yarn begins in it.
LEMMA YarnWrittenInit ==
  ASSUME Yarn!Init PROVE YarnWritten
<1>1. /\ file = <<>> /\ entries = <<>> /\ current = Nil /\ Yarn!flushEntry = <<>>
      /\ checksumPending = FALSE /\ resolutionPending = FALSE
  BY Zenon DEF Yarn!Init, Yarn!flushEntry
<1>2. \A k : k \notin 1..Len(<<>>)
  OBVIOUS
<1>3. ~checksumPending /\ ~resolutionPending
  BY <1>1
<1> QED BY <1>1, <1>2, <1>3, Zenon DEF YarnWritten, Closed

\* The lines of a kind below a property.
YarnUnder(fl, j, sub) ==
  {m \in j+1..Len(fl) : (\A n \in j+1..m : fl[n].indent = 4) /\ fl[m].word = sub}

\* The first line of a kind below a property is the least of them.
LEMMA YarnFirstIs ==
  ASSUME NEW fl, Len(fl) \in Nat, NEW i \in Nat, NEW j \in i+1..Len(fl), NEW sub
  PROVE  LET under == YarnUnder(fl, j, sub)
         IN  /\ under # {} => Min(under) \in j+1..Len(fl) /\ YarnFirst(fl, j, sub, Min(under))
             /\ \A m \in j+1..Len(fl) : YarnFirst(fl, j, sub, m) => under # {} /\ m = Min(under)
<1> DEFINE U == YarnUnder(fl, j, sub)
           u == Min(U)
<1>0. U = {m \in j+1..Len(fl) : (\A n \in j+1..m : fl[n].indent = 4) /\ fl[m].word = sub}
  BY Zenon DEF YarnUnder
<1>1. U \in SUBSET Nat
  BY <1>0
<1>2. ASSUME U # {} PROVE u \in U /\ \A k \in U : u <= k
  <2>1. \E k \in U : \A m \in U : k <= m
    BY <1>1, <1>2, LeastNatural, Zenon
  <2> HIDE DEF U
  <2> QED BY <2>1, Zenon DEF Min
<1> HIDE DEF u, U
<1>3. ASSUME U # {} PROVE u \in j+1..Len(fl) /\ YarnFirst(fl, j, sub, u)
  <2>1. u \in j+1..Len(fl) /\ (\A n \in j+1..u : fl[n].indent = 4) /\ fl[u].word = sub
    BY <1>0, <1>2, <1>3
  <2>2. ASSUME NEW k \in j+1..u-1, fl[k].word = sub PROVE FALSE
    <3>1. k \in U
      BY <1>0, <2>1, <2>2
    <3>2. u <= k
      BY <1>2, <1>3, <3>1
    <3> QED BY <2>1, <2>2, <3>2
  <2> QED BY <2>1, <2>2, Zenon DEF YarnFirst, YarnBelow
<1>4. ASSUME NEW m \in j+1..Len(fl), YarnFirst(fl, j, sub, m) PROVE U # {} /\ m = u
  <2>1. m \in U
    BY <1>0, <1>4, Zenon DEF YarnFirst, YarnBelow
  <2>2. u \in U /\ u <= m
    BY <1>2, <2>1
  <2>3. u \in j+1..Len(fl) /\ fl[u].word = sub
    BY <1>0, <2>2
  <2>4. u \notin j+1..m-1
    BY <1>4, <2>3, Zenon DEF YarnFirst
  <2>5. m = u
    BY <2>2, <2>3, <2>4
  <2> QED BY <2>1, <2>5
<1> QED BY <1>3, <1>4, Zenon DEF u, U

\* The lines that the property speaks of.
LEMMA YarnStatedIs ==
  ASSUME file \in Seq(Yarn!Line), NEW i \in 1..Len(file), NEW word, NEW sub, NEW v,
         Only(YarnLines(file, i, word, sub), v)
  PROVE  Yarn!Stated(i, word, sub) = v
<1> DEFINE n == Len(file)
           B == Own(file, YarnEnds, i)
           props == {j \in B : file[j].indent = 2 /\ file[j].word = word}
           under(j) == YarnUnder(file, j, sub)
           lines == {j \in props : file[j].val}
                      \cup {Min(under(j)) : j \in {k \in props : under(k) # {}}}
<1>1. n \in Nat /\ i \in Nat /\ i \in 1..n
  OBVIOUS
<1>2. \A S : Yarn!Min(S) = Min(S)
  BY Zenon DEF Yarn!Min, Min
<1>3. Yarn!Block(i) = B
  <2> DEFINE E == {j \in i+1..Len(file) : file[j].word \in YarnEnds}
  <2>1. i+1 .. Min(E \cup {Len(file) + 1}) - 1 = B
    BY <1>1, BlockIs, Zenon
  <2>2. Yarn!Block(i) = i+1 .. Yarn!Min(E \cup {Len(file) + 1}) - 1
    BY Zenon DEF Yarn!Block, YarnEnds
  <2> QED BY <1>2, <2>1, <2>2, Zenon
<1>4. Yarn!Stated(i, word, sub) = IF lines = {} THEN 0 ELSE Min(lines)
  <2> DEFINE P == {j \in Yarn!Block(i) : file[j].indent = 2 /\ file[j].word = word}
             M == {j \in P : file[j].val}
                      \cup {Yarn!Min(under(j)) : j \in {k \in P : under(k) # {}}}
  <2>1. Yarn!Stated(i, word, sub) = IF M = {} THEN 0 ELSE Yarn!Min(M)
    BY Zenon DEF Yarn!Stated, YarnUnder
  <2>2. P = props
    BY <1>3, Zenon
  <2> HIDE DEF P, props, under
  <2>3. M = lines
    BY <1>2, <2>2, Zenon
  <2> HIDE DEF M, lines
  <2> QED BY <1>2, <2>1, <2>3, Zenon
<1>5. B \subseteq i+1..n
  BY <1>1, OwnRange, Zenon
<1>6. ASSUME NEW j \in i+1..n
      PROVE  /\ under(j) # {} => Min(under(j)) \in j+1..n
                                 /\ YarnFirst(file, j, sub, Min(under(j)))
             /\ \A m \in j+1..n : YarnFirst(file, j, sub, m)
                                    => under(j) # {} /\ m = Min(under(j))
  BY <1>1, YarnFirstIs, ZenonT(60)
<1> HIDE DEF under, n
<1>7. ASSUME NEW m PROVE m \in props <=> YarnProperty(file, i, word, m)
  BY Zenon DEF YarnProperty
<1>8. \A j \in props : j \in i+1..n
  BY <1>5
<1>9. YarnLines(file, i, word, sub)
        = {m \in i+1..n : \/ m \in props /\ file[m].val
                          \/ \E j \in i+1..m-1 : j \in props /\ YarnFirst(file, j, sub, m)}
  BY <1>7, Zenon DEF YarnLines, n
<1> HIDE DEF props
<1>10. ASSUME NEW m \in lines PROVE m \in YarnLines(file, i, word, sub)
  <2>1. CASE m \in props /\ file[m].val
    BY <1>8, <1>9, <2>1, Zenon
  <2>2. CASE \E j \in props : under(j) # {} /\ m = Min(under(j))
    <3>1. PICK j \in props : under(j) # {} /\ m = Min(under(j))
      BY <2>2, Zenon
    <3>2. j \in i+1..n
      BY <1>8, Zenon
    <3>3. m \in j+1..n /\ YarnFirst(file, j, sub, m)
      BY <1>6, <3>1, <3>2, Zenon
    <3>4. m \in i+1..n /\ j \in i+1..m-1
      BY <1>1, <3>2, <3>3
    <3> QED BY <1>9, <3>1, <3>3, <3>4, Zenon
  <2> QED BY <2>1, <2>2, Zenon
<1>11. ASSUME NEW m \in YarnLines(file, i, word, sub) PROVE m \in lines
  <2>0. m \in i+1..n
    BY <1>9
  <2>1. CASE m \in props /\ file[m].val
    BY <2>1
  <2>2. CASE \E j \in i+1..m-1 : j \in props /\ YarnFirst(file, j, sub, m)
    <3>1. PICK j \in i+1..m-1 : j \in props /\ YarnFirst(file, j, sub, m)
      BY <2>2, Zenon
    <3>2. j \in i+1..n /\ m \in j+1..n
      BY <1>1, <2>0, <3>1
    <3>3. under(j) # {} /\ m = Min(under(j))
      BY <1>6, <3>1, <3>2, Zenon
    <3> QED BY <3>1, <3>3, Zenon
  <2> QED BY <1>9, <2>1, <2>2
<1>12. lines = YarnLines(file, i, word, sub)
  BY <1>10, <1>11, Zenon
<1>13. lines \in SUBSET (1..n)
  <2>1. YarnLines(file, i, word, sub) \subseteq i+1..n
    BY <1>9
  <2> HIDE DEF lines
  <2> QED BY <1>1, <1>12, <2>1
<1> HIDE DEF lines
<1>14. (IF lines = {} THEN 0 ELSE Min(lines)) = v
  BY <1>1, <1>12, <1>13, OnlyLeast
<1> QED BY <1>4, <1>14, Zenon

\* What the property says, from both invariants.
LEMMA YarnWrittenShown ==
  ASSUME YarnInv, YarnWritten PROVE Yarn!ListsWhatIsWritten
<1> SUFFICES ASSUME scope.written, result = "listed"
             PROVE  /\ {Yarn!Content(e) : e \in Yarn!Range(entries)}
                         = {Yarn!StatedEntry(i) : i \in Yarn!PackageLines}
                    /\ Yarn!InOrder
  BY Zenon DEF Yarn!ListsWhatIsWritten
<1>1. /\ file \in Seq(Yarn!Line) /\ Len(file) \in Nat /\ DOMAIN file = 1..Len(file)
      /\ entries \in Seq(Yarn!Entry)
  BY YarnTypes, Zenon DEF YarnInv
<1>2. DOMAIN entries = 1..Len(entries) /\ result # "rejected"
  BY <1>1
<1>3. Yarn!flushEntry = entries
  BY Zenon DEF YarnInv, Yarn!TypeOK, Yarn!flushEntry
<1>4. Yarn!LostOnlyAtText /\ Yarn!InOrder
  BY YarnShown, Zenon DEF Yarn!LostOnlyAtText
<1>5. {e.line : e \in Yarn!Range(entries)} = Yarn!PackageLines
  <2>1. \A e \in Yarn!Range(entries) : e.line \in Yarn!PackageLines
    BY <1>4, Zenon DEF Yarn!LostOnlyAtText, Yarn!Range
  <2>2. ASSUME NEW i \in Yarn!PackageLines \ {e.line : e \in Yarn!Range(entries)} PROVE FALSE
    <3>1. PICK j \in Yarn!Block(i) : file[j].word = "text"
      BY <1>4, <2>2, Zenon DEF Yarn!LostOnlyAtText
    <3>2. i \in 1..Len(file) /\ i \in Nat
      <4>1. i \in 1..Len(file)
        BY <1>1, Zenon DEF Yarn!PackageLines, Yarn!KeyLines
      <4> QED BY <1>1, <4>1
    <3>3. Yarn!Block(i) = Own(file, YarnEnds, i)
      <4> DEFINE E == {k \in i+1..Len(file) : file[k].word \in YarnEnds}
      <4>1. i+1 .. Min(E \cup {Len(file) + 1}) - 1 = Own(file, YarnEnds, i)
        BY <1>1, <3>2, BlockIs, Zenon
      <4>2. \A S : Yarn!Min(S) = Min(S)
        BY Zenon DEF Yarn!Min, Min
      <4>3. Yarn!Block(i) = i+1 .. Yarn!Min(E \cup {Len(file) + 1}) - 1
        BY Zenon DEF Yarn!Block, YarnEnds
      <4> QED BY <4>1, <4>2, <4>3, Zenon
    <3>4. j \in i+1..Len(file)
      BY <3>3, Zenon DEF Own
    <3>5. j \in 1..Len(file)
      BY <1>1, <3>2, <3>4
    <3> QED BY <3>1, <3>5, Zenon DEF YarnWritten
  <2> QED BY <2>1, <2>2, Zenon
<1>6. ASSUME NEW e \in Yarn!Range(entries) PROVE Yarn!Content(e) = Yarn!StatedEntry(e.line)
  <2>1. PICK k \in 1..Len(entries) : e = entries[k]
    BY <1>2, Zenon DEF Yarn!Range
  <2>2. YarnSays(file, e)
    BY <1>2, <1>3, <2>1, Zenon DEF YarnWritten
  <2>3. e.line \in 1..Len(file)
    BY <1>3, <2>1, Zenon DEF YarnInv, YarnEntries, YarnEntry
  <2>4. /\ Yarn!Stated(e.line, "version", "none") = e.version
        /\ Yarn!Stated(e.line, "checksum", "other") = e.integrity
        /\ Yarn!Stated(e.line, "resolution", "tarball") = e.resolved
    BY <1>1, <2>2, <2>3, YarnStatedIs, Zenon DEF YarnSays
  <2> QED BY <2>4, Zenon DEF Yarn!Content, Yarn!StatedEntry
<1>7. {Yarn!Content(e) : e \in Yarn!Range(entries)}
        = {Yarn!StatedEntry(i) : i \in {e.line : e \in Yarn!Range(entries)}}
  BY <1>6, Zenon
<1> QED BY <1>4, <1>5, <1>7, Zenon

\* The two invariants speak of nothing but what the parsers remember.
LEMMA WrittenStays ==
  ASSUME UNCHANGED <<scope, file, current, inPackages, checksumPending, resolutionPending,
                     resolvedPending, entries, result>>
  PROVE  (PnpmWritten => PnpmWritten') /\ (YarnWritten => YarnWritten')
<1>1. Pnpm!flushEntry' = Pnpm!flushEntry /\ Yarn!flushEntry' = Yarn!flushEntry
  BY Zenon DEF Pnpm!flushEntry, Yarn!flushEntry
<1>2. PnpmWritten => PnpmWritten'
  BY <1>1, Zenon DEF PnpmWritten
<1>3. YarnWritten => YarnWritten'
  BY <1>1, Zenon DEF YarnWritten
<1> QED BY <1>2, <1>3

\* The inductive invariant of the files that pnpm and yarn write.
WrittenInv ==
  /\ pm = "pnpm" => PnpmWritten
  /\ pm = "yarn" => YarnWritten

\* Both parsers begin in it.
LEMMA WrittenInit == Init => WrittenInv
<1> SUFFICES ASSUME Init PROVE WrittenInv
  OBVIOUS
<1>1. CASE Unread
  <2>1. pm # "pnpm" /\ pm # "yarn"
    BY <1>1 DEF Unread
  <2> QED BY <2>1, Zenon DEF WrittenInv
<1>2. CASE pm = "npm" \/ pm = "bun"
  <2>1. pm # "pnpm" /\ pm # "yarn"
    BY <1>2
  <2> QED BY <2>1, Zenon DEF WrittenInv
<1>3. CASE pm = "pnpm" /\ Pnpm!Init
  <2>1. pm # "yarn"
    BY <1>3
  <2> QED BY <1>3, <2>1, PnpmWrittenInit, Zenon DEF WrittenInv
<1>4. CASE pm = "yarn" /\ Yarn!Init
  <2>1. pm # "pnpm"
    BY <1>4
  <2> QED BY <1>4, <2>1, YarnWrittenInit, Zenon DEF WrittenInv
<1> QED BY <1>1, <1>2, <1>3, <1>4, Zenon DEF Init

\* Each step keeps that of its parser.
LEMMA WrittenStep == ParsersInv /\ WrittenInv /\ [Next]_vars => WrittenInv'
<1> SUFFICES ASSUME ParsersInv, WrittenInv, [Next]_vars PROVE WrittenInv'
  OBVIOUS
<1>0. pm' = pm
  <2>1. UNCHANGED detected
    BY Zenon DEF Next, vars, ParseNpm, ParsePnpm, ParseYarn, ParseBun
  <2> QED BY <2>1, Zenon DEF detected
<1>1. CASE ParseNpm \/ ParseBun
  <2>1. pm = "npm" \/ pm = "bun"
    BY <1>1, Zenon DEF ParseNpm, ParseBun
  <2>2. pm # "pnpm" /\ pm # "yarn"
    BY <2>1
  <2> QED BY <1>0, <2>2, Zenon DEF WrittenInv
<1>2. CASE ParsePnpm
  <2>1. pm = "pnpm" /\ Pnpm!Next /\ PnpmInv /\ PnpmWritten
    BY <1>2, Zenon DEF ParsePnpm, ParsersInv, WrittenInv
  <2>2. pm # "yarn"
    BY <2>1
  <2> QED BY <1>0, <2>1, <2>2, PnpmWrittenStep, Zenon DEF WrittenInv
<1>3. CASE ParseYarn
  <2>1. pm = "yarn" /\ Yarn!Next /\ YarnInv /\ YarnWritten
    BY <1>3, Zenon DEF ParseYarn, ParsersInv, WrittenInv
  <2>2. pm # "pnpm"
    BY <2>1
  <2> QED BY <1>0, <2>1, <2>2, YarnWrittenStep, Zenon DEF WrittenInv
<1>4. CASE UNCHANGED vars
  <2>1. UNCHANGED <<scope, file, entries, result>> /\ UNCHANGED textOnly
    BY <1>4, Zenon DEF vars
  <2>2. UNCHANGED <<current, inPackages, resolutionPending, checksumPending, resolvedPending>>
    BY <2>1, Zenon DEF textOnly
  <2>3. UNCHANGED <<scope, file, current, inPackages, checksumPending, resolutionPending,
                    resolvedPending, entries, result>>
    BY <2>1, <2>2
  <2> QED BY <1>0, <2>3, WrittenStays, Zenon DEF WrittenInv
<1> QED BY <1>1, <1>2, <1>3, <1>4, Zenon DEF Next

\* What the property says, from both invariants.
LEMMA WrittenShown == ParsersInv /\ WrittenInv => ListsWhatIsWritten
BY PnpmWrittenShown, YarnWrittenShown, Zenon DEF ParsersInv, WrittenInv, ListsWhatIsWritten

\* Of a file that pnpm or yarn wrote, of any length, the list has every package
\* once and in order, with the version, the integrity and the address that its
\* block states (parseLockfileYAML and parseYarnLockYAML).
THEOREM WrittenFilesListed == Spec => []ListsWhatIsWritten
<1>1. Spec => []WrittenInv
  BY ParsersInvHolds, WrittenInit, WrittenStep, PTL DEF Spec
<1> QED BY <1>1, ParsersInvHolds, WrittenShown, PTL
==============================================================================
