------------------------- MODULE VerificationProofs -------------------------
(***************************************************************************)
(* What the commands that check something promise, for every project,      *)
(* every artifact, every tarball and every run of commands.                *)
(*                                                                         *)
(* Two arguments meet.  The first is about the operators: the globs of the *)
(* code, its cutting of ids and its lists of violations are shown to be    *)
(* what the properties say in other words.  The second is the invariant:   *)
(* what a command has found so far, at each phase of it, so that its end   *)
(* is what was found.                                                      *)
(***************************************************************************)
EXTENDS Verification, SequenceLemmas

-----------------------------------------------------------------------------
(* Globs and rules. *)

\* What HasPart finds occurs somewhere.
LEMMA PartOccurs ==
  ASSUME NEW S, NEW s \in Seq(S), NEW t \in Seq(S)
  PROVE  HasPart(s, t) <=> \E i \in 0..Len(s) : Occurs(t, s, i)
<1> SUFFICES ASSUME NEW i \in 0..Len(s)
             PROVE  IsPrefix(t, SubSeq(s, i + 1, Len(s))) <=> Occurs(t, s, i)
  BY Zenon DEF HasPart
<1> DEFINE u == SubSeq(s, i + 1, Len(s))
<1>1. /\ u \in Seq(S)
      /\ Len(u) = Len(s) - i
      /\ \A k \in 1..(Len(s) - i) : u[k] = s[i + k]
  OBVIOUS
<1>2. IsPrefix(t, u) <=> Occurs(t, u, 0)
  <2> HIDE DEF u
  <2> QED BY <1>1, PrefixOccurs
<1>3. Occurs(t, u, 0) <=> Occurs(t, s, i)
  <2> HIDE DEF u
  <2> QED BY <1>1 DEF Occurs
<1> QED BY <1>2, <1>3

\* Fold keeps the length and the stars of a name.
LEMMA FoldIs ==
  ASSUME NEW s \in Name
  PROVE  /\ Fold(s) \in Name
         /\ Len(Fold(s)) = Len(s)
         /\ \A i \in 1..Len(s) :
              /\ Fold(s)[i] = (IF s[i] = "N" THEN "n" ELSE s[i])
              /\ Fold(s)[i] = "*" <=> s[i] = "*"
<1>1. s \in Seq(Token) /\ DOMAIN s = 1..Len(s) /\ Len(s) \in Nat
  BY DEF Name
<1>2. \A i \in 1..Len(s) :
        /\ Fold(s)[i] = (IF s[i] = "N" THEN "n" ELSE s[i])
        /\ Fold(s)[i] = "*" <=> s[i] = "*"
        /\ Fold(s)[i] \in Token
  <2> TAKE i \in 1..Len(s)
  <2>1. s[i] \in Token
    BY <1>1, ElementOfSeq
  <2>2. Fold(s)[i] = (IF s[i] = "N" THEN "n" ELSE s[i])
    BY <1>1, Zenon DEF Fold
  <2>3. "n" \in Token
    BY TokenAssumption
  <2>4. "n" # "*" /\ "N" # "*"
    OBVIOUS
  <2> QED BY <2>1, <2>2, <2>3, <2>4, Zenon
<1>3. Fold(s) = [i \in 1..Len(s) |-> Fold(s)[i]]
  BY <1>1, Zenon DEF Fold
<1>4. Fold(s) \in Seq(Token) /\ Len(Fold(s)) = Len(s)
  BY <1>1, <1>2, <1>3
<1> QED BY <1>2, <1>4 DEF Name

\* The pattern of two stars: Glob takes it for a suffix pattern whose suffix is a
\* star, and Means for one that everything matches.
TwoStars == <<"*", "*">>

\* Its length and its tokens.
LEMMA TwoStarsIs ==
  TwoStars \in Name /\ Len(TwoStars) = 2 /\ TwoStars[1] = "*" /\ TwoStars[2] = "*"
<1>1. "*" \in Token
  BY TokenAssumption
<1> QED BY <1>1 DEF TwoStars, Name

\* No other name has them.
LEMMA IsTwoStars ==
  ASSUME NEW p \in Name
  PROVE  p = TwoStars <=> Len(p) = 2 /\ p[1] = "*" /\ p[2] = "*"
<1>1. SUFFICES ASSUME Len(p) = 2, p[1] = "*", p[2] = "*" PROVE p = TwoStars
  BY TwoStarsIs, Zenon
<1>2. \A i \in 1..Len(p) : i = 1 \/ i = 2
  BY <1>1
<1>3. \A i \in 1..Len(p) : p[i] = TwoStars[i]
  BY <1>1, <1>2, TwoStarsIs, Zenon
<1>4. p \in Seq(Token) /\ TwoStars \in Seq(Token) /\ Len(p) = Len(TwoStars)
  BY <1>1, TwoStarsIs, Zenon DEF Name
<1> QED BY <1>3, <1>4, SeqEqual, Zenon

\* Fold changes neither it nor another name into it,
LEMMA TwoStarsFold ==
  ASSUME NEW p \in Name
  PROVE  Fold(p) = TwoStars <=> p = TwoStars
<1>1. Fold(p) \in Name /\ Len(Fold(p)) = Len(p)
  BY FoldIs, Zenon
<1>2. Len(p) = 2 => (Fold(p)[1] = "*" <=> p[1] = "*") /\ (Fold(p)[2] = "*" <=> p[2] = "*")
  BY FoldIs
<1> QED BY <1>1, <1>2, IsTwoStars, Zenon

\* and keeps a star at either end.
LEMMA StarsFold ==
  ASSUME NEW p \in Name
  PROVE  (Opens(Fold(p)) <=> Opens(p)) /\ (Closes(Fold(p)) <=> Closes(p))
<1>1. Fold(p) = <<>> <=> p = <<>>
  BY FoldIs DEF Name
<1>2. p # <<>> => 1 \in 1..Len(p) /\ Len(p) \in 1..Len(p) /\ Head(p) = p[1]
                    /\ Head(Fold(p)) = Fold(p)[1]
  BY FoldIs DEF Name
<1>3. \A i \in 1..Len(p) : Fold(p)[i] = "*" <=> p[i] = "*"
  BY FoldIs, Zenon
<1>4. Len(Fold(p)) = Len(p)
  BY FoldIs, Zenon
<1> QED BY <1>1, <1>2, <1>3, <1>4, Zenon DEF Opens, Closes, Last

\* What a glob means, in terms of where its middle occurs.
LEMMA MeansOccurs ==
  ASSUME NEW p \in Name, NEW name \in Name
  PROVE  /\ WithoutStars(p) \in Name
         /\ Means(p, name) <=>
              \E i \in 0..Len(name) : /\ Occurs(WithoutStars(p), name, i)
                                      /\ Opens(p) \/ i = 0
                                      /\ Closes(p) \/ i + Len(WithoutStars(p)) = Len(name)
<1> DEFINE core == WithoutStars(p)
<1>1. core \in Name
  BY DEF WithoutStars, Name
<1>2. \A j \in 0..Len(name), i \in 0..Len(name) :
        i <= j =>
          (SubSeq(name, i + 1, j) = core <=> j = i + Len(core) /\ Occurs(core, name, i))
  <2> SUFFICES ASSUME NEW j \in 0..Len(name), NEW i \in 0..Len(name), i <= j
               PROVE  SubSeq(name, i + 1, j) = core
                        <=> j = i + Len(core) /\ Occurs(core, name, i)
    BY Zenon
  <2>1. j \in i..Len(name)
    OBVIOUS
  <2> HIDE DEF core
  <2> QED BY <1>1, <2>1, SubSeqOccurs DEF Name
<1>3. \A i \in 0..Len(name) : Occurs(core, name, i) =>
        i + Len(core) \in 0..Len(name) /\ i <= i + Len(core)
  <2>1. Len(core) \in Nat /\ Len(name) \in Nat
    BY <1>1 DEF Name
  <2> HIDE DEF core
  <2> QED BY <2>1 DEF Occurs
<1> HIDE DEF core
<1>4. ASSUME Means(p, name)
      PROVE  \E i \in 0..Len(name) : /\ Occurs(core, name, i)
                                     /\ Opens(p) \/ i = 0
                                     /\ Closes(p) \/ i + Len(core) = Len(name)
  BY <1>2, <1>4, Zenon DEF Means, core
<1>5. ASSUME NEW i \in 0..Len(name), Occurs(core, name, i),
             Opens(p) \/ i = 0, Closes(p) \/ i + Len(core) = Len(name)
      PROVE  Means(p, name)
  <2> DEFINE j == i + Len(core)
  <2>1. j \in 0..Len(name) /\ i <= j
    BY <1>3, <1>5, Zenon
  <2>2. SubSeq(name, i + 1, j) = core
    BY <1>2, <1>5, <2>1, Zenon
  <2> QED BY <1>5, <2>1, <2>2, Zenon DEF Means, core
<1>6. WithoutStars(p) = core
  BY DEF core
<1> QED BY <1>1, <1>4, <1>5, <1>6, Zenon

\* The three cases of the code are what a glob means, but for two stars.
LEMMA GlobMeans ==
  ASSUME NEW p \in Name, NEW name \in Name, IsGlob(p), p # TwoStars
  PROVE  Glob(p, name) <=> Means(p, name)
<1> DEFINE core == WithoutStars(p)
<1>1. core \in Name
  BY MeansOccurs
<1>2. p # <<>> /\ Len(p) \in Nat /\ Len(p) > 0 /\ Len(name) \in Nat
  BY DEF IsGlob, Opens, Closes, Name
<1>3. Means(p, name) <=>
        \E i \in 0..Len(name) : /\ Occurs(core, name, i)
                                /\ Opens(p) \/ i = 0
                                /\ Closes(p) \/ i + Len(core) = Len(name)
  BY MeansOccurs, Zenon
<1>4. Len(core) \in Nat
  BY <1>1 DEF Name
<1>a. CASE Within(p)
  <2>1. core = SubSeq(p, 2, Len(p) - 1)
    BY <1>a, Zenon DEF Within, WithoutStars
  <2>2. Glob(p, name) <=> HasPart(name, core)
    BY <1>a, <2>1, Zenon DEF Within, Glob
  <2>3. HasPart(name, core) <=> \E i \in 0..Len(name) : Occurs(core, name, i)
    BY <1>1, PartOccurs DEF Name
  <2> QED BY <1>a, <1>3, <2>2, <2>3, Zenon DEF Within
<1>b. CASE Opens(p) /\ ~Within(p)
  <2>1. core = Tail(p) /\ (Closes(p) => Len(p) = 1)
    <3>1. CASE ~Closes(p)
      <4>1. core = SubSeq(p, 2, Len(p))
        BY <1>b, <3>1, Zenon DEF WithoutStars
      <4> QED BY <1>2, <3>1, <4>1, TailIsSubSeq DEF Name
    <3>2. CASE Closes(p)
      <4>1. Len(p) = 1
        <5>1. Len(p) <= 2
          BY <1>b, <3>2, <1>2 DEF Within
        <5>2. p[1] = "*" /\ p[Len(p)] = "*"
          BY <1>b, <3>2, <1>2 DEF Opens, Closes, Last, Name
        <5>3. ASSUME Len(p) = 2 PROVE FALSE
          <6>1. p[1] = "*" /\ p[2] = "*"
            BY <5>2, <5>3, Zenon
          <6> QED BY <5>3, <6>1, IsTwoStars, Zenon
        <5>4. Len(p) # 2
          BY <5>3, Zenon
        <5>5. \A k \in Nat : k > 0 /\ k <= 2 /\ k # 2 => k = 1
          OBVIOUS
        <5> QED BY <1>2, <5>1, <5>4, <5>5, Zenon
      <4>2. core = SubSeq(p, 2, 0)
        BY <1>b, <3>2, <4>1 DEF WithoutStars
      <4>3. SubSeq(p, 2, 0) = <<>> /\ SubSeq(p, 2, 1) = <<>>
        BY SubSeqEmpty
      <4>4. Tail(p) = SubSeq(p, 2, 1)
        BY <4>1, <1>2, TailIsSubSeq DEF Name
      <4> QED BY <4>1, <4>2, <4>3, <4>4, Zenon
    <3> QED BY <3>1, <3>2
  <2>2. Glob(p, name) <=> IsSuffix(core, name)
    BY <1>b, <2>1, Zenon DEF Glob
  <2>3. IsSuffix(core, name)
          <=> Len(core) <= Len(name) /\ Occurs(core, name, Len(name) - Len(core))
    BY <1>1, SuffixOccurs DEF Name
  <2>4. CASE ~Closes(p)
    <3>1. ASSUME Len(core) <= Len(name), Occurs(core, name, Len(name) - Len(core))
          PROVE  \E i \in 0..Len(name) : Occurs(core, name, i) /\ i + Len(core) = Len(name)
      <4>1. Len(name) - Len(core) \in 0..Len(name)
              /\ Len(name) - Len(core) + Len(core) = Len(name)
        BY <1>2, <1>4, <3>1
      <4> HIDE DEF core
      <4> QED BY <3>1, <4>1, Zenon
    <3>2. ASSUME NEW i \in 0..Len(name), Occurs(core, name, i), i + Len(core) = Len(name)
          PROVE  Len(core) <= Len(name) /\ Occurs(core, name, Len(name) - Len(core))
      <4>1. i = Len(name) - Len(core) /\ Len(core) <= Len(name)
        BY <1>2, <1>4, <3>2
      <4> HIDE DEF core
      <4> QED BY <3>2, <4>1, Zenon
    <3> HIDE DEF core
    <3> QED BY <1>b, <1>3, <2>2, <2>3, <2>4, <3>1, <3>2, Zenon
  <2>5. CASE Closes(p)
    <3>1. core = <<>> /\ Len(core) = 0
      BY <2>1, <2>5, <1>2 DEF Name
    <3>2. \A i \in 0..Len(name) : Occurs(core, name, i)
      <4> HIDE DEF core
      <4> QED BY <3>1, <1>2 DEF Occurs
    <3>3. /\ 0 \in 0..Len(name) /\ Len(core) <= Len(name)
          /\ Len(name) - Len(core) \in 0..Len(name)
      <4> HIDE DEF core
      <4> QED BY <3>1, <1>2
    <3> HIDE DEF core
    <3> QED BY <1>b, <1>3, <2>2, <2>3, <2>5, <3>2, <3>3, Zenon
  <2> QED BY <2>4, <2>5, Zenon
<1>c. CASE ~Opens(p)
  <2>1. Closes(p) /\ ~Within(p)
    BY <1>c DEF IsGlob, Within
  <2>2. core = Front(p)
    BY <1>c, <2>1, Zenon DEF WithoutStars, Front
  <2>3. Glob(p, name) <=> IsPrefix(core, name)
    BY <1>c, <2>1, <2>2, Zenon DEF Glob
  <2>4. IsPrefix(core, name) <=> Occurs(core, name, 0)
    BY <1>1, PrefixOccurs DEF Name
  <2>5. 0 \in 0..Len(name)
    BY <1>2
  <2> HIDE DEF core
  <2> QED BY <1>c, <1>3, <2>1, <2>3, <2>4, <2>5, Zenon
<1> QED BY <1>a, <1>b, <1>c, Zenon

\* No rule has the pattern of two stars.
PlainGlobs(rules) == \A i \in DOMAIN rules : rules[i].pattern # TwoStars

\* The name and the pattern of a rule are names.
LEMMA RuleIs ==
  ASSUME NEW rules \in Seq(PackageRule), NEW i \in DOMAIN rules
  PROVE  rules[i].name \in Name /\ rules[i].pattern \in Name
<1>1. rules[i] \in PackageRule
  BY ElementOfSeq
<1> QED BY <1>1, Zenon DEF PackageRule

\* Then matchesAllow finds what the rules say of a name,
LEMMA AllowSays ==
  ASSUME NEW rules \in Seq(PackageRule), PlainGlobs(rules), NEW name \in Name
  PROVE  matchesAllow(rules, name) <=> Says(rules, name, AsWritten)
<1> DEFINE Said(i) ==
      LET p == rules[i].pattern
      IN  \/ rules[i].name # <<>> /\ Fold(rules[i].name) = Fold(name)
          \/ p # <<>> /\ ~IsGlob(p) /\ Fold(p) = Fold(name)
          \/ IsGlob(p) /\ Means(p, name)
<1>1. ASSUME NEW i \in DOMAIN rules PROVE Matches(rules[i], name) <=> Said(i)
  <2> DEFINE p == rules[i].pattern
  <2>1. p \in Name /\ p # TwoStars
    BY RuleIs DEF PlainGlobs
  <2>2. IsGlob(p) => p # <<>> /\ (Glob(p, name) <=> Means(p, name))
    BY <2>1, GlobMeans, Zenon DEF IsGlob, Opens, Closes
  <2> QED BY <2>2, Zenon DEF Matches, NameMatches, PatternMatches, matchPattern, EqualFold
<1>2. Says(rules, name, AsWritten) <=> \E i \in DOMAIN rules : Said(i)
  BY Zenon DEF Says, AsWritten
<1> QED BY <1>1, <1>2, Zenon DEF matchesAllow

\* and denylistCheck what they say of the name that is cut from an id.
LEMMA DenySays ==
  ASSUME NEW pol_, pol_.deny \in Seq(PackageRule), PlainGlobs(pol_.deny),
         NEW id, NEW name \in Name, stagePkgName(id) = name
  PROVE  denylistCheck(pol_, id) <=> Says(pol_.deny, name, Fold)
<1> DEFINE rules == pol_.deny
           Said(i) ==
             LET p == rules[i].pattern
             IN  \/ rules[i].name # <<>> /\ Fold(rules[i].name) = Fold(name)
                 \/ p # <<>> /\ ~IsGlob(p) /\ Fold(p) = Fold(name)
                 \/ IsGlob(p) /\ Means(Fold(p), Fold(name))
           Checked(i) == \/ NameMatches(rules[i], name)
                         \/ rules[i].pattern # <<>> /\ patternMatch(rules[i].pattern, name)
<1>1. ASSUME NEW i \in DOMAIN rules PROVE Checked(i) <=> Said(i)
  <2> DEFINE p == rules[i].pattern
  <2>1. p \in Name /\ p # TwoStars
    BY RuleIs DEF PlainGlobs
  <2>2. Fold(p) \in Name /\ Fold(name) \in Name /\ Fold(p) # TwoStars
    BY <2>1, FoldIs, TwoStarsFold, Zenon
  <2>3. IsGlob(Fold(p)) <=> IsGlob(p)
    BY <2>1, StarsFold, Zenon DEF IsGlob
  <2>4. IsGlob(p) => p # <<>> /\ (Glob(Fold(p), Fold(name)) <=> Means(Fold(p), Fold(name)))
    BY <2>2, <2>3, GlobMeans, Zenon DEF IsGlob, Opens, Closes
  <2> QED BY <2>4, Zenon DEF NameMatches, patternMatch, EqualFold
<1>2. Says(rules, name, Fold) <=> \E i \in DOMAIN rules : Said(i)
  BY Zenon DEF Says
<1>3. denylistCheck(pol_, id) <=> \E i \in DOMAIN rules : Checked(i)
  BY Zenon DEF denylistCheck
<1> QED BY <1>1, <1>2, <1>3, Zenon

-----------------------------------------------------------------------------
(* The name in a stage id. *)

\* stagePkgName cuts at the last @ sign, and keeps an id without one.
LEMMA StageName ==
  ASSUME NEW id \in Name
  PROVE  \/ stagePkgName(id) = id /\ \A i \in 1..Len(id) : id[i] # "@"
         \/ \E k \in 1..Len(id) : /\ stagePkgName(id) = SubSeq(id, 1, k - 1)
                                  /\ id[k] = "@"
                                  /\ \A j \in (k + 1)..Len(id) : id[j] # "@"
<1>0. DOMAIN id = 1..Len(id) /\ Len(id) \in Nat
  BY DEF Name
<1>1. CASE LastAt(id) = {}
  <2>1. ASSUME NEW i \in 1..Len(id), id[i] = "@" PROVE FALSE
    <3> DEFINE T == {j \in 1..Len(id) : id[j] = "@"}
               m == Max(T)
    <3>1. T \in SUBSET (0..Len(id)) /\ T # {}
      <4>1. T # {} /\ T \subseteq 1..Len(id)
        BY <2>1, Zenon
      <4>2. 1..Len(id) \subseteq 0..Len(id)
        BY <1>0
      <4> QED BY <4>1, <4>2, Zenon
    <3> HIDE DEF T
    <3>2. m \in T /\ \A k \in T : m >= k
      BY <1>0, <3>1, GreatestNatural, Zenon
    <3>3. ASSUME NEW j \in (m + 1)..Len(id), id[j] = "@" PROVE FALSE
      <4>1. m \in 1..Len(id)
        BY <3>2, Zenon DEF T
      <4>2. j \in 1..Len(id) /\ ~(m >= j)
        BY <4>1, <1>0
      <4> QED BY <3>2, <3>3, <4>2, Zenon DEF T
    <3>4. m \in LastAt(id)
      BY <1>0, <3>2, <3>3, Zenon DEF LastAt, T
    <3> QED BY <1>1, <3>4, Zenon
  <2> QED BY <1>1, <2>1, Zenon DEF stagePkgName
<1>2. CASE LastAt(id) # {}
  <2> DEFINE k == CHOOSE i \in LastAt(id) : TRUE
  <2>1. k \in LastAt(id)
    BY <1>2, Zenon
  <2>2. stagePkgName(id) = SubSeq(id, 1, k - 1)
    BY <1>2, Zenon DEF stagePkgName
  <2> QED BY <1>0, <2>1, <2>2, Zenon DEF LastAt
<1> QED BY <1>1, <1>2, Zenon

\* What it gives is a name,
LEMMA StageNameIsName ==
  ASSUME NEW id \in Name
  PROVE  stagePkgName(id) \in Name
<1>1. \A k \in 1..Len(id) : SubSeq(id, 1, k - 1) \in Name
  BY DEF Name
<1> QED BY <1>1, StageName, Zenon

\* one that the id names, in the words of the property;
LEMMA StageNameNames ==
  ASSUME NEW id \in Name, NEW name, EqualFold(name, stagePkgName(id))
  PROVE  Names(id, name)
<1>1. CASE stagePkgName(id) = id
  <2>1. Len(id) \in 0..Len(id) /\ SubSeq(id, 1, Len(id)) = id
    BY SubSeqFull DEF Name
  <2> QED BY <1>1, <2>1, Zenon DEF Names, EqualFold
<1>2. ASSUME NEW k \in 1..Len(id), stagePkgName(id) = SubSeq(id, 1, k - 1),
             id[k] = "@", \A j \in (k + 1)..Len(id) : id[j] # "@"
      PROVE  Names(id, name)
  <2>1. k - 1 \in 0..Len(id) /\ (k - 1) + 1 = k /\ (k - 1) + 2 = k + 1
    BY DEF Name
  <2> QED BY <1>2, <2>1, Zenon DEF Names, EqualFold
<1> QED BY <1>1, <1>2, StageName, Zenon

\* a name without @ is kept,
LEMMA StageNameOfName ==
  ASSUME NEW name \in Name, "@" \notin ToSet(name)
  PROVE  stagePkgName(name) = name
<1>1. \A i \in 1..Len(name) : name[i] # "@"
  BY DEF ToSet, Name
<1> QED BY <1>1, StageName, Zenon

\* and from a name with a version the version is cut.
LEMMA StageNameOfId ==
  ASSUME NEW id \in Id, id # <<>>, Last(id) = "v"
  PROVE  stagePkgName(id) = SubSeq(id, 1, Len(id) - 2)
<1>1. id \in Name /\ Len(id) > 1 /\ id[Len(id) - 1] = "@" /\ Len(id) \in Nat
  BY DEF Id, Name
<1>2. id[Len(id)] # "@"
  BY DEF Last
<1>3. ASSUME NEW k \in 1..Len(id), id[k] = "@", \A j \in (k + 1)..Len(id) : id[j] # "@"
      PROVE  k - 1 = Len(id) - 2
  <2>1. k # Len(id)
    BY <1>2, <1>3, Zenon
  <2>2. Len(id) - 1 \notin (k + 1)..Len(id)
    BY <1>1, <1>3, Zenon
  <2> QED BY <1>1, <2>1, <2>2
<1>4. Len(id) - 1 \in 1..Len(id)
  BY <1>1
<1> QED BY <1>1, <1>3, <1>4, StageName, Zenon

-----------------------------------------------------------------------------
(* Violations and events. *)

\* A violation that is reported on a condition.
LEMMA IfSequence ==
  ASSUME NEW c \in BOOLEAN, NEW v
  PROVE  /\ IsSequence(If(c, v)) /\ (If(c, v) = <<>> <=> ~c)
         /\ \A e : e \in ToSet(If(c, v)) <=> c /\ e = v
<1>1. CASE c
  BY <1>1, SingleSequence, Zenon DEF If
<1>2. CASE ~c
  BY <1>2, EmptySequence, Zenon DEF If
<1> QED BY <1>1, <1>2, Zenon

\* When stage verify has no violation, and when one of the deny rules.
LEMMA StageViolationsAre ==
  ASSUME NEW id, NEW name
  PROVE  /\ IsSequence(StageViolations(id, name))
         /\ StageViolations(id, name) = <<>> <=>
              /\ cmd.checksum = <<>> \/ read = cmd.checksum
              /\ name = <<>> \/ EqualFold(name, stagePkgName(id))
              /\ ~denylistCheck(pol, IF name # <<>> THEN name ELSE id)
         /\ (\E v \in ToSet(StageViolations(id, name)) :
               v.reason = "package matched deny rule" /\ v.rule[1] \in {"denylist"})
              <=> denylistCheck(pol, IF name # <<>> THEN name ELSE id)
<1> DEFINE c1 == cmd.checksum # <<>> /\ read # cmd.checksum
           c2 == name # <<>> /\ ~EqualFold(name, stagePkgName(id))
           c3 == denylistCheck(pol, IF name # <<>> THEN name ELSE id)
           v1 == Violation(id, "hash_mismatch", <<"stage_verify">>)
           v2 == Violation(id, "stage_id_mismatch", <<"stage_verify">>)
           v3 == Violation(id, "package matched deny rule", <<"denylist">>)
           a == If(c1, v1)
           b == If(c2, v2)
           c == If(c3, v3)
<1>1. c1 \in BOOLEAN /\ c2 \in BOOLEAN /\ c3 \in BOOLEAN
  BY Zenon DEF denylistCheck
<1>2. /\ v1.reason = "hash_mismatch" /\ v2.reason = "stage_id_mismatch"
      /\ v3.reason = "package matched deny rule" /\ v3.rule[1] = "denylist"
      /\ "hash_mismatch" # "package matched deny rule"
      /\ "stage_id_mismatch" # "package matched deny rule"
  BY DEF Violation
<1>3. StageViolations(id, name) = a \o b \o c
  BY Zenon DEF StageViolations
<1>4. c1 <=> ~(cmd.checksum = <<>> \/ read = cmd.checksum)
  BY Zenon
<1>5. c2 <=> ~(name = <<>> \/ EqualFold(name, stagePkgName(id)))
  BY Zenon
<1> HIDE DEF c1, c2, c3, v1, v2, v3
<1>6. /\ IsSequence(a) /\ (a = <<>> <=> ~c1) /\ \A e : e \in ToSet(a) <=> c1 /\ e = v1
      /\ IsSequence(b) /\ (b = <<>> <=> ~c2) /\ \A e : e \in ToSet(b) <=> c2 /\ e = v2
      /\ IsSequence(c) /\ (c = <<>> <=> ~c3) /\ \A e : e \in ToSet(c) <=> c3 /\ e = v3
  BY <1>1, IfSequence, Zenon
<1> HIDE DEF a, b, c
<1>7. /\ IsSequence(a \o b) /\ ToSet(a \o b) = ToSet(a) \cup ToSet(b)
      /\ a \o b = <<>> <=> a = <<>> /\ b = <<>>
  BY <1>6, ConcatSequence, Zenon
<1>8. /\ IsSequence(a \o b \o c) /\ ToSet(a \o b \o c) = ToSet(a \o b) \cup ToSet(c)
      /\ a \o b \o c = <<>> <=> a \o b = <<>> /\ c = <<>>
  BY <1>6, <1>7, ConcatSequence, Zenon
<1>9. (\E v \in ToSet(a \o b \o c) :
         v.reason = "package matched deny rule" /\ v.rule[1] \in {"denylist"}) <=> c3
  BY <1>2, <1>6, <1>7, <1>8, Zenon
<1> QED BY <1>3, <1>4, <1>5, <1>6, <1>7, <1>8, <1>9, Zenon DEF c3

\* Packages of different names have different ids.
LEMMA PackageInjective ==
  ASSUME NEW a \in Name, NEW b \in Name, Package(a) = Package(b)
  PROVE  a = b
<1>1. <<"@", "v">> \in Seq(Token)
  BY TokenAssumption
<1>2. \A S : \A s, t, u \in Seq(S) : s \o u = t \o u => s = t
  BY ConcatSimplifications, Zenon
<1> QED BY <1>1, <1>2, Zenon DEF Package, Name

\* The violations of one package are at its id, and say which rules it is under.
LEMMA NodeViolationsAre ==
  ASSUME NEW p, NEW node, node.depth \in Nat
  PROVE  /\ IsSequence(NodeViolations(p, node))
         /\ \A v \in ToSet(NodeViolations(p, node)) : v.pkg = Package(node.name)
         /\ (\E v \in ToSet(NodeViolations(p, node)) : v.reason = "denylist_match")
              <=> p.mode = "denylist" /\ matchesAllow(p.deny, node.name)
         /\ (\E v \in ToSet(NodeViolations(p, node)) : v.reason = "not_in_allowlist")
              <=> p.mode = "allowlist" /\ ~matchesAllow(p.allow, node.name)
<1> DEFINE pkg == Package(node.name)
           c1 == p.maxDepth > 0 /\ node.depth > p.maxDepth
           c2 == p.mode = "allowlist" /\ ~matchesAllow(p.allow, node.name)
           c3 == p.mode = "denylist" /\ matchesAllow(p.deny, node.name)
           v1 == Violation(pkg, "transitive_depth_exceeded", <<"max_depth", p.maxDepth>>)
           v2 == Violation(pkg, "not_in_allowlist", <<"allowlist">>)
           v3 == Violation(pkg, "denylist_match", DenyRule(p.deny, node.name))
           a == If(c1, v1)
           b == If(c2, v2)
           c == If(c3, v3)
<1>1. c1 \in BOOLEAN /\ c2 \in BOOLEAN /\ c3 \in BOOLEAN
  BY Zenon
<1>2. /\ v1.pkg = pkg /\ v1.reason = "transitive_depth_exceeded"
      /\ v2.pkg = pkg /\ v2.reason = "not_in_allowlist"
      /\ v3.pkg = pkg /\ v3.reason = "denylist_match"
  <2> HIDE DEF pkg
  <2> QED BY DEF Violation
<1>3. NodeViolations(p, node) = a \o b \o c
  BY Zenon DEF NodeViolations, If
<1>4. /\ "transitive_depth_exceeded" # "denylist_match"
      /\ "transitive_depth_exceeded" # "not_in_allowlist"
      /\ "not_in_allowlist" # "denylist_match"
  OBVIOUS
<1> HIDE DEF c1, c2, c3, v1, v2, v3, pkg
<1>6. /\ IsSequence(a) /\ \A e : e \in ToSet(a) <=> c1 /\ e = v1
      /\ IsSequence(b) /\ \A e : e \in ToSet(b) <=> c2 /\ e = v2
      /\ IsSequence(c) /\ \A e : e \in ToSet(c) <=> c3 /\ e = v3
  BY <1>1, IfSequence, Zenon
<1> HIDE DEF a, b, c
<1>7. IsSequence(a \o b) /\ ToSet(a \o b) = ToSet(a) \cup ToSet(b)
  BY <1>6, ConcatSequence, Zenon
<1>8. IsSequence(a \o b \o c) /\ ToSet(a \o b \o c) = ToSet(a \o b) \cup ToSet(c)
  BY <1>6, <1>7, ConcatSequence, Zenon
<1>9. \A v : v \in ToSet(a \o b \o c) <=> (c1 /\ v = v1) \/ (c2 /\ v = v2) \/ (c3 /\ v = v3)
  <2>1. \A v : v \in ToSet(a \o b \o c) <=> v \in ToSet(a) \/ v \in ToSet(b) \/ v \in ToSet(c)
    BY <1>7, <1>8, Zenon
  <2> QED BY <1>6, <2>1, Zenon
<1>10. \A v \in ToSet(a \o b \o c) : v.pkg = Package(node.name)
  BY <1>2, <1>9, Zenon DEF pkg
<1>11. (\E v \in ToSet(a \o b \o c) : v.reason = "denylist_match")
         <=> p.mode = "denylist" /\ matchesAllow(p.deny, node.name)
  BY <1>2, <1>4, <1>9, Zenon DEF c3
<1>12. (\E v \in ToSet(a \o b \o c) : v.reason = "not_in_allowlist")
         <=> p.mode = "allowlist" /\ ~matchesAllow(p.allow, node.name)
  BY <1>2, <1>4, <1>9, Zenon DEF c2
<1> QED BY <1>3, <1>8, <1>10, <1>11, <1>12, Zenon

\* A violation says that a package is rejected for this reason.
Rejected(vs, name, reason) ==
  \E v \in ToSet(vs) : v.pkg = Package(name) /\ v.reason = reason

\* Among those of all packages, a package is rejected as its own rules say: two
\* packages of one id have one name.
LEMMA EvaluateRejects ==
  ASSUME NEW p, NEW ns \in Seq(Installed), NEW i \in DOMAIN ns
  PROVE  /\ Rejected(Evaluate(p, ns), ns[i].name, "denylist_match")
              <=> p.mode = "denylist" /\ matchesAllow(p.deny, ns[i].name)
         /\ Rejected(Evaluate(p, ns), ns[i].name, "not_in_allowlist")
              <=> p.mode = "allowlist" /\ ~matchesAllow(p.allow, ns[i].name)
<1>0. DOMAIN ns = 1..Len(ns) /\ Len(ns) \in Nat
  OBVIOUS
<1>1. \A k \in 1..Len(ns) : ns[k].name \in Name /\ ns[k].depth \in Nat
  <2> TAKE k \in 1..Len(ns)
  <2>1. ns[k] \in Installed
    BY ElementOfSeq
  <2> QED BY <2>1, Zenon DEF Installed
<1>2. CASE p.mode = "audit-only"
  <2>1. Evaluate(p, ns) = <<>>
    BY <1>2, Zenon DEF Evaluate
  <2>2. p.mode # "denylist" /\ p.mode # "allowlist"
    BY <1>2
  <2> QED BY <2>1, <2>2, EmptySequence, Zenon DEF Rejected
<1>3. CASE p.mode # "audit-only"
  <2> DEFINE s == [k \in 1..Len(ns) |-> NodeViolations(p, ns[k])]
             vs == FlattenSeq(s)
  <2>1. Evaluate(p, ns) = vs
    BY <1>0, <1>3, Zenon DEF Evaluate
  <2>2. /\ IsSequence(vs)
        /\ \A e : e \in ToSet(vs) <=> \E k \in 1..Len(ns) : e \in ToSet(s[k])
    <3>1. \A k \in 1..Len(ns) : s[k] = NodeViolations(p, ns[k]) /\ IsSequence(s[k])
      BY <1>1, NodeViolationsAre, Zenon
    <3>2. s = [k \in 1..Len(ns) |-> s[k]]
      BY Zenon
    <3> HIDE DEF s
    <3> QED BY <1>0, <3>1, <3>2, FlattenSequence, Zenon
  <2>3. ASSUME NEW reason, NEW C,
               \A k \in 1..Len(ns) :
                 (\E v \in ToSet(NodeViolations(p, ns[k])) : v.reason = reason)
                   <=> ns[k].name \in C
        PROVE  Rejected(vs, ns[i].name, reason) <=> ns[i].name \in C
    <3>1. \A k \in 1..Len(ns) : s[k] = NodeViolations(p, ns[k])
      BY Zenon
    <3> HIDE DEF s, vs
    <3>2. \A k \in 1..Len(ns) : \A v \in ToSet(s[k]) : v.pkg = Package(ns[k].name)
      <4>1. \A k \in 1..Len(ns) : \A v \in ToSet(NodeViolations(p, ns[k])) :
              v.pkg = Package(ns[k].name)
        BY <1>1, NodeViolationsAre, Zenon
      <4> QED BY <3>1, <4>1, Zenon
    <3>3. ASSUME Rejected(vs, ns[i].name, reason)
          PROVE  ns[i].name \in C
      <4>1. PICK v \in ToSet(vs) : v.pkg = Package(ns[i].name) /\ v.reason = reason
        BY <3>3, Zenon DEF Rejected
      <4>2. PICK k \in 1..Len(ns) : v \in ToSet(s[k])
        BY <2>2, <4>1, Zenon
      <4>3. ns[k].name = ns[i].name
        BY <4>1, <4>2, <3>2, <1>0, <1>1, PackageInjective, Zenon
      <4>4. ns[k].name \in C
        BY <2>3, <3>1, <4>1, <4>2, Zenon
      <4> QED BY <4>3, <4>4, Zenon
    <3>4. ASSUME ns[i].name \in C
          PROVE  Rejected(vs, ns[i].name, reason)
      <4>1. PICK v \in ToSet(s[i]) : v.reason = reason
        BY <1>0, <2>3, <3>1, <3>4, Zenon
      <4>2. v.pkg = Package(ns[i].name)
        BY <1>0, <3>2, <4>1, Zenon
      <4>3. v \in ToSet(vs)
        BY <1>0, <2>2, <4>1, Zenon
      <4> QED BY <4>1, <4>2, <4>3, Zenon DEF Rejected
    <3> QED BY <3>3, <3>4, Zenon
  <2> DEFINE Denied == {n \in Name : p.mode = "denylist" /\ matchesAllow(p.deny, n)}
             Unlisted == {n \in Name : p.mode = "allowlist" /\ ~matchesAllow(p.allow, n)}
  <2>4. \A k \in 1..Len(ns) :
          /\ (\E v \in ToSet(NodeViolations(p, ns[k])) : v.reason = "denylist_match")
               <=> ns[k].name \in Denied
          /\ (\E v \in ToSet(NodeViolations(p, ns[k])) : v.reason = "not_in_allowlist")
               <=> ns[k].name \in Unlisted
    BY <1>1, NodeViolationsAre, Zenon
  <2>5. /\ ns[i].name \in Denied <=> p.mode = "denylist" /\ matchesAllow(p.deny, ns[i].name)
        /\ ns[i].name \in Unlisted
             <=> p.mode = "allowlist" /\ ~matchesAllow(p.allow, ns[i].name)
    BY <1>0, <1>1, Zenon
  <2> HIDE DEF Denied, Unlisted, vs, s
  <2>6. Rejected(vs, ns[i].name, "denylist_match") <=> ns[i].name \in Denied
    BY <2>3, <2>4, Zenon
  <2>7. Rejected(vs, ns[i].name, "not_in_allowlist") <=> ns[i].name \in Unlisted
    BY <2>3, <2>4, Zenon
  <2> QED BY <2>1, <2>5, <2>6, <2>7, Zenon
<1> QED BY <1>2, <1>3, Zenon

\* They are a sequence.
LEMMA EvaluateSequence ==
  ASSUME NEW p, NEW ns \in Seq(Installed)
  PROVE  IsSequence(Evaluate(p, ns))
<1>0. DOMAIN ns = 1..Len(ns) /\ Len(ns) \in Nat
  OBVIOUS
<1>1. \A k \in 1..Len(ns) : ns[k].depth \in Nat
  <2> TAKE k \in 1..Len(ns)
  <2>1. ns[k] \in Installed
    BY ElementOfSeq
  <2> QED BY <2>1, Zenon DEF Installed
<1> DEFINE s == [k \in 1..Len(ns) |-> NodeViolations(p, ns[k])]
<1>2. IsSequence(FlattenSeq(s))
  <2>1. \A k \in 1..Len(ns) : IsSequence(s[k])
    BY <1>1, NodeViolationsAre, Zenon
  <2>2. s = [k \in 1..Len(ns) |-> s[k]]
    BY Zenon
  <2> HIDE DEF s
  <2> QED BY <1>0, <2>1, <2>2, FlattenSequence, Zenon
<1>3. Evaluate(p, ns) = <<>> \/ Evaluate(p, ns) = FlattenSeq(s)
  BY <1>0, Zenon DEF Evaluate
<1> QED BY <1>2, <1>3, EmptySequence, Zenon

\* A package of the tree has at most one event, and it is not about an artifact,
LEMMA TreeEventIs ==
  ASSUME NEW name, NEW o
  PROVE  /\ IsSequence(TreeEvent(name, o))
         /\ \A e \in ToSet(TreeEvent(name, o)) : e.event # "binary_verify"
<1> DEFINE One(ev, st, re, m) == <<Event(ev, Package(name), st, re, m)>>
<1>1. \/ TreeEvent(name, o) = <<>>
      \/ \E ev \in {"hash_check", "hash_missing", "hash_verified", "hash_skipped"} :
           \E st, re, m : TreeEvent(name, o) = One(ev, st, re, m)
  <2>1. CASE o = "match"
    BY <2>1, Zenon DEF TreeEvent
  <2>2. CASE o = "differs"
    BY <2>2, Zenon DEF TreeEvent
  <2>3. CASE o = "notInstalled"
    BY <2>3, Zenon DEF TreeEvent
  <2>4. CASE o = "noEntry"
    BY <2>4, Zenon DEF TreeEvent
  <2>5. CASE o = "hashed"
    BY <2>5, Zenon DEF TreeEvent
  <2>6. CASE o = "skipped"
    BY <2>6, Zenon DEF TreeEvent
  <2>7. CASE o \notin {"match", "differs", "notInstalled", "noEntry", "hashed", "skipped"}
    BY <2>7, Zenon DEF TreeEvent
  <2> QED BY <2>1, <2>2, <2>3, <2>4, <2>5, <2>6, <2>7, Zenon
<1>2. CASE TreeEvent(name, o) = <<>>
  BY <1>2, EmptySequence, Zenon
<1>3. ASSUME NEW ev \in {"hash_check", "hash_missing", "hash_verified", "hash_skipped"},
             NEW st, NEW re, NEW m, TreeEvent(name, o) = One(ev, st, re, m)
      PROVE  /\ IsSequence(TreeEvent(name, o))
             /\ \A e \in ToSet(TreeEvent(name, o)) : e.event # "binary_verify"
  <2>1. Event(ev, Package(name), st, re, m).event = ev
    BY Zenon DEF Event
  <2>2. ev # "binary_verify"
    OBVIOUS
  <2> QED BY <1>3, <2>1, <2>2, SingleSequence, Zenon
<1> QED BY <1>1, <1>2, <1>3, Zenon

\* and at most one violation.
LEMMA TreeViolationIs ==
  ASSUME NEW name, NEW o
  PROVE  IsSequence(TreeViolation(name, o))
<1>1. TreeViolation(name, o) = <<>> \/ \E v : TreeViolation(name, o) = <<v>>
  <2>1. CASE o = "differs"
    BY <2>1, Zenon DEF TreeViolation
  <2>2. CASE o = "notInstalled"
    BY <2>2, Zenon DEF TreeViolation
  <2>3. CASE o = "noEntry"
    BY <2>3, Zenon DEF TreeViolation
  <2>4. CASE o \notin {"differs", "notInstalled", "noEntry"}
    BY <2>4, Zenon DEF TreeViolation
  <2> QED BY <2>1, <2>2, <2>3, <2>4, Zenon
<1> QED BY <1>1, EmptySequence, SingleSequence, Zenon

\* The events of all packages of the tree are a sequence, without such an event;
LEMMA TreeEventsAre ==
  ASSUME NEW outcomes
  PROVE  /\ IsSequence(OfTree(TreeEvent, outcomes))
         /\ \A e \in ToSet(OfTree(TreeEvent, outcomes)) : e.event # "binary_verify"
<1>0. DOMAIN Packages = 1..Len(Packages) /\ Len(Packages) \in Nat
  BY TreeAssumption
<1> DEFINE s == [i \in 1..Len(Packages) |-> TreeEvent(Packages[i], outcomes[i])]
<1>1. \A i \in 1..Len(Packages) : s[i] = TreeEvent(Packages[i], outcomes[i])
  BY Zenon
<1>2. s = [i \in 1..Len(Packages) |-> s[i]]
  BY Zenon
<1>3. OfTree(TreeEvent, outcomes) = FlattenSeq(s)
  BY <1>0, Zenon DEF OfTree
<1> HIDE DEF s
<1>4. \A i \in 1..Len(Packages) :
        IsSequence(s[i]) /\ \A e \in ToSet(s[i]) : e.event # "binary_verify"
  BY <1>1, TreeEventIs, Zenon
<1>5. /\ IsSequence(FlattenSeq(s))
      /\ \A e : e \in ToSet(FlattenSeq(s)) <=> \E i \in 1..Len(Packages) : e \in ToSet(s[i])
  BY <1>0, <1>2, <1>4, FlattenSequence, Zenon
<1> QED BY <1>3, <1>4, <1>5, Zenon

\* their violations are one, too.
LEMMA TreeViolationsAre ==
  ASSUME NEW signed \in BOOLEAN, NEW outcomes
  PROVE  IsSequence(TreeViolations(signed, outcomes))
<1>0. DOMAIN Packages = 1..Len(Packages) /\ Len(Packages) \in Nat
  BY TreeAssumption
<1> DEFINE s == [i \in 1..Len(Packages) |-> TreeViolation(Packages[i], outcomes[i])]
           a == If(~signed, Violation(Package(Packages[1]), "lockfile signature verification failed",
                                      <<"lockfile_signature">>))
<1>1. \A i \in 1..Len(Packages) : IsSequence(s[i])
  BY TreeViolationIs, Zenon
<1>2. s = [i \in 1..Len(Packages) |-> s[i]]
  BY Zenon
<1>3. TreeViolations(signed, outcomes) = a \o FlattenSeq(s)
  BY <1>0, Zenon DEF TreeViolations, OfTree
<1>4. IsSequence(a)
  BY IfSequence
<1> HIDE DEF s, a
<1>5. IsSequence(FlattenSeq(s))
  BY <1>0, <1>1, <1>2, FlattenSequence, Zenon
<1> QED BY <1>3, <1>4, <1>5, ConcatSequence, Zenon

\* The log stays a sequence, also when only some events are appended.
LEMMA LogSequence ==
  ASSUME NEW new, IsSequence(new), IsSequence(log), NEW ok \in BOOLEAN, Log(new, ok)
  PROVE  IsSequence(log')
<1>1. CASE log' = log \o new
  BY <1>1, ConcatSequence, Zenon
<1>2. ASSUME NEW k \in 0..Len(new), log' = log \o SubSeq(new, 1, k)
      PROVE  IsSequence(log')
  <2>1. SubSeq(new, 1, k) \in Seq(ToSet(new))
    BY DEF IsSequence
  <2> QED BY <1>2, <2>1, IsSequenceOf, ConcatSequence, Zenon
<1> QED BY <1>1, <1>2, Zenon DEF Log

\* So are the events of violations.
LEMMA ViolationEventsSequence ==
  ASSUME NEW vs, IsSequence(vs)
  PROVE  IsSequence(policyViolationEvents(vs))
<1>1. DOMAIN vs = 1..Len(vs) /\ Len(vs) \in Nat
  BY DEF IsSequence
<1> DEFINE e(i) == Event("policy_violation", vs[i].pkg, "blocked", vs[i].reason, FALSE)
           S == {e(i) : i \in 1..Len(vs)}
           t == [i \in 1..Len(vs) |-> e(i)]
<1>2. t \in [1..Len(vs) -> S]
  BY Zenon
<1>3. policyViolationEvents(vs) = t
  BY <1>1, Zenon DEF policyViolationEvents
<1> HIDE DEF t, S
<1>4. t \in Seq(S)
  BY <1>1, <1>2
<1> QED BY <1>3, <1>4, IsSequenceOf, Zenon

\* The default policy has no rules.
LEMMA DefaultIsPolicy == IsPolicy(DefaultPolicy)
<1>1. DefaultPolicy.allow = <<>> /\ DefaultPolicy.deny = <<>>
  BY DEF DefaultPolicy
<1> QED BY <1>1 DEF IsPolicy

\* The events and violations of one package are sequences.
LEMMA EventsSequences ==
  /\ IsSequence(<<policyMissingEvent>>)
  /\ \A path : IsSequence(<<BinaryEvent(path)>>) /\ IsSequence(BinaryViolations(path))
<1>1. \A path : matched(path) \in BOOLEAN
  BY Zenon DEF matched
<1> QED BY <1>1, SingleSequence, IfSequence, Zenon DEF BinaryViolations

-----------------------------------------------------------------------------
(* The rules and the locations of a SARIF report. *)

\* One more violation of the list that buildRules makes.
Built(b, vs, n) ==
  IF n = 0 THEN [rules |-> <<>>, seen |-> [id \in {} |-> 0]]
  ELSE NextRule(b[n - 1], normalizeRuleID(vs[n].rule))

\* The function that buildRules chooses.
Builds(b, vs) == b = [n \in 0..Len(vs) |-> Built(b, vs, n)]

\* There is one, by induction on the number of violations,
LEMMA BuildExists ==
  ASSUME NEW vs, Len(vs) \in Nat
  PROVE  \E b : Builds(b, vs)
<1> DEFINE Good(m) == \E b : b = [n \in 0..m |-> Built(b, vs, n)]
           T == {m \in Nat : Good(m)}
<1>1. 0 \in T
  <2> DEFINE h == [n \in 0..0 |-> [rules |-> <<>>, seen |-> [id \in {} |-> 0]]]
  <2>1. \A n \in 0..0 : h[n] = Built(h, vs, n)
    <3>1. \A n \in 0..0 : n = 0
      BY SMT
    <3> QED BY <3>1, Zenon DEF Built
  <2>2. h = [n \in 0..0 |-> Built(h, vs, n)]
    BY <2>1, Zenon
  <2>3. 0 \in Nat
    BY SMT
  <2> QED BY <2>2, <2>3, Zenon
<1>2. ASSUME NEW k \in T PROVE k + 1 \in T
  <2> DEFINE m == k + 1
  <2>1. k \in Nat /\ m \in Nat
    <3>1. k \in Nat
      BY Zenon
    <3> QED BY <3>1, SMT
  <2>2. PICK b : b = [n \in 0..k |-> Built(b, vs, n)]
    BY Zenon
  <2> DEFINE h == [n \in 0..m |-> IF n = m THEN Built(b, vs, m) ELSE b[n]]
  <2>3. \A n \in 0..m : h[n] = Built(h, vs, n)
    <3> TAKE n \in 0..m
    <3>1. n # m => n \in 0..k
      BY <2>1, SMT
    <3>2. n # m => h[n] = b[n] /\ b[n] = Built(b, vs, n)
      BY <2>2, <3>1, Zenon
    <3>3. n # 0 => n - 1 \in 0..m /\ n - 1 # m
      BY <2>1, SMT
    <3>4. n # 0 => h[n - 1] = b[n - 1]
      BY <3>3, Zenon
    <3>5. Built(h, vs, n) = Built(b, vs, n)
      <4>1. CASE n = 0
        BY <4>1, Zenon DEF Built
      <4>2. CASE n # 0
        <5>1. h[n - 1] = b[n - 1]
          BY <3>4, <4>2, Zenon
        <5> HIDE DEF h
        <5>2. NextRule(h[n - 1], normalizeRuleID(vs[n].rule))
                = NextRule(b[n - 1], normalizeRuleID(vs[n].rule))
          BY <5>1, Zenon
        <5> QED BY <4>2, <5>2, Zenon DEF Built
      <4> QED BY <4>1, <4>2, Zenon
    <3>6. n = m => h[n] = Built(b, vs, n)
      BY Zenon
    <3> QED BY <3>2, <3>5, <3>6, Zenon
  <2>4. h = [n \in 0..m |-> Built(h, vs, n)]
    BY <2>3, Zenon
  <2> QED BY <2>4, <2>1, Zenon
<1>3. T = Nat
  <2>1. T \in SUBSET Nat
    BY Zenon
  <2> HIDE DEF T
  <2> QED BY <1>1, <1>2, <2>1, Induction, Zenon
<1>4. Good(Len(vs))
  BY <1>3, Zenon
<1> QED BY <1>4, Zenon DEF Builds

\* so buildRules has one.
LEMMA BuildRulesIs ==
  ASSUME NEW vs, Len(vs) \in Nat
  PROVE  \E b : Builds(b, vs) /\ buildRules(vs) = b[Len(vs)]
<1> DEFINE F == CHOOSE b : Builds(b, vs)
<1>1. Builds(F, vs)
  BY BuildExists, Zenon
<1>2. buildRules(vs) = F[Len(vs)]
  BY Zenon DEF buildRules, Builds, Built
<1> QED BY <1>1, <1>2, Zenon

\* A list of rules and the index of each, with every rule where its index says:
\* so each is in it once.
Indexed(b) ==
  /\ IsSequence(b.rules)
  /\ \A id \in DOMAIN b.seen : /\ b.seen[id] + 1 \in DOMAIN b.rules
                               /\ b.rules[b.seen[id] + 1] = id
  /\ \A k \in DOMAIN b.rules : b.rules[k] \in DOMAIN b.seen /\ b.seen[b.rules[k]] + 1 = k

\* One violation more keeps it so, with the rules of before and the new one.
LEMMA NextRuleIs ==
  ASSUME NEW b, Indexed(b), NEW id
  PROVE  LET c == NextRule(b, id)
         IN  Indexed(c) /\ id \in DOMAIN c.seen /\ DOMAIN b.seen \subseteq DOMAIN c.seen
<1>1. CASE id \in DOMAIN b.seen
  BY <1>1, Zenon DEF NextRule
<1>2. CASE id \notin DOMAIN b.seen
  <2> DEFINE r == b.rules
             m == Len(r)
             q == Append(r, id)
             t == [x \in DOMAIN b.seen \cup {id} |-> IF x = id THEN m ELSE b.seen[x]]
  <2>1. NextRule(b, id) = [rules |-> q, seen |-> t]
    BY <1>2, Zenon DEF NextRule
  <2>2. r \in Seq(ToSet(r) \cup {id}) /\ id \in ToSet(r) \cup {id}
    <3>1. IsSequence(r)
      BY Zenon DEF Indexed
    <3> HIDE DEF r
    <3> QED BY <3>1, SeqMonotonic DEF IsSequence
  <2>3. /\ m \in Nat /\ DOMAIN r = 1..m /\ DOMAIN q = 1..(m + 1)
        /\ \A k \in 1..m : q[k] = r[k]
        /\ q[m + 1] = id
        /\ IsSequence(q)
    <3> DEFINE S == ToSet(r) \cup {id}
    <3>1. r \in Seq(S) /\ id \in S
      BY <2>2, Zenon
    <3> HIDE DEF S, r
    <3>2. q \in Seq(S)
      BY <3>1, AppendProperties
    <3>3. IsSequence(q)
      <4> HIDE DEF q
      <4> QED BY <3>2, IsSequenceOf
    <3> QED BY <3>1, <3>3, AppendProperties
  <2>4. /\ DOMAIN t = DOMAIN b.seen \cup {id}
        /\ \A x \in DOMAIN b.seen : t[x] = b.seen[x]
        /\ t[id] = m
    BY <1>2, Zenon
  <2>5. /\ \A x \in DOMAIN b.seen : b.seen[x] + 1 \in 1..m /\ r[b.seen[x] + 1] = x
        /\ \A k \in 1..m : r[k] \in DOMAIN b.seen /\ b.seen[r[k]] + 1 = k
    BY <2>3, Zenon DEF Indexed
  <2> HIDE DEF q, t, r, m
  <2>6. \A k : k \in 1..(m + 1) <=> k \in 1..m \/ k = m + 1
    BY <2>3, SMT
  <2>7. \A x \in DOMAIN t : t[x] + 1 \in DOMAIN q /\ q[t[x] + 1] = x
    BY <2>3, <2>4, <2>5, <2>6, Zenon
  <2>8. ASSUME NEW k \in DOMAIN q PROVE q[k] \in DOMAIN t /\ t[q[k]] + 1 = k
    <3>1. CASE k \in 1..m
      <4>1. q[k] = r[k] /\ r[k] \in DOMAIN b.seen /\ b.seen[r[k]] + 1 = k
        BY <2>3, <2>5, <3>1, Zenon
      <4>2. r[k] \in DOMAIN t /\ t[r[k]] = b.seen[r[k]]
        BY <2>4, <4>1, Zenon
      <4>3. t[r[k]] + 1 = k
        BY <4>1, <4>2
      <4> QED BY <4>1, <4>2, <4>3
    <3>2. CASE k = m + 1
      BY <2>3, <2>4, <3>2, Zenon
    <3> QED BY <2>3, <2>6, <3>1, <3>2, Zenon
  <2>9. [rules |-> q, seen |-> t].rules = q /\ [rules |-> q, seen |-> t].seen = t
    BY Zenon
  <2> QED BY <2>1, <2>3, <2>4, <2>7, <2>8, <2>9, Zenon DEF Indexed
<1> QED BY <1>1, <1>2, Zenon

\* The rules of violations, where each one is, and that there is one for each.
LEMMA BuildRulesIndexed ==
  ASSUME NEW vs, IsSequence(vs)
  PROVE  /\ Indexed(buildRules(vs))
         /\ \A i \in DOMAIN vs : normalizeRuleID(vs[i].rule) \in DOMAIN buildRules(vs).seen
<1>1. DOMAIN vs = 1..Len(vs) /\ Len(vs) \in Nat
  BY DEF IsSequence
<1>2. PICK b : Builds(b, vs) /\ buildRules(vs) = b[Len(vs)]
  BY <1>1, BuildRulesIs
<1> DEFINE Id_(i) == normalizeRuleID(vs[i].rule)
           P(n) == Indexed(b[n]) /\ \A i \in 1..n : Id_(i) \in DOMAIN b[n].seen
           G == {n \in Nat : n \in 0..Len(vs) => P(n)}
<1>3. 0 \in G
  <2>1. 0 \in 0..Len(vs) /\ 0 \in Nat /\ 1..0 = {}
    BY <1>1, SMT
  <2>2. b[0] = [rules |-> <<>>, seen |-> [id \in {} |-> 0]]
    BY <1>2, <2>1, Zenon DEF Builds, Built
  <2>3. b[0].rules = <<>> /\ b[0].seen = [id \in {} |-> 0] /\ DOMAIN b[0].seen = {}
    BY <2>2
  <2>4. IsSequence(<<>>) /\ DOMAIN <<>> = {}
    <3>1. DOMAIN <<>> = {}
      OBVIOUS
    <3> QED BY <3>1, EmptySequence, Zenon
  <2> QED BY <2>1, <2>3, <2>4, Zenon DEF Indexed
<1>4. ASSUME NEW k \in G PROVE k + 1 \in G
  <2>1. k \in Nat
    BY Zenon
  <2>2. k + 1 \in Nat /\ (k + 1) - 1 = k /\ k + 1 # 0
    BY <2>1, SMT
  <2>3. ASSUME k + 1 \in 0..Len(vs) PROVE P(k + 1)
    <3>1. k \in 0..Len(vs)
      BY <1>1, <2>1, <2>3, SMT
    <3>2. P(k)
      BY <3>1, Zenon
    <3>3. b[k + 1] = NextRule(b[k], Id_(k + 1))
      <4>1. b[k + 1] = Built(b, vs, k + 1)
        BY <1>2, <2>3, Zenon DEF Builds
      <4> QED BY <2>2, <4>1, Zenon DEF Built
    <3>4. \A i \in 1..(k + 1) : i \in 1..k \/ i = k + 1
      BY <2>1, SMT
    <3> HIDE DEF Id_
    <3>5. /\ Indexed(b[k + 1]) /\ Id_(k + 1) \in DOMAIN b[k + 1].seen
          /\ DOMAIN b[k].seen \subseteq DOMAIN b[k + 1].seen
      BY <3>2, <3>3, NextRuleIs, Zenon
    <3> QED BY <3>2, <3>4, <3>5, Zenon
  <2> HIDE DEF P
  <2> QED BY <2>2, <2>3, Zenon
<1>5. G = Nat
  <2>1. G \in SUBSET Nat
    BY Zenon
  <2> HIDE DEF G
  <2> QED BY <1>3, <1>4, <2>1, Induction, Zenon
<1>6. P(Len(vs))
  <2>1. Len(vs) \in 0..Len(vs)
    BY <1>1, SMT
  <2> QED BY <1>1, <1>5, <2>1, Zenon
<1> QED BY <1>1, <1>2, <1>6, Zenon

\* A sequence whose elements know their places has each of them once.
LEMMA IndexedOnce ==
  ASSUME NEW b, Indexed(b)
  PROVE  Cardinality(ToSet(b.rules)) = Len(b.rules)
<1> DEFINE r == b.rules
           n == Len(r)
           f == [k \in 1..n |-> r[k]]
<1>1. DOMAIN r = 1..n /\ n \in Nat
  <2>1. IsSequence(r)
    BY Zenon DEF Indexed
  <2> HIDE DEF r
  <2> QED BY <2>1 DEF IsSequence
<1>2. \A i, j \in 1..n : r[i] = r[j] => i = j
  <2>1. \A k \in 1..n : b.seen[r[k]] + 1 = k
    BY <1>1, Zenon DEF Indexed
  <2> HIDE DEF r
  <2> QED BY <2>1, Zenon
<1>3. ToSet(r) = {r[k] : k \in 1..n}
  BY <1>1, Zenon DEF ToSet
<1> HIDE DEF r, n
<1>4. f \in Bijection(1..n, ToSet(r))
  <2>1. f \in [1..n -> ToSet(r)] /\ \A k \in 1..n : f[k] = r[k]
    BY <1>3, Zenon
  <2>2. \A e \in ToSet(r) : \E k \in 1..n : f[k] = e
    BY <1>3, <2>1, Zenon
  <2> HIDE DEF f
  <2> QED BY <1>2, <2>1, <2>2, Zenon DEF Bijection, Injection, Surjection, IsInjective
<1>5. ExistsBijection(1..n, ToSet(r))
  BY <1>4, Zenon DEF ExistsBijection
<1>6. Cardinality(ToSet(r)) = n
  BY <1>1, <1>5, FS_CountingElements, Zenon
<1> QED BY <1>6, Zenon DEF r, n

\* The name that is cut from a package id is the id, or what comes before its
\* version.
Located(pkg) ==
  \E k \in 0..Len(pkg) :
    /\ stagePkgName(pkg) = SubSeq(pkg, 1, k)
    /\ k = Len(pkg) \/ SubSeq(pkg, k + 1, Len(pkg)) = <<"@", "v">>

\* So are the ids of packages,
LEMMA PackageLocated ==
  ASSUME NEW name \in Name
  PROVE  Located(Package(name))
<1> DEFINE pkg == Package(name)
           n == Len(name)
<1>1. /\ name \in Seq(Token) /\ n \in Nat /\ <<"@", "v">> \in Seq(Token)
      /\ Len(<<"@", "v">>) = 2
  BY TokenAssumption DEF Name
<1>2. /\ pkg \in Seq(Token) /\ Len(pkg) = n + 2
      /\ pkg[n + 1] = "@" /\ pkg[n + 2] = "v"
      /\ SubSeq(pkg, n + 1, n + 2) = <<"@", "v">>
  <2>1. pkg = name \o <<"@", "v">>
    BY Zenon DEF Package
  <2> HIDE DEF pkg, n
  <2>2. pkg \in Seq(Token)
    BY <1>1, <2>1, ConcatProperties, Zenon
  <2>3. Len(pkg) = n + 2
    BY <1>1, <2>1 DEF n
  <2>4. pkg[n + 1] = "@" /\ pkg[n + 2] = "v"
    BY <1>1, <2>1 DEF n
  <2>5. SubSeq(pkg, n + 1, n + 2) = <<"@", "v">>
    <3>1. n \in 0..Len(pkg) /\ n + 2 \in n..Len(pkg) /\ n + 2 = n + Len(<<"@", "v">>)
      BY <1>1, <2>3
    <3>2. Occurs(<<"@", "v">>, pkg, n)
      <4>1. n + Len(<<"@", "v">>) <= Len(pkg)
        BY <1>1, <2>3
      <4>2. \A i \in 1..Len(<<"@", "v">>) : i = 1 \/ i = 2
        OBVIOUS
      <4>3. <<"@", "v">>[1] = "@" /\ <<"@", "v">>[2] = "v"
        OBVIOUS
      <4> QED BY <2>4, <4>1, <4>2, <4>3, Zenon DEF Occurs
    <3> QED BY <1>1, <2>2, <3>1, <3>2, SubSeqOccurs, ZenonT(60)
  <2> QED BY <2>2, <2>3, <2>4, <2>5
<1> HIDE DEF pkg, n
<1>3. pkg \in Id /\ pkg # <<>> /\ Last(pkg) = "v"
  BY <1>1, <1>2 DEF Id, Name, Last
<1>4. stagePkgName(pkg) = SubSeq(pkg, 1, Len(pkg) - 2)
  BY <1>3, StageNameOfId
<1>5. n \in 0..Len(pkg) /\ Len(pkg) - 2 = n
  BY <1>1, <1>2
<1> QED BY <1>2, <1>4, <1>5, Zenon DEF Located, pkg

\* and whatever has no @ sign.
LEMMA PlainLocated ==
  ASSUME NEW pkg, Len(pkg) \in Nat, SubSeq(pkg, 1, Len(pkg)) = pkg,
         \A i \in DOMAIN pkg : pkg[i] # "@"
  PROVE  Located(pkg)
<1>1. LastAt(pkg) = {}
  BY Zenon DEF LastAt
<1>2. stagePkgName(pkg) = pkg
  BY <1>1, Zenon DEF stagePkgName
<1>3. Len(pkg) \in 0..Len(pkg)
  OBVIOUS
<1> QED BY <1>2, <1>3, Zenon DEF Located

\* Two elements make a pair.
LEMMA PairIs ==
  ASSUME NEW a, NEW b
  PROVE  <<a>> \o <<b>> = <<a, b>>
<1> DEFINE S == {a, b}
           s == <<a>>
           t == <<b>>
           u == <<a, b>>
<1>1. s \in Seq(S) /\ t \in Seq(S) /\ u \in Seq(S)
  OBVIOUS
<1>2. Len(s) = 1 /\ Len(t) = 1 /\ Len(u) = 2 /\ s[1] = a /\ t[1] = b /\ u[1] = a /\ u[2] = b
  OBVIOUS
<1> HIDE DEF S, s, t, u
<1>3. s \o t \in Seq(S) /\ Len(s \o t) = 2 /\ (s \o t)[1] = a /\ (s \o t)[2] = b
  <2>1. /\ s \o t \in Seq(S) /\ Len(s \o t) = Len(s) + Len(t)
        /\ \A i \in 1..(Len(s) + Len(t)) :
             (s \o t)[i] = IF i <= Len(s) THEN s[i] ELSE t[i - Len(s)]
    BY <1>1, ConcatProperties
  <2>2. Len(s) + Len(t) = 2 /\ 1 \in 1..2 /\ 2 \in 1..2 /\ 2 - Len(s) = 1
    BY <1>2
  <2>3. (s \o t)[1] = s[1] /\ (s \o t)[2] = t[2 - Len(s)]
    BY <1>2, <2>1, <2>2
  <2> QED BY <1>2, <2>1, <2>2, <2>3
<1>4. s \o t = u
  <2>1. \A i \in 1..2 : i = 1 \/ i = 2
    BY SMT
  <2>2. \A i \in 1..2 : (s \o t)[i] = u[i]
    BY <1>2, <1>3, <2>1, Zenon
  <2> QED BY <1>1, <1>2, <1>3, <2>2, SeqEqual
<1> QED BY <1>4, Zenon DEF s, t, u

\* What the SARIF report says of the rules of violations.
SarifOf(r, vs) ==
  /\ Len(r.results) = Len(vs)
  /\ \A i \in DOMAIN vs :
       /\ r.results[i].ruleId = vs[i].rule[1]
       /\ r.results[i].ruleIndex + 1 \in DOMAIN r.rules
       /\ r.rules[r.results[i].ruleIndex + 1] = r.results[i].ruleId
  /\ Cardinality(ToSet(r.rules)) = Len(r.rules)

\* What it says of the package of a violation.
LocatedIn(r, i, pkg) ==
  \E k \in 0..Len(pkg) :
    /\ r.results[i].uri = <<"node_modules", "/">> \o SubSeq(pkg, 1, k)
    /\ k = Len(pkg) \/ SubSeq(pkg, k + 1, Len(pkg)) = <<"@", "v">>

\* It says what it should.
LEMMA SarifTells ==
  ASSUME NEW vs, IsSequence(vs), NEW passed, NEW artifact
  PROVE  /\ SarifOf(RenderSarif(passed, vs, artifact), vs)
         /\ RenderSarif(passed, vs, artifact).executionSuccessful = passed
         /\ artifact = <<>> =>
              \A i \in DOMAIN vs : Located(vs[i].pkg) =>
                LocatedIn(RenderSarif(passed, vs, artifact), i, vs[i].pkg)
<1> DEFINE b == buildRules(vs)
           res == buildResults(vs, b.seen, artifact)
           r == RenderSarif(passed, vs, artifact)
           uri(pkg) == (IF artifact = <<>> THEN <<"node_modules">> ELSE artifact)
                         \o <<"/">> \o stagePkgName(pkg)
<1>0. DOMAIN vs = 1..Len(vs) /\ Len(vs) \in Nat
  BY DEF IsSequence
<1>1. Indexed(b) /\ \A i \in DOMAIN vs : normalizeRuleID(vs[i].rule) \in DOMAIN b.seen
  BY BuildRulesIndexed, Zenon
<1>2. r.executionSuccessful = passed /\ r.rules = b.rules /\ r.results = res
  BY Zenon DEF RenderSarif
<1>3. DOMAIN res = DOMAIN vs
  BY Zenon DEF buildResults
<1>4. Len(res) = Len(vs)
  <2> HIDE DEF res
  <2> QED BY <1>0, <1>3
<1>5. ASSUME NEW i \in DOMAIN vs
      PROVE  /\ res[i].ruleId = vs[i].rule[1]
             /\ res[i].ruleIndex = b.seen[vs[i].rule[1]]
             /\ res[i].uri = uri(vs[i].pkg)
  BY Zenon DEF buildResults, normalizeRuleID
<1> HIDE DEF b, res, r, uri
<1>6. \A i \in DOMAIN vs : /\ res[i].ruleIndex + 1 \in DOMAIN b.rules
                           /\ b.rules[res[i].ruleIndex + 1] = res[i].ruleId
  BY <1>1, <1>5, Zenon DEF Indexed, normalizeRuleID
<1>7. SarifOf(r, vs)
  BY <1>1, <1>2, <1>4, <1>5, <1>6, IndexedOnce, Zenon DEF SarifOf
<1>8. ASSUME artifact = <<>>, NEW i \in DOMAIN vs, Located(vs[i].pkg)
      PROVE  LocatedIn(r, i, vs[i].pkg)
  <2>1. PICK k \in 0..Len(vs[i].pkg) :
          /\ stagePkgName(vs[i].pkg) = SubSeq(vs[i].pkg, 1, k)
          /\ k = Len(vs[i].pkg)
               \/ SubSeq(vs[i].pkg, k + 1, Len(vs[i].pkg)) = <<"@", "v">>
    BY <1>8, Zenon DEF Located
  <2>2. <<"node_modules">> \o <<"/">> = <<"node_modules", "/">>
    BY PairIs
  <2>3. res[i].uri = <<"node_modules", "/">> \o SubSeq(vs[i].pkg, 1, k)
    BY <1>5, <1>8, <2>1, <2>2, Zenon DEF uri
  <2> QED BY <1>2, <2>1, <2>3, Zenon DEF LocatedIn
<1> QED BY <1>2, <1>7, <1>8, Zenon DEF r

-----------------------------------------------------------------------------
(* What the reports count. *)

\* What the events of a run are, and those that a report counts under one heading.
EventName == {"hash_check", "hash_missing", "hash_verified", "hash_skipped", "binary_verify"}
EventStatus == {"verified", "mismatch", "missing", "warn"}
EventReason == {"", "package_not_installed", "missing_lock_entry", "package_dir_not_found"}
AuditEvent ==
  [event : EventName, pkg : Name, status : EventStatus, reason : EventReason,
   match : BOOLEAN]

IsHash(e) == e.event \in {"hash_check", "hash_verified", "hash_missing"}
Verifying == {e \in AuditEvent : Verifies(e)}
Mismatching == {e \in AuditEvent : ~Verifies(e) /\ e.status = "mismatch"}
Missed == {e \in AuditEvent : ~Verifies(e) /\ e.status = "missing"}
Hashed == {e \in AuditEvent : IsHash(e)}
Differing == {e \in AuditEvent : ~e.match /\ ~SaysMissing(e)}
Gone == {e \in AuditEvent : ~e.match /\ SaysMissing(e)}

\* An event of its fields.
LEMMA EventIn ==
  ASSUME NEW ev \in EventName, NEW pkg \in Name, NEW st \in EventStatus, NEW re \in EventReason,
         NEW m \in BOOLEAN
  PROVE  Event(ev, pkg, st, re, m) \in AuditEvent
BY Zenon DEF Event, AuditEvent

\* The id of a package is a name.
LEMMA PackageIsName ==
  ASSUME NEW name \in Name
  PROVE  Package(name) \in Name
<1>1. name \in Seq(Token) /\ <<"@", "v">> \in Seq(Token)
  BY TokenAssumption DEF Name
<1> QED BY <1>1, ConcatProperties, Zenon DEF Package, Name

\* An outcome is counted under these headings.
Counted(es, v, d, n, h, f, g) ==
  /\ es = <<>> \/ \E e \in AuditEvent : es = <<e>>
  /\ (es # <<>> /\ es[1] \in Verifying) <=> v
  /\ (es # <<>> /\ es[1] \in Mismatching) <=> d
  /\ (es # <<>> /\ es[1] \in Missed) <=> n
  /\ (es # <<>> /\ es[1] \in Hashed) <=> h
  /\ (es # <<>> /\ es[1] \in Differing) <=> f
  /\ (es # <<>> /\ es[1] \in Gone) <=> g

\* The event of a package, by the outcome of its check.
LEMMA TreeEventCounted ==
  ASSUME NEW name \in Name, NEW o
  PROVE  Counted(TreeEvent(name, o),
                 o \in {"match", "hashed"}, o = "differs", o = "notInstalled",
                 o \in {"match", "differs", "notInstalled", "noEntry", "hashed"},
                 o \in {"differs", "skipped"}, o \in {"notInstalled", "noEntry"})
<1> DEFINE pkg == Package(name)
<1>1. pkg \in Name
  BY PackageIsName
<1>2. \A e : <<e>>[1] = e /\ <<e>> # <<>>
  OBVIOUS
<1> HIDE DEF pkg
<1>3. CASE o = "match"
  <2> DEFINE e == Event("hash_check", pkg, "verified", "", TRUE)
  <2>1. TreeEvent(name, o) = <<e>>
    BY <1>3, Zenon DEF TreeEvent, pkg
  <2>a. /\ e.event = "hash_check" /\ e.status = "verified" /\ e.reason = ""
        /\ e.match = TRUE
    BY Zenon DEF Event
  <2>b. e \in AuditEvent
    <3>1. "hash_check" \in EventName /\ "verified" \in EventStatus /\ "" \in EventReason
      BY DEF EventName, EventStatus, EventReason
    <3>2. TRUE \in BOOLEAN
      BY Zenon
    <3> QED BY <1>1, <3>1, <3>2, EventIn, Zenon
  <2> HIDE DEF e
  <2>2. /\ e \in AuditEvent
        /\ e \in Verifying /\ e \notin Mismatching /\ e \notin Missed
        /\ e \in Hashed /\ e \notin Differing /\ e \notin Gone
    BY <2>a, <2>b DEF Verifying, Mismatching, Missed, Hashed, Differing, Gone, Verifies,
                SaysMissing, IsHash
  <2>3. /\ o \in {"match", "hashed"}
        /\ o # "differs" /\ o # "notInstalled"
        /\ o \in {"match", "differs", "notInstalled", "noEntry", "hashed"}
        /\ o \notin {"differs", "skipped"}
        /\ o \notin {"notInstalled", "noEntry"}
    BY <1>3
  <2> QED BY <1>2, <2>1, <2>2, <2>3, Zenon DEF Counted
<1>4. CASE o = "differs"
  <2> DEFINE e == Event("hash_check", pkg, "mismatch", "", FALSE)
  <2>1. TreeEvent(name, o) = <<e>>
    BY <1>4, Zenon DEF TreeEvent, pkg
  <2>a. /\ e.event = "hash_check" /\ e.status = "mismatch" /\ e.reason = ""
        /\ e.match = FALSE
    BY Zenon DEF Event
  <2>b. e \in AuditEvent
    <3>1. "hash_check" \in EventName /\ "mismatch" \in EventStatus /\ "" \in EventReason
      BY DEF EventName, EventStatus, EventReason
    <3>2. FALSE \in BOOLEAN
      BY Zenon
    <3> QED BY <1>1, <3>1, <3>2, EventIn, Zenon
  <2> HIDE DEF e
  <2>2. /\ e \in AuditEvent
        /\ e \notin Verifying /\ e \in Mismatching /\ e \notin Missed
        /\ e \in Hashed /\ e \in Differing /\ e \notin Gone
    BY <2>a, <2>b DEF Verifying, Mismatching, Missed, Hashed, Differing, Gone, Verifies,
                SaysMissing, IsHash
  <2>3. /\ o \notin {"match", "hashed"}
        /\ o = "differs" /\ o # "notInstalled"
        /\ o \in {"match", "differs", "notInstalled", "noEntry", "hashed"}
        /\ o \in {"differs", "skipped"}
        /\ o \notin {"notInstalled", "noEntry"}
    BY <1>4
  <2> QED BY <1>2, <2>1, <2>2, <2>3, Zenon DEF Counted
<1>5. CASE o = "notInstalled"
  <2> DEFINE e == Event("hash_check", pkg, "missing", "package_not_installed", FALSE)
  <2>1. TreeEvent(name, o) = <<e>>
    BY <1>5, Zenon DEF TreeEvent, pkg
  <2>a. /\ e.event = "hash_check" /\ e.status = "missing" /\ e.reason = "package_not_installed"
        /\ e.match = FALSE
    BY Zenon DEF Event
  <2>b. e \in AuditEvent
    <3>1. /\ "hash_check" \in EventName /\ "missing" \in EventStatus
          /\ "package_not_installed" \in EventReason
      BY DEF EventName, EventStatus, EventReason
    <3>2. FALSE \in BOOLEAN
      BY Zenon
    <3> QED BY <1>1, <3>1, <3>2, EventIn, Zenon
  <2> HIDE DEF e
  <2>2. /\ e \in AuditEvent
        /\ e \notin Verifying /\ e \notin Mismatching /\ e \in Missed
        /\ e \in Hashed /\ e \notin Differing /\ e \in Gone
    BY <2>a, <2>b DEF Verifying, Mismatching, Missed, Hashed, Differing, Gone, Verifies,
                SaysMissing, IsHash
  <2>3. /\ o \notin {"match", "hashed"}
        /\ o # "differs" /\ o = "notInstalled"
        /\ o \in {"match", "differs", "notInstalled", "noEntry", "hashed"}
        /\ o \notin {"differs", "skipped"}
        /\ o \in {"notInstalled", "noEntry"}
    BY <1>5
  <2> QED BY <1>2, <2>1, <2>2, <2>3, Zenon DEF Counted
<1>6. CASE o = "noEntry"
  <2> DEFINE e == Event("hash_missing", pkg, "warn", "missing_lock_entry", FALSE)
  <2>1. TreeEvent(name, o) = <<e>>
    BY <1>6, Zenon DEF TreeEvent, pkg
  <2>a. /\ e.event = "hash_missing" /\ e.status = "warn" /\ e.reason = "missing_lock_entry"
        /\ e.match = FALSE
    BY Zenon DEF Event
  <2>b. e \in AuditEvent
    <3>1. /\ "hash_missing" \in EventName /\ "warn" \in EventStatus
          /\ "missing_lock_entry" \in EventReason
      BY DEF EventName, EventStatus, EventReason
    <3>2. FALSE \in BOOLEAN
      BY Zenon
    <3> QED BY <1>1, <3>1, <3>2, EventIn, Zenon
  <2> HIDE DEF e
  <2>2. /\ e \in AuditEvent
        /\ e \notin Verifying /\ e \notin Mismatching /\ e \notin Missed
        /\ e \in Hashed /\ e \notin Differing /\ e \in Gone
    BY <2>a, <2>b DEF Verifying, Mismatching, Missed, Hashed, Differing, Gone, Verifies,
                SaysMissing, IsHash
  <2>3. /\ o \notin {"match", "hashed"}
        /\ o # "differs" /\ o # "notInstalled"
        /\ o \in {"match", "differs", "notInstalled", "noEntry", "hashed"}
        /\ o \notin {"differs", "skipped"}
        /\ o \in {"notInstalled", "noEntry"}
    BY <1>6
  <2> QED BY <1>2, <2>1, <2>2, <2>3, Zenon DEF Counted
<1>7. CASE o = "hashed"
  <2> DEFINE e == Event("hash_verified", pkg, "verified", "", TRUE)
  <2>1. TreeEvent(name, o) = <<e>>
    BY <1>7, Zenon DEF TreeEvent, pkg
  <2>a. /\ e.event = "hash_verified" /\ e.status = "verified" /\ e.reason = ""
        /\ e.match = TRUE
    BY Zenon DEF Event
  <2>b. e \in AuditEvent
    <3>1. "hash_verified" \in EventName /\ "verified" \in EventStatus /\ "" \in EventReason
      BY DEF EventName, EventStatus, EventReason
    <3>2. TRUE \in BOOLEAN
      BY Zenon
    <3> QED BY <1>1, <3>1, <3>2, EventIn, Zenon
  <2> HIDE DEF e
  <2>2. /\ e \in AuditEvent
        /\ e \in Verifying /\ e \notin Mismatching /\ e \notin Missed
        /\ e \in Hashed /\ e \notin Differing /\ e \notin Gone
    BY <2>a, <2>b DEF Verifying, Mismatching, Missed, Hashed, Differing, Gone, Verifies,
                SaysMissing, IsHash
  <2>3. /\ o \in {"match", "hashed"}
        /\ o # "differs" /\ o # "notInstalled"
        /\ o \in {"match", "differs", "notInstalled", "noEntry", "hashed"}
        /\ o \notin {"differs", "skipped"}
        /\ o \notin {"notInstalled", "noEntry"}
    BY <1>7
  <2> QED BY <1>2, <2>1, <2>2, <2>3, Zenon DEF Counted
<1>8. CASE o = "skipped"
  <2> DEFINE e == Event("hash_skipped", pkg, "warn", "package_dir_not_found", FALSE)
  <2>1. TreeEvent(name, o) = <<e>>
    BY <1>8, Zenon DEF TreeEvent, pkg
  <2>a. /\ e.event = "hash_skipped" /\ e.status = "warn" /\ e.reason = "package_dir_not_found"
        /\ e.match = FALSE
    BY Zenon DEF Event
  <2>b. e \in AuditEvent
    <3>1. /\ "hash_skipped" \in EventName /\ "warn" \in EventStatus
          /\ "package_dir_not_found" \in EventReason
      BY DEF EventName, EventStatus, EventReason
    <3>2. FALSE \in BOOLEAN
      BY Zenon
    <3> QED BY <1>1, <3>1, <3>2, EventIn, Zenon
  <2> HIDE DEF e
  <2>2. /\ e \in AuditEvent
        /\ e \notin Verifying /\ e \notin Mismatching /\ e \notin Missed
        /\ e \notin Hashed /\ e \in Differing /\ e \notin Gone
    BY <2>a, <2>b DEF Verifying, Mismatching, Missed, Hashed, Differing, Gone, Verifies,
                SaysMissing, IsHash
  <2>3. /\ o \notin {"match", "hashed"}
        /\ o # "differs" /\ o # "notInstalled"
        /\ o \notin {"match", "differs", "notInstalled", "noEntry", "hashed"}
        /\ o \in {"differs", "skipped"}
        /\ o \notin {"notInstalled", "noEntry"}
    BY <1>8
  <2> QED BY <1>2, <2>1, <2>2, <2>3, Zenon DEF Counted
<1>9. CASE o \notin {"match", "differs", "notInstalled", "noEntry", "hashed", "skipped"}
  <2>1. TreeEvent(name, o) = <<>>
    BY <1>9, Zenon DEF TreeEvent
  <2> QED BY <1>9, <2>1, Zenon DEF Counted
<1> QED BY <1>3, <1>4, <1>5, <1>6, <1>7, <1>8, <1>9, Zenon

\* The events of all packages.
TreeEvents(outcomes) == FlattenSeq([i \in DOMAIN Packages |-> TreeEvent(Packages[i], outcomes[i])])

\* So the packages with such an event are those with such an outcome.
LEMMA CountTree ==
  ASSUME NEW outcomes, DOMAIN outcomes = DOMAIN Packages, NEW T, NEW K,
         \A i \in DOMAIN Packages :
           (TreeEvent(Packages[i], outcomes[i]) # <<>> /\ TreeEvent(Packages[i], outcomes[i])[1] \in T)
             <=> outcomes[i] \in K
  PROVE  CountIn(TreeEvents(outcomes), T) = Number(outcomes, K)
<1>0. /\ DOMAIN Packages = 1..Len(Packages) /\ Len(Packages) \in Nat
      /\ \A i \in DOMAIN Packages : Packages[i] \in Name
  BY TreeAssumption, ElementOfSeq
<1> DEFINE s == [i \in 1..Len(Packages) |-> TreeEvent(Packages[i], outcomes[i])]
<1>1. \A i \in 1..Len(Packages) : s[i] = TreeEvent(Packages[i], outcomes[i])
  BY Zenon
<1>2. s = [i \in 1..Len(Packages) |-> s[i]]
  BY Zenon
<1>3. TreeEvents(outcomes) = FlattenSeq(s)
  BY <1>0, Zenon DEF TreeEvents
<1> HIDE DEF s
<1>4. \A i \in 1..Len(Packages) : s[i] = <<>> \/ \E e : s[i] = <<e>>
  <2> TAKE i \in 1..Len(Packages)
  <2>1. Packages[i] \in Name
    BY <1>0, Zenon
  <2>2. TreeEvent(Packages[i], outcomes[i]) = <<>>
          \/ \E e \in AuditEvent : TreeEvent(Packages[i], outcomes[i]) = <<e>>
    BY <2>1, TreeEventCounted, Zenon DEF Counted
  <2> QED BY <1>1, <2>2, Zenon
<1>5. CountIn(FlattenSeq(s), T)
        = Cardinality({i \in 1..Len(Packages) : s[i] # <<>> /\ s[i][1] \in T})
  BY <1>0, <1>2, <1>4, CountFlatten
<1>6. {i \in 1..Len(Packages) : s[i] # <<>> /\ s[i][1] \in T}
        = {i \in DOMAIN outcomes : outcomes[i] \in K}
  <2>1. DOMAIN outcomes = 1..Len(Packages)
    BY <1>0, Zenon
  <2>2. \A i \in 1..Len(Packages) : (s[i] # <<>> /\ s[i][1] \in T) <=> outcomes[i] \in K
    BY <1>0, <1>1, <2>1, Zenon
  <2> QED BY <2>1, <2>2, Zenon
<1> QED BY <1>3, <1>5, <1>6, Zenon DEF Number

\* The events of the tree are events.
LEMMA TreeEventsElements ==
  ASSUME NEW outcomes
  PROVE  IsSequence(TreeEvents(outcomes)) /\ ToSet(TreeEvents(outcomes)) \subseteq AuditEvent
<1>0. /\ DOMAIN Packages = 1..Len(Packages) /\ Len(Packages) \in Nat
      /\ \A i \in DOMAIN Packages : Packages[i] \in Name
  BY TreeAssumption, ElementOfSeq
<1> DEFINE s == [i \in 1..Len(Packages) |-> TreeEvent(Packages[i], outcomes[i])]
<1>1. \A i \in 1..Len(Packages) : s[i] = TreeEvent(Packages[i], outcomes[i])
  BY Zenon
<1>2. s = [i \in 1..Len(Packages) |-> s[i]]
  BY Zenon
<1>3. TreeEvents(outcomes) = FlattenSeq(s)
  BY <1>0, Zenon DEF TreeEvents
<1> HIDE DEF s
<1>4. \A i \in 1..Len(Packages) : IsSequence(s[i]) /\ ToSet(s[i]) \subseteq AuditEvent
  <2> TAKE i \in 1..Len(Packages)
  <2>1. Packages[i] \in Name
    BY <1>0, Zenon
  <2>2. TreeEvent(Packages[i], outcomes[i]) = <<>>
          \/ \E e \in AuditEvent : TreeEvent(Packages[i], outcomes[i]) = <<e>>
    BY <2>1, TreeEventCounted, Zenon DEF Counted
  <2>3. CASE s[i] = <<>>
    BY <2>3, EmptySequence, Zenon
  <2>4. ASSUME NEW e \in AuditEvent, s[i] = <<e>>
        PROVE  IsSequence(s[i]) /\ ToSet(s[i]) \subseteq AuditEvent
    <3>1. IsSequence(<<e>>) /\ ToSet(<<e>>) = {e}
      BY SingleSequence, Zenon
    <3> QED BY <2>4, <3>1, Zenon
  <2> QED BY <1>1, <2>2, <2>3, <2>4, Zenon
<1>5. /\ IsSequence(FlattenSeq(s))
      /\ \A e : e \in ToSet(FlattenSeq(s)) <=> \E i \in 1..Len(Packages) : e \in ToSet(s[i])
  BY <1>0, <1>2, <1>4, FlattenSequence, Zenon
<1> QED BY <1>3, <1>4, <1>5, Zenon

\* What the reports count of the tree.
LEMMA TreeCounts ==
  ASSUME NEW outcomes \in [DOMAIN Packages -> Outcome]
  PROVE  /\ CountIn(TreeEvents(outcomes), Verifying) = Number(outcomes, {"match"})
         /\ CountIn(TreeEvents(outcomes), Mismatching) = Number(outcomes, {"differs"})
         /\ CountIn(TreeEvents(outcomes), Missed) = Number(outcomes, {"notInstalled"})
         /\ CountIn(TreeEvents(outcomes), Hashed)
              = Number(outcomes, Outcome \ {"neither"})
         /\ CountIn(TreeEvents(outcomes), Differing) = Number(outcomes, {"differs"})
         /\ CountIn(TreeEvents(outcomes), Gone)
              = Number(outcomes, {"noEntry", "notInstalled"})
<1> DEFINE E(i, o) == TreeEvent(Packages[i], o)
<1>1. ASSUME NEW i \in DOMAIN Packages, NEW o \in Outcome
      PROVE  Counted(E(i, o), o \in {"match"}, o \in {"differs"}, o \in {"notInstalled"},
                     o \in Outcome \ {"neither"}, o \in {"differs"},
                     o \in {"noEntry", "notInstalled"})
  <2>1. Packages[i] \in Name
    BY TreeAssumption, ElementOfSeq
  <2>2. /\ o \in {"match", "hashed"} <=> o \in {"match"}
        /\ o \in {"match", "differs", "notInstalled", "noEntry", "hashed"}
             <=> o \in Outcome \ {"neither"}
        /\ o \in {"differs", "skipped"} <=> o \in {"differs"}
        /\ o = "differs" <=> o \in {"differs"}
        /\ o = "notInstalled" <=> o \in {"notInstalled"}
        /\ o \in {"notInstalled", "noEntry"} <=> o \in {"noEntry", "notInstalled"}
    BY DEF Outcome
  <2>3. Counted(E(i, o),
                 o \in {"match", "hashed"}, o = "differs", o = "notInstalled",
                 o \in {"match", "differs", "notInstalled", "noEntry", "hashed"},
                 o \in {"differs", "skipped"}, o \in {"notInstalled", "noEntry"})
    BY <2>1, TreeEventCounted, Zenon
  <2> HIDE DEF E
  <2> QED BY <2>2, <2>3, Zenon DEF Counted
<1>2. CountIn(TreeEvents(outcomes), Verifying) = Number(outcomes, {"match"})
  <2>1. \A i \in DOMAIN Packages :
          (E(i, outcomes[i]) # <<>> /\ E(i, outcomes[i])[1] \in Verifying)
            <=> outcomes[i] \in {"match"}
    BY <1>1, Zenon DEF Counted
  <2> QED BY <2>1, CountTree
<1>3. CountIn(TreeEvents(outcomes), Mismatching) = Number(outcomes, {"differs"})
  <2>1. \A i \in DOMAIN Packages :
          (E(i, outcomes[i]) # <<>> /\ E(i, outcomes[i])[1] \in Mismatching)
            <=> outcomes[i] \in {"differs"}
    BY <1>1, Zenon DEF Counted
  <2> QED BY <2>1, CountTree
<1>4. CountIn(TreeEvents(outcomes), Missed) = Number(outcomes, {"notInstalled"})
  <2>1. \A i \in DOMAIN Packages :
          (E(i, outcomes[i]) # <<>> /\ E(i, outcomes[i])[1] \in Missed)
            <=> outcomes[i] \in {"notInstalled"}
    BY <1>1, Zenon DEF Counted
  <2> QED BY <2>1, CountTree
<1>5. CountIn(TreeEvents(outcomes), Hashed) = Number(outcomes, Outcome \ {"neither"})
  <2>1. \A i \in DOMAIN Packages :
          (E(i, outcomes[i]) # <<>> /\ E(i, outcomes[i])[1] \in Hashed)
            <=> outcomes[i] \in Outcome \ {"neither"}
    BY <1>1, Zenon DEF Counted
  <2> QED BY <2>1, CountTree
<1>6. CountIn(TreeEvents(outcomes), Differing) = Number(outcomes, {"differs"})
  <2>1. \A i \in DOMAIN Packages :
          (E(i, outcomes[i]) # <<>> /\ E(i, outcomes[i])[1] \in Differing)
            <=> outcomes[i] \in {"differs"}
    BY <1>1, Zenon DEF Counted
  <2> QED BY <2>1, CountTree
<1>7. CountIn(TreeEvents(outcomes), Gone) = Number(outcomes, {"noEntry", "notInstalled"})
  <2>1. \A i \in DOMAIN Packages :
          (E(i, outcomes[i]) # <<>> /\ E(i, outcomes[i])[1] \in Gone)
            <=> outcomes[i] \in {"noEntry", "notInstalled"}
    BY <1>1, Zenon DEF Counted
  <2> QED BY <2>1, CountTree
<1> QED BY <1>2, <1>3, <1>4, <1>5, <1>6, <1>7, Zenon

\* A sync finds nothing gone.
LEMMA SyncCounts ==
  ASSUME NEW sync \in [DOMAIN Packages -> SyncOutcome]
  PROVE  CountIn(TreeEvents(sync), Gone) = 0
<1>1. ASSUME NEW i \in DOMAIN Packages
      PROVE  (TreeEvent(Packages[i], sync[i]) # <<>> /\ TreeEvent(Packages[i], sync[i])[1] \in Gone)
               <=> sync[i] \in {}
  <2>1. Packages[i] \in Name
    BY TreeAssumption, ElementOfSeq
  <2>2. sync[i] \notin {"notInstalled", "noEntry"}
    BY DEF SyncOutcome
  <2> QED BY <2>1, <2>2, TreeEventCounted, Zenon DEF Counted
<1>2. CountIn(TreeEvents(sync), Gone) = Number(sync, {})
  BY <1>1, CountTree
<1>3. Number(sync, {}) = 0
  <2>1. {i \in DOMAIN sync : sync[i] \in {}} = {}
    OBVIOUS
  <2> QED BY <2>1, FS_EmptySet, Zenon DEF Number
<1> QED BY <1>2, <1>3, Zenon

\* A set that has no element of a sequence, and one that has all.
LEMMA CountNone ==
  ASSUME NEW s, NEW T, \A e \in ToSet(s) : e \notin T
  PROVE  CountIn(s, T) = 0
<1>1. {i \in DOMAIN s : s[i] \in T} = {}
  BY Zenon DEF ToSet
<1> QED BY <1>1, FS_EmptySet, Zenon DEF CountIn

LEMMA CountEvery ==
  ASSUME NEW s, IsSequence(s), NEW T, \A e \in ToSet(s) : e \in T
  PROVE  CountIn(s, T) = Len(s)
<1>1. {i \in DOMAIN s : s[i] \in T} = {i \in DOMAIN s : s[i] \in ToSet(s)}
  BY Zenon DEF ToSet
<1> QED BY <1>1, CountAll, Zenon DEF CountIn

\* The violation of a package, by the outcome of its check.
LEMMA TreeFaultIs ==
  ASSUME NEW name \in Name, NEW o
  PROVE  /\ \/ TreeViolation(name, o) = <<>>
            \/ \E v : /\ TreeViolation(name, o) = <<v>>
                      /\ v.pkg = Package(name) /\ v.rule[1] = "lockfile"
         /\ o \in {"differs", "notInstalled", "noEntry"} => TreeViolation(name, o) # <<>>
<1> DEFINE v(reason) == Violation(Package(name), reason, <<"lockfile">>)
<1>1. \A re : /\ v(re).pkg = Package(name) /\ v(re).rule[1] = "lockfile"
              /\ <<v(re)>> # <<>>
  BY SingleSequence, Zenon DEF Violation
<1>2. CASE o = "differs"
  <2>1. TreeViolation(name, o) = <<v("hash_mismatch")>>
    BY <1>2, Zenon DEF TreeViolation
  <2> HIDE DEF v
  <2> QED BY <1>1, <2>1, Zenon
<1>3. CASE o = "notInstalled"
  <2>1. TreeViolation(name, o) = <<v("package_not_installed")>>
    BY <1>3, Zenon DEF TreeViolation
  <2> HIDE DEF v
  <2> QED BY <1>1, <2>1, Zenon
<1>4. CASE o = "noEntry"
  <2>1. TreeViolation(name, o) = <<v("missing_lock_entry")>>
    BY <1>4, Zenon DEF TreeViolation
  <2> HIDE DEF v
  <2> QED BY <1>1, <2>1, Zenon
<1>5. CASE o \notin {"differs", "notInstalled", "noEntry"}
  BY <1>5, Zenon DEF TreeViolation
<1> QED BY <1>2, <1>3, <1>4, <1>5, Zenon

\* Those of the tree are at packages, under rules of their own; without one,
\* every package matches, or has neither an entry nor a directory.
LEMMA TreeFaultsAre ==
  ASSUME NEW signed \in BOOLEAN, NEW outcomes \in [DOMAIN Packages -> Outcome]
  PROVE  /\ IsSequence(TreeViolations(signed, outcomes))
         /\ \A v \in ToSet(TreeViolations(signed, outcomes)) :
              Located(v.pkg) /\ v.rule[1] \in {"lockfile", "lockfile_signature"}
         /\ TreeViolations(signed, outcomes) = <<>> =>
              Number(outcomes, {"match", "neither"}) = Len(outcomes)
<1>0. /\ DOMAIN Packages = 1..Len(Packages) /\ Len(Packages) \in Nat /\ Packages # <<>>
      /\ \A i \in DOMAIN Packages : Packages[i] \in Name
  BY TreeAssumption, ElementOfSeq
<1> DEFINE s == [i \in 1..Len(Packages) |-> TreeViolation(Packages[i], outcomes[i])]
           w == Violation(Package(Packages[1]), "lockfile signature verification failed",
                          <<"lockfile_signature">>)
           a == If(~signed, w)
<1>1. \A i \in 1..Len(Packages) : s[i] = TreeViolation(Packages[i], outcomes[i])
  BY Zenon
<1>2. s = [i \in 1..Len(Packages) |-> s[i]]
  BY Zenon
<1>3. TreeViolations(signed, outcomes) = a \o FlattenSeq(s)
  BY <1>0, Zenon DEF TreeViolations, OfTree
<1>4. IsSequence(a) /\ \A e \in ToSet(a) : e = w
  BY IfSequence, Zenon
<1>5. Located(w.pkg) /\ w.rule[1] \in {"lockfile", "lockfile_signature"}
  <2>1. 1 \in DOMAIN Packages
    BY <1>0, EmptySeq, TreeAssumption
  <2>2. w.pkg = Package(Packages[1]) /\ w.rule = <<"lockfile_signature">>
    BY Zenon DEF Violation
  <2>3. w.rule[1] = "lockfile_signature"
    BY <2>2, SingleSequence, Zenon
  <2> HIDE DEF w
  <2> QED BY <1>0, <2>1, <2>2, <2>3, PackageLocated, Zenon
<1> HIDE DEF s, a, w
<1>6. ASSUME NEW i \in 1..Len(Packages)
      PROVE  /\ IsSequence(s[i])
             /\ \A v \in ToSet(s[i]) : Located(v.pkg) /\ v.rule[1] = "lockfile"
             /\ outcomes[i] \in {"differs", "notInstalled", "noEntry"} =>
                  \E v : v \in ToSet(s[i])
  <2>1. Packages[i] \in Name
    BY <1>0, Zenon
  <2>2. Located(Package(Packages[i]))
    BY <2>1, PackageLocated, Zenon
  <2>3. CASE s[i] = <<>>
    <3>1. outcomes[i] \notin {"differs", "notInstalled", "noEntry"}
      BY <1>1, <2>1, <2>3, TreeFaultIs, Zenon
    <3> QED BY <2>3, <3>1, EmptySequence, Zenon
  <2>4. ASSUME NEW v, s[i] = <<v>>, v.pkg = Package(Packages[i]), v.rule[1] = "lockfile"
        PROVE  /\ IsSequence(s[i])
               /\ \A u \in ToSet(s[i]) : Located(u.pkg) /\ u.rule[1] = "lockfile"
               /\ \E u : u \in ToSet(s[i])
    <3>1. IsSequence(<<v>>) /\ ToSet(<<v>>) = {v}
      BY SingleSequence, Zenon
    <3> QED BY <2>2, <2>4, <3>1, Zenon
  <2>5. s[i] = <<>> \/ \E v : s[i] = <<v>> /\ v.pkg = Package(Packages[i]) /\ v.rule[1] = "lockfile"
    <3>1. \/ TreeViolation(Packages[i], outcomes[i]) = <<>>
          \/ \E v : /\ TreeViolation(Packages[i], outcomes[i]) = <<v>>
                    /\ v.pkg = Package(Packages[i]) /\ v.rule[1] = "lockfile"
      BY <2>1, TreeFaultIs, Zenon
    <3>2. s[i] = TreeViolation(Packages[i], outcomes[i])
      BY <1>1, Zenon
    <3> QED BY <3>1, <3>2
  <2> QED BY <2>3, <2>4, <2>5, Zenon
<1>7. /\ IsSequence(FlattenSeq(s))
      /\ \A e : e \in ToSet(FlattenSeq(s)) <=> \E i \in 1..Len(Packages) : e \in ToSet(s[i])
  <2>1. \A i \in 1..Len(Packages) : IsSequence(s[i])
    BY <1>6, Zenon
  <2> QED BY <1>0, <1>2, <2>1, FlattenSequence, Zenon
<1>8. /\ IsSequence(a \o FlattenSeq(s))
      /\ ToSet(a \o FlattenSeq(s)) = ToSet(a) \cup ToSet(FlattenSeq(s))
      /\ a \o FlattenSeq(s) = <<>> => FlattenSeq(s) = <<>>
  BY <1>4, <1>7, ConcatSequence, Zenon
<1>9. ASSUME NEW v \in ToSet(a \o FlattenSeq(s))
      PROVE  Located(v.pkg) /\ v.rule[1] \in {"lockfile", "lockfile_signature"}
  <2>1. CASE v \in ToSet(a)
    BY <1>4, <1>5, <2>1, Zenon
  <2>2. CASE v \in ToSet(FlattenSeq(s))
    BY <1>6, <1>7, <2>2, Zenon
  <2> QED BY <1>8, <2>1, <2>2, Zenon
<1>10. ASSUME a \o FlattenSeq(s) = <<>>
       PROVE  Number(outcomes, {"match", "neither"}) = Len(outcomes)
  <2>1. ToSet(FlattenSeq(s)) = {}
    BY <1>8, <1>10, EmptySequence, Zenon
  <2>2. \A i \in 1..Len(Packages) : outcomes[i] \notin {"differs", "notInstalled", "noEntry"}
    BY <1>6, <1>7, <2>1, Zenon
  <2>3. \A i \in 1..Len(Packages) : outcomes[i] \in {"match", "neither"}
    <3>1. \A i \in 1..Len(Packages) : outcomes[i] \in Outcome
      BY <1>0, Zenon
    <3> QED BY <2>2, <3>1 DEF Outcome
  <2>4. DOMAIN outcomes = 1..Len(Packages) /\ Len(outcomes) = Len(Packages)
    <3>1. outcomes \in [1..Len(Packages) -> Outcome]
      BY <1>0, Zenon
    <3> QED BY <1>0, <3>1
  <2>5. {i \in DOMAIN outcomes : outcomes[i] \in {"match", "neither"}} = 1..Len(Packages)
    BY <2>3, <2>4, Zenon
  <2>6. Cardinality(1..Len(Packages)) = Len(Packages)
    <3>1. 1 \in Int /\ Len(Packages) \in Int
      BY <1>0
    <3>2. Cardinality(1..Len(Packages)) = IF 1 > Len(Packages) THEN 0 ELSE Len(Packages) - 1 + 1
      BY <3>1, FS_Interval, Zenon
    <3> QED BY <1>0, <3>2
  <2> QED BY <2>4, <2>5, <2>6, Zenon DEF Number
<1> QED BY <1>3, <1>8, <1>9, <1>10, Zenon

\* The sequence of what is chosen: its elements, and how many of a kind it has.
Picks(s, n, names, chosen, f) ==
  s = [i \in 1..n |-> s[i]] /\ \A i \in 1..n : s[i] = If(names[i] \in chosen, f[i])

Chosen(es, n, names, chosen, f) ==
  /\ IsSequence(es)
  /\ \A e : e \in ToSet(es) <=> \E i \in 1..n : names[i] \in chosen /\ e = f[i]
  /\ \A T : CountIn(es, T) = Cardinality({i \in 1..n : names[i] \in chosen /\ f[i] \in T})

LEMMA ChosenAre ==
  ASSUME NEW n \in Nat, NEW names, NEW chosen, NEW f, NEW s, Picks(s, n, names, chosen, f)
  PROVE  Chosen(FlattenSeq(s), n, names, chosen, f)
<1> DEFINE es == FlattenSeq(s)
<1>1. ASSUME NEW i \in 1..n
      PROVE  /\ names[i] \in chosen => s[i] = <<f[i]>>
             /\ names[i] \notin chosen => s[i] = <<>>
  BY Zenon DEF If, Picks
<1>2. s = [i \in 1..n |-> s[i]] /\ es = FlattenSeq(s)
  BY Zenon DEF Picks
<1>3. ASSUME NEW i \in 1..n
      PROVE  /\ IsSequence(s[i]) /\ (s[i] = <<>> \/ \E e : s[i] = <<e>>)
             /\ s[i] # <<>> <=> names[i] \in chosen
             /\ s[i] # <<>> => s[i][1] = f[i]
             /\ \A v : v \in ToSet(s[i]) <=> names[i] \in chosen /\ v = f[i]
  <2>1. CASE names[i] \in chosen
    <3>1. s[i] = <<f[i]>>
      BY <1>1, <2>1, Zenon
    <3>2. IsSequence(s[i]) /\ ToSet(s[i]) = {f[i]} /\ s[i] # <<>> /\ s[i][1] = f[i]
      BY <3>1, SingleSequence
    <3> QED BY <2>1, <3>1, <3>2, Zenon
  <2>2. CASE names[i] \notin chosen
    BY <1>1, <2>2, EmptySequence, Zenon
  <2> QED BY <2>1, <2>2, Zenon
<1>4. /\ IsSequence(es)
      /\ \A e : e \in ToSet(es) <=> \E i \in 1..n : e \in ToSet(s[i])
  <2>1. \A i \in 1..n : IsSequence(s[i])
    BY <1>3, Zenon
  <2> QED BY <1>2, <2>1, FlattenSequence, Zenon
<1>5. ASSUME NEW T
      PROVE  CountIn(es, T) = Cardinality({i \in 1..n : names[i] \in chosen /\ f[i] \in T})
  <2>1. \A i \in 1..n : s[i] = <<>> \/ \E e : s[i] = <<e>>
    BY <1>3, Zenon
  <2>2. CountIn(FlattenSeq(s), T) = Cardinality({i \in 1..n : s[i] # <<>> /\ s[i][1] \in T})
    <3> HIDE DEF es
    <3>1. s = [i \in 1..n |-> s[i]]
      BY <1>2, Zenon
    <3> QED BY <2>1, <3>1, CountFlatten, Z3
  <2>3. {i \in 1..n : s[i] # <<>> /\ s[i][1] \in T}
          = {i \in 1..n : names[i] \in chosen /\ f[i] \in T}
    BY <1>3, Zenon
  <2> QED BY <1>2, <2>2, <2>3, Zenon
<1>6. \A i \in 1..n : \A v : v \in ToSet(s[i]) <=> names[i] \in chosen /\ v = f[i]
  BY <1>3, Zenon
<1> HIDE DEF es
<1>7. \A e : e \in ToSet(es) <=> \E i \in 1..n : names[i] \in chosen /\ e = f[i]
  BY <1>4, <1>6, Zenon
<1>8. Chosen(es, n, names, chosen, f)
  BY <1>4, <1>5, <1>7, Zenon DEF Chosen
<1> QED BY <1>8, Zenon DEF es

\* How many violations are under a rule, and whether a package is under it.
Under(vs, rule) == Cardinality({i \in DOMAIN vs : vs[i].rule[1] = rule})
IsUnder(vs, rule, pkg) == \E v \in ToSet(vs) : v.pkg = pkg /\ v.rule[1] = rule

LEMMA UnderCounts ==
  ASSUME NEW vs, NEW rule, NEW T, T = {v \in ToSet(vs) : v.rule[1] = rule}
  PROVE  Under(vs, rule) = CountIn(vs, T)
<1>1. {i \in DOMAIN vs : vs[i].rule[1] = rule} = {i \in DOMAIN vs : vs[i] \in T}
  BY Zenon DEF ToSet
<1> QED BY <1>1, Zenon DEF Under, CountIn

\* A scoring rejects packages for their hash or their score, none for its name, and
\* one for every package with a score that it rejects.
ScoredWell(s) ==
  /\ IsSequence(s.violations) /\ IsSequence(s.scores)
  /\ \A v \in ToSet(s.violations) :
       /\ Located(v.pkg) /\ v.rule[1] \in {"min_score", "require_hash"}
       /\ v.reason \in {"trust_score", "hash_required"}
  /\ Under(s.violations, "min_score")
       = Cardinality({i \in DOMAIN s.scores : IsUnder(s.violations, "min_score", s.scores[i])})

\* The scoring that has nothing, and one that has scores only,
LEMMA ScoresAlone ==
  ASSUME NEW scores_, IsSequence(scores_)
  PROVE  ScoredWell([violations |-> <<>>, scores |-> scores_])
<1> DEFINE s == [violations |-> <<>>, scores |-> scores_]
<1>1. s.violations = <<>> /\ s.scores = scores_
  BY Zenon
<1> HIDE DEF s
<1>2. {i \in DOMAIN s.scores : IsUnder(s.violations, "min_score", s.scores[i])} = {}
  BY <1>1, EmptySequence, Zenon DEF IsUnder
<1>3. {i \in DOMAIN s.violations : s.violations[i].rule[1] = "min_score"} = {}
  <2>1. DOMAIN <<>> = {}
    OBVIOUS
  <2> QED BY <1>1, <2>1, Zenon
<1> QED BY <1>1, <1>2, <1>3, EmptySequence, Zenon DEF ScoredWell, Under, s

\* one that rejects the refused packages for their hash and the low ones for their
\* score,
LEMMA RejectedWell ==
  ASSUME NEW n \in Nat, NEW names, DOMAIN names = 1..n, \A i \in 1..n : names[i] \in Name,
         NEW refused, NEW low, NEW scored, low \subseteq scored, NEW s,
         s = [violations |-> Each(names, refused, HashRequired) \o Each(names, low, TooLow),
              scores     |-> Each(names, scored, Package)]
  PROVE  ScoredWell(s)
<1> DEFINE h == [i \in 1..n |-> HashRequired(names[i])]
           t == [i \in 1..n |-> TooLow(names[i])]
           p == [i \in 1..n |-> Package(names[i])]
           sa == [i \in 1..n |-> If(names[i] \in refused, h[i])]
           sb == [i \in 1..n |-> If(names[i] \in low, t[i])]
           sc == [i \in 1..n |-> If(names[i] \in scored, p[i])]
           a == FlattenSeq(sa)
           b == FlattenSeq(sb)
           c == FlattenSeq(sc)
<1>1. /\ Each(names, refused, HashRequired) = a
      /\ Each(names, low, TooLow) = b
      /\ Each(names, scored, Package) = c
  <2>1. /\ [i \in 1..n |-> If(names[i] \in refused, HashRequired(names[i]))] = sa
        /\ [i \in 1..n |-> If(names[i] \in low, TooLow(names[i]))] = sb
        /\ [i \in 1..n |-> If(names[i] \in scored, Package(names[i]))] = sc
    BY Zenon
  <2> HIDE DEF h, t, p, sa, sb, sc
  <2> QED BY <2>1, Zenon DEF Each
<1>b. /\ Picks(sa, n, names, refused, h)
      /\ Picks(sb, n, names, low, t)
      /\ Picks(sc, n, names, scored, p)
  <2> HIDE DEF h, t, p
  <2> QED BY Zenon DEF Picks
<1>2. ASSUME NEW i \in 1..n
      PROVE  /\ h[i].pkg = Package(names[i]) /\ t[i].pkg = Package(names[i])
             /\ p[i] = Package(names[i]) /\ Located(Package(names[i]))
             /\ h[i].rule[1] = "require_hash" /\ t[i].rule[1] = "min_score"
             /\ h[i].reason = "hash_required" /\ t[i].reason = "trust_score"
  <2>1. /\ h[i].pkg = Package(names[i]) /\ h[i].rule = <<"require_hash", "true">>
        /\ h[i].reason = "hash_required"
        /\ t[i].pkg = Package(names[i]) /\ t[i].rule = <<"min_score", 50>>
        /\ t[i].reason = "trust_score" /\ p[i] = Package(names[i])
    BY Zenon DEF HashRequired, TooLow, Violation
  <2>2. <<"require_hash", "true">>[1] = "require_hash" /\ <<"min_score", 50>>[1] = "min_score"
    OBVIOUS
  <2> HIDE DEF h, t, p
  <2>3. Located(Package(names[i]))
    BY PackageLocated, Zenon
  <2> QED BY <2>1, <2>2, <2>3, Zenon
<1> HIDE DEF h, t, p, sa, sb, sc
<1>c. /\ IsSequence(a)
      /\ \A e : e \in ToSet(a) <=> \E i \in 1..n : names[i] \in refused /\ e = h[i]
  <2>1. Chosen(a, n, names, refused, h)
    BY <1>b, ChosenAre, Zenon
  <2> HIDE DEF a
  <2> QED BY <2>1, Zenon DEF Chosen
<1>d. /\ IsSequence(b)
      /\ \A e : e \in ToSet(b) <=> \E i \in 1..n : names[i] \in low /\ e = t[i]
      /\ \A V : CountIn(b, V) = Cardinality({i \in 1..n : names[i] \in low /\ t[i] \in V})
  <2>1. Chosen(b, n, names, low, t)
    BY <1>b, ChosenAre, Zenon
  <2> HIDE DEF b
  <2> QED BY <2>1, Zenon DEF Chosen
<1>e. /\ IsSequence(c)
      /\ \A e : e \in ToSet(c) <=> \E i \in 1..n : names[i] \in scored /\ e = p[i]
      /\ \A V : CountIn(c, V) = Cardinality({i \in 1..n : names[i] \in scored /\ p[i] \in V})
  <2>1. Chosen(c, n, names, scored, p)
    BY <1>b, ChosenAre, Zenon
  <2> HIDE DEF c
  <2> QED BY <2>1, Zenon DEF Chosen
<1> HIDE DEF a, b, c
<1>3. s.violations = a \o b /\ s.scores = c
  BY <1>1, Zenon
<1>4. /\ IsSequence(a) /\ \A e : e \in ToSet(a) <=> \E i \in 1..n : names[i] \in refused /\ e = h[i]
      /\ IsSequence(b) /\ \A e : e \in ToSet(b) <=> \E i \in 1..n : names[i] \in low /\ e = t[i]
      /\ IsSequence(c)
  BY <1>c, <1>d, <1>e, Zenon
<1>5. IsSequence(a \o b) /\ ToSet(a \o b) = ToSet(a) \cup ToSet(b)
  BY <1>4, ConcatSequence, Zenon
<1>6. \A v \in ToSet(a) : /\ Located(v.pkg) /\ v.rule[1] = "require_hash"
                          /\ v.reason = "hash_required"
  <2> TAKE v \in ToSet(a)
  <2>1. PICK i \in 1..n : v = h[i]
    BY <1>c, Zenon
  <2> QED BY <1>2, <2>1, Zenon
<1>7. \A v \in ToSet(b) : /\ Located(v.pkg) /\ v.rule[1] = "min_score"
                          /\ v.reason = "trust_score"
  <2> TAKE v \in ToSet(b)
  <2>1. PICK i \in 1..n : v = t[i]
    BY <1>d, Zenon
  <2> QED BY <1>2, <2>1, Zenon
<1>0. "require_hash" # "min_score"
  OBVIOUS
<1> DEFINE T == {v \in ToSet(a \o b) : v.rule[1] = "min_score"}
           U == {pkg \in ToSet(c) : IsUnder(a \o b, "min_score", pkg)}
<1>8. \A i \in 1..n : names[i] \in low => t[i] \in T
  BY <1>2, <1>4, <1>5, Zenon
<1>9. /\ \A e \in ToSet(a) : e \notin T
      /\ \A i \in 1..n : p[i] \in U => names[i] \in low
  <2>1. \A e \in ToSet(a) : e \notin T
    BY <1>0, <1>6, Zenon
  <2>2. ASSUME NEW i \in 1..n, p[i] \in U PROVE names[i] \in low
    <3>1. PICK v \in ToSet(a \o b) : v.pkg = Package(names[i]) /\ v.rule[1] = "min_score"
      BY <1>2, <2>2, Zenon DEF IsUnder
    <3>2. v \in ToSet(b)
      BY <1>0, <1>5, <1>6, <3>1, Zenon
    <3>3. PICK j \in 1..n : names[j] \in low /\ v = t[j]
      BY <1>4, <3>2, Zenon
    <3>4. names[j] = names[i]
      <4>1. Package(names[j]) = Package(names[i])
        BY <1>2, <3>1, <3>3, Zenon
      <4>2. names[j] \in Name /\ names[i] \in Name
        BY Zenon
      <4> QED BY <4>1, <4>2, PackageInjective, Zenon
    <3> QED BY <3>3, <3>4, Zenon
  <2> QED BY <2>1, <2>2, Zenon
<1>10. \A i \in 1..n : names[i] \in low => p[i] \in U
  <2> SUFFICES ASSUME NEW i \in 1..n, names[i] \in low PROVE p[i] \in U
    BY Zenon
  <2>1. t[i] \in ToSet(a \o b)
    BY <1>4, <1>5, Zenon
  <2>2. IsUnder(a \o b, "min_score", p[i])
    BY <1>2, <2>1, Zenon DEF IsUnder
  <2>3. p[i] \in ToSet(c)
    <3>1. names[i] \in scored
      BY Zenon
    <3> QED BY <1>e, <3>1, Zenon
  <2> QED BY <2>2, <2>3, Zenon
<1> HIDE DEF T, U
<1>11. Under(a \o b, "min_score") = Cardinality({i \in 1..n : names[i] \in low})
  <2>1. Under(a \o b, "min_score") = CountIn(a \o b, T)
    BY UnderCounts, Zenon DEF T
  <2>2. CountIn(a \o b, T) = CountIn(a, T) + CountIn(b, T)
    BY <1>4, CountConcat, Zenon
  <2>3. CountIn(a, T) = 0 /\ CountIn(b, T) \in Nat
    BY <1>4, <1>9, CountNone, CountIs, Zenon
  <2>4. CountIn(b, T) = Cardinality({i \in 1..n : names[i] \in low /\ t[i] \in T})
    BY <1>d, Zenon
  <2>5. {i \in 1..n : names[i] \in low /\ t[i] \in T} = {i \in 1..n : names[i] \in low}
    BY <1>8, Zenon
  <2>6. 0 + CountIn(b, T) = CountIn(b, T)
    BY <2>3
  <2> QED BY <2>1, <2>2, <2>3, <2>4, <2>5, <2>6, Zenon
<1>12. Cardinality({i \in DOMAIN c : IsUnder(a \o b, "min_score", c[i])})
         = Cardinality({i \in 1..n : names[i] \in low})
  <2>1. {i \in DOMAIN c : IsUnder(a \o b, "min_score", c[i])} = {i \in DOMAIN c : c[i] \in U}
    BY Zenon DEF U, ToSet
  <2>2. CountIn(c, U) = Cardinality({i \in 1..n : names[i] \in scored /\ p[i] \in U})
    BY <1>e, Zenon
  <2>3. {i \in 1..n : names[i] \in scored /\ p[i] \in U} = {i \in 1..n : names[i] \in low}
    BY <1>9, <1>10, Zenon
  <2> QED BY <2>1, <2>2, <2>3, Zenon DEF CountIn
<1> QED BY <1>3, <1>4, <1>5, <1>6, <1>7, <1>11, <1>12, Zenon DEF ScoredWell

\* and every one that the scorer may give.
LEMMA ScoringsAre ==
  ASSUME NEW n \in Nat, NEW names, DOMAIN names = 1..n, \A i \in 1..n : names[i] \in Name,
         NEW given, NEW bare, NEW s \in Scorings(names, given, bare) \cup {NoScoring}
  PROVE  ScoredWell(s)
<1> DEFINE refused == IF requireHash THEN given \cap bare ELSE {}
           scored == IF pol.minScore THEN given \ refused ELSE {}
           Scoring(vs) == [violations |-> vs, scores |-> Each(names, scored, Package)]
           Rejects(low) == Scoring(Each(names, refused, HashRequired) \o Each(names, low, TooLow))
<1>1. \/ s = NoScoring
      \/ s = Scoring(<<>>)
      \/ \E low \in SUBSET scored : s = Rejects(low)
  BY Zenon DEF Scorings
<1>2. CASE s = NoScoring
  BY <1>2, ScoresAlone, EmptySequence, Zenon DEF NoScoring
<1>3. CASE s = Scoring(<<>>)
  <2> DEFINE p == [i \in 1..n |-> Package(names[i])]
             sc == [i \in 1..n |-> If(names[i] \in scored, p[i])]
  <2> HIDE DEF scored
  <2>1. Each(names, scored, Package) = FlattenSeq(sc)
    <3>1. [i \in 1..n |-> If(names[i] \in scored, Package(names[i]))] = sc
      BY Zenon
    <3> HIDE DEF p, sc
    <3> QED BY <3>1, Zenon DEF Each
  <2> HIDE DEF p
  <2>3. Picks(sc, n, names, scored, p)
    BY Zenon DEF Picks
  <2> HIDE DEF sc
  <2>2. IsSequence(Each(names, scored, Package))
    BY <2>1, <2>3, ChosenAre, Zenon DEF Chosen
  <2> QED BY <1>3, <2>2, ScoresAlone, Zenon
<1>4. ASSUME NEW low \in SUBSET scored, s = Rejects(low) PROVE ScoredWell(s)
  <2> HIDE DEF refused, scored
  <2>1. low \subseteq scored
    BY Zenon
  <2> QED BY <1>4, <2>1, RejectedWell, Zenon
<1> QED BY <1>1, <1>2, <1>3, <1>4, Zenon

LEMMA TreeScoringsAre ==
  ASSUME NEW outcomes, NEW made, NEW s \in TreeScorings(outcomes, made)
  PROVE  ScoredWell(s)
<1>1. /\ DOMAIN Packages = 1..Len(Packages) /\ Len(Packages) \in Nat
      /\ \A i \in 1..Len(Packages) : Packages[i] \in Name
  BY TreeAssumption, ElementOfSeq
<1>2. PICK given, bare : s \in Scorings(Packages, given, bare)
  BY Zenon DEF TreeScorings
<1>3. s \in Scorings(Packages, given, bare) \cup {NoScoring}
  BY <1>2, Zenon
<1> QED BY <1>1, <1>3, ScoringsAre, Zenon

\* What audit adds for the artifact: nothing, its match, or its mismatch.
Compared(path, es, vs) ==
  \/ es = <<>> /\ vs = <<>>
  \/ \E m \in BOOLEAN :
       /\ es = <<Event("binary_verify", Base(path), IF m THEN "verified" ELSE "mismatch",
                       "", m)>>
       /\ vs = If(~m, Violation(Base(path), "hash_mismatch", <<"binary_verify">>))

\* It is counted as mismatched when there is a violation, and under no other heading.
LEMMA ComparedCounts ==
  ASSUME NEW path \in Paths, NEW es, NEW vs, Compared(path, es, vs)
  PROVE  /\ IsSequence(es) /\ ToSet(es) \subseteq AuditEvent /\ IsSequence(vs)
         /\ \A v \in ToSet(vs) : v.pkg = Base(path) /\ v.rule[1] = "binary_verify"
         /\ CountIn(es, Verifying) = 0 /\ CountIn(es, Missed) = 0 /\ CountIn(es, Hashed) = 0
         /\ CountIn(es, Mismatching) = Len(vs)
<1>1. CASE es = <<>> /\ vs = <<>>
  <2>1. Len(<<>>) = 0
    OBVIOUS
  <2> QED BY <1>1, <2>1, EmptySequence, CountIs, Zenon
<1>2. ASSUME NEW m \in BOOLEAN,
             es = <<Event("binary_verify", Base(path), IF m THEN "verified" ELSE "mismatch",
                          "", m)>>,
             vs = If(~m, Violation(Base(path), "hash_mismatch", <<"binary_verify">>))
      PROVE  /\ IsSequence(es) /\ ToSet(es) \subseteq AuditEvent /\ IsSequence(vs)
             /\ \A v \in ToSet(vs) : v.pkg = Base(path) /\ v.rule[1] = "binary_verify"
             /\ CountIn(es, Verifying) = 0 /\ CountIn(es, Missed) = 0 /\ CountIn(es, Hashed) = 0
             /\ CountIn(es, Mismatching) = Len(vs)
  <2> DEFINE e == Event("binary_verify", Base(path), IF m THEN "verified" ELSE "mismatch", "", m)
             w == Violation(Base(path), "hash_mismatch", <<"binary_verify">>)
  <2>1. /\ e.event = "binary_verify" /\ e.match = m
        /\ m => e.status = "verified"
        /\ ~m => e.status = "mismatch"
    BY Zenon DEF Event
  <2>2. e \in AuditEvent
    <3>1. Base(path) \in Name
      BY PathsAssumption, Zenon DEF Base
    <3>2. "binary_verify" \in EventName /\ "" \in EventReason
      BY DEF EventName, EventReason
    <3>3. (IF m THEN "verified" ELSE "mismatch") \in EventStatus
      BY DEF EventStatus
    <3> QED BY <3>1, <3>2, <3>3, EventIn, Zenon
  <2>3. w.pkg = Base(path) /\ w.rule[1] = "binary_verify"
    <3>1. w.pkg = Base(path) /\ w.rule = <<"binary_verify">>
      BY Zenon DEF Violation
    <3> QED BY <3>1, SingleSequence, Zenon
  <2>4. es = <<e>> /\ vs = If(~m, w)
    BY <1>2, Zenon
  <2> HIDE DEF e, w
  <2>5. IsSequence(<<e>>) /\ ToSet(<<e>>) = {e}
    BY SingleSequence, Zenon
  <2>6. e \notin Verifying /\ e \notin Hashed /\ e \notin Missed
    <3>1. ~Verifies(e) /\ ~IsHash(e)
      BY <2>1 DEF Verifies, IsHash
    <3>2. e.status # "missing"
      BY <2>1
    <3> QED BY <3>1, <3>2, Zenon DEF Verifying, Hashed, Missed
  <2>7. e \in Mismatching <=> ~m
    <3>1. ~Verifies(e) /\ (e.status = "mismatch" <=> ~m)
      BY <2>1 DEF Verifies
    <3> QED BY <2>2, <3>1, Zenon DEF Mismatching
  <2>8. /\ IsSequence(If(~m, w))
        /\ \A v \in ToSet(If(~m, w)) : v.pkg = Base(path) /\ v.rule[1] = "binary_verify"
    <3>1. /\ IsSequence(If(~m, w)) /\ \A v : v \in ToSet(If(~m, w)) <=> ~m /\ v = w
      BY IfSequence, Zenon
    <3> QED BY <2>3, <3>1, Zenon
  <2>9. CountIn(<<e>>, Mismatching) = Len(If(~m, w))
    <3>1. CASE m
      <4>1. If(~m, w) = <<>> /\ Len(<<>>) = 0
        <5>1. Len(<<>>) = 0
          OBVIOUS
        <5> QED BY <3>1, <5>1, Zenon DEF If
      <4>2. CountIn(<<e>>, Mismatching) = 0
        BY <2>7, <3>1, CountIs, Zenon
      <4> QED BY <4>1, <4>2, Zenon
    <3>2. CASE ~m
      <4>1. If(~m, w) = <<w>> /\ Len(<<w>>) = 1
        <5>1. Len(<<w>>) = 1
          BY SingleSequence, Zenon
        <5> QED BY <3>2, <5>1, Zenon DEF If
      <4>2. CountIn(<<e>>, Mismatching) = 1
        BY <2>7, <3>2, CountIs, Zenon
      <4> QED BY <4>1, <4>2, Zenon
    <3> QED BY <3>1, <3>2, Zenon
  <2>10. CountIn(<<e>>, Verifying) = 0 /\ CountIn(<<e>>, Missed) = 0 /\ CountIn(<<e>>, Hashed) = 0
    BY <2>6, CountIs, Zenon
  <2>11. ToSet(<<e>>) \subseteq AuditEvent
    BY <2>2, <2>5, Zenon
  <2> QED BY <2>4, <2>5, <2>8, <2>9, <2>10, <2>11, Zenon
<1> QED BY <1>1, <1>2, Zenon DEF Compared

\* The counts of a report are those of its headings.
LEMMA HeadingsAre ==
  ASSUME NEW es, IsSequence(es), ToSet(es) \subseteq AuditEvent
  PROVE  /\ countHashEvents(es).verified = CountIn(es, Verifying)
         /\ countHashEvents(es).mismatched = CountIn(es, Mismatching)
         /\ countHashEvents(es).missing = CountIn(es, Missed)
         /\ Len(HashDetails(es)) = CountIn(es, Hashed)
         /\ AuditFromEvents(es).mismatched = CountIn(es, Differing)
         /\ AuditFromEvents(es).missing = CountIn(es, Gone)
<1>0. /\ DOMAIN es = 1..Len(es) /\ Len(es) \in Nat
      /\ \A i \in DOMAIN es : es[i] \in AuditEvent
  <2>1. DOMAIN es = 1..Len(es) /\ Len(es) \in Nat
    BY DEF IsSequence
  <2> QED BY <2>1, Zenon DEF ToSet
<1>1. countHashEvents(es).verified = CountIn(es, Verifying)
  <2>1. {i \in DOMAIN es : Verifies(es[i])} = {i \in DOMAIN es : es[i] \in Verifying}
    BY <1>0, Zenon DEF Verifying
  <2> QED BY <2>1, Zenon DEF countHashEvents, Count, CountIn
<1>2. countHashEvents(es).mismatched = CountIn(es, Mismatching)
  <2>1. {i \in DOMAIN es : ~Verifies(es[i]) /\ es[i].status = "mismatch"}
          = {i \in DOMAIN es : es[i] \in Mismatching}
    BY <1>0, Zenon DEF Mismatching
  <2> QED BY <2>1, Zenon DEF countHashEvents, Count, CountIn
<1>3. countHashEvents(es).missing = CountIn(es, Missed)
  <2>1. {i \in DOMAIN es : ~Verifies(es[i]) /\ es[i].status = "missing"}
          = {i \in DOMAIN es : es[i] \in Missed}
    BY <1>0, Zenon DEF Missed
  <2> QED BY <2>1, Zenon DEF countHashEvents, Count, CountIn
<1>4. Len(HashDetails(es)) = CountIn(es, Hashed)
  <2> DEFINE n == Len(es)
             s == [i \in 1..n |->
                     If(es[i].event \in {"hash_check", "hash_verified", "hash_missing"},
                        HashRow(es[i]))]
  <2>1. HashDetails(es) = FlattenSeq(s)
    BY <1>0, Zenon DEF HashDetails
  <2>2. s = [i \in 1..n |-> s[i]]
    BY Zenon
  <2>3. ASSUME NEW i \in 1..n
        PROVE  /\ IsHash(es[i]) => s[i] = <<HashRow(es[i])>>
               /\ ~IsHash(es[i]) => s[i] = <<>>
    BY Zenon DEF If, IsHash
  <2> HIDE DEF s, n
  <2>4. ASSUME NEW i \in 1..n
        PROVE  /\ IsSequence(s[i]) /\ (s[i] = <<>> \/ \E e : s[i] = <<e>>)
               /\ s[i] # <<>> <=> IsHash(es[i])
               /\ s[i] # <<>> => s[i][1] \in ToSet(s[i])
    <3>1. CASE IsHash(es[i])
      <4>1. s[i] = <<HashRow(es[i])>>
        BY <2>3, <3>1, Zenon
      <4> DEFINE r == HashRow(es[i])
      <4> HIDE DEF r
      <4>2. s[i] = <<r>>
        BY <4>1, Zenon DEF r
      <4>3. IsSequence(s[i]) /\ s[i] # <<>> /\ s[i][1] \in ToSet(s[i])
        BY <4>2, SingleSequence
      <4> QED BY <3>1, <4>2, <4>3, Zenon
    <3>2. CASE ~IsHash(es[i])
      BY <2>3, <3>2, EmptySequence, Zenon
    <3> QED BY <3>1, <3>2, Zenon
  <2>5. /\ IsSequence(FlattenSeq(s))
        /\ \A e : e \in ToSet(FlattenSeq(s)) <=> \E i \in 1..n : e \in ToSet(s[i])
    <3>1. n \in Nat /\ \A i \in 1..n : IsSequence(s[i])
      BY <1>0, <2>4, Zenon DEF n
    <3> QED BY <2>2, <3>1, FlattenSequence, Zenon
  <2> DEFINE T == ToSet(FlattenSeq(s))
  <2>6. Len(FlattenSeq(s)) = CountIn(FlattenSeq(s), T)
    BY <2>5, CountAll, Zenon
  <2>7. \A i \in 1..n : (s[i] # <<>> /\ s[i][1] \in T) <=> IsHash(es[i])
    BY <2>4, <2>5, Zenon
  <2> HIDE DEF T
  <2>8. CountIn(FlattenSeq(s), T) = Cardinality({i \in 1..n : s[i] # <<>> /\ s[i][1] \in T})
    <3>1. n \in Nat /\ \A i \in 1..n : s[i] = <<>> \/ \E e : s[i] = <<e>>
      BY <1>0, <2>4, Zenon DEF n
    <3> QED BY <2>2, <3>1, CountFlatten
  <2>9. {i \in 1..n : s[i] # <<>> /\ s[i][1] \in T} = {i \in DOMAIN es : es[i] \in Hashed}
    <3>1. \A i \in 1..n : IsHash(es[i]) <=> es[i] \in Hashed
      BY <1>0, Zenon DEF Hashed, n
    <3> QED BY <1>0, <2>7, <3>1, Zenon DEF n
  <2> QED BY <2>1, <2>6, <2>8, <2>9, Zenon DEF CountIn
<1>5. AuditFromEvents(es).mismatched = CountIn(es, Differing)
  <2>1. {i \in DOMAIN es : ~es[i].match /\ ~SaysMissing(es[i])}
          = {i \in DOMAIN es : es[i] \in Differing}
    BY <1>0, Zenon DEF Differing
  <2> QED BY <2>1, Zenon DEF AuditFromEvents, Count, CountIn
<1>6. AuditFromEvents(es).missing = CountIn(es, Gone)
  <2>1. {i \in DOMAIN es : ~es[i].match /\ SaysMissing(es[i])}
          = {i \in DOMAIN es : es[i] \in Gone}
    BY <1>0, Zenon DEF Gone
  <2> QED BY <2>1, Zenon DEF AuditFromEvents, Count, CountIn
<1> QED BY <1>1, <1>2, <1>3, <1>4, <1>5, <1>6, Zenon

\* What the JSON report says of the tree.
JsonOf(r, outcomes) ==
  /\ r.audit.mismatched >= Number(outcomes, {"differs"})
  /\ r.audit.missing = Number(outcomes, {"noEntry", "notInstalled"})
  /\ r.passed => Number(outcomes, {"match", "neither"}) = Len(outcomes)

\* It says this of the lockfile check of scalp ci.
LEMMA JsonTells ==
  ASSUME NEW sync \in [DOMAIN Packages -> SyncOutcome],
         NEW outcomes \in [DOMAIN Packages -> Outcome],
         NEW signed \in BOOLEAN, NEW vs, NEW r,
         r = RenderReport(TreeViolations(signed, outcomes) = <<>>, vs,
                          TreeEvents(sync) \o TreeEvents(outcomes))
  PROVE  JsonOf(r, outcomes)
<1> DEFINE a == TreeEvents(sync)
           b == TreeEvents(outcomes)
<1>1. r.audit = AuditFromEvents(a \o b) /\ r.passed = (TreeViolations(signed, outcomes) = <<>>)
  BY Zenon DEF RenderReport
<1>2. /\ IsSequence(a) /\ ToSet(a) \subseteq AuditEvent
      /\ IsSequence(b) /\ ToSet(b) \subseteq AuditEvent
  BY TreeEventsElements, Zenon
<1>3. CountIn(b, Differing) = Number(outcomes, {"differs"})
        /\ CountIn(b, Gone) = Number(outcomes, {"noEntry", "notInstalled"})
  BY TreeCounts, Zenon
<1>4. CountIn(a, Gone) = 0
  BY SyncCounts, Zenon
<1> HIDE DEF a, b
<1>5. IsSequence(a \o b) /\ ToSet(a \o b) \subseteq AuditEvent
  BY <1>2, ConcatSequence, Zenon
<1>6. /\ CountIn(a \o b, Differing) = CountIn(a, Differing) + CountIn(b, Differing)
      /\ CountIn(a \o b, Gone) = CountIn(a, Gone) + CountIn(b, Gone)
  BY <1>2, CountConcat
<1>7. CountIn(a, Differing) \in Nat /\ CountIn(b, Differing) \in Nat /\ CountIn(b, Gone) \in Nat
  BY <1>2, CountIs, Zenon
<1>8. r.audit.mismatched = CountIn(a \o b, Differing) /\ r.audit.missing = CountIn(a \o b, Gone)
  BY <1>1, <1>5, HeadingsAre, Zenon
<1>9. r.passed => Number(outcomes, {"match", "neither"}) = Len(outcomes)
  BY <1>1, TreeFaultsAre, Zenon
<1> QED BY <1>3, <1>4, <1>6, <1>7, <1>8, <1>9 DEF JsonOf

\* The violations of an audit under the rule of the score are the scorer's, those
\* under the rule of the artifact the artifact's.
LEMMA UnderIs ==
  ASSUME NEW a, IsSequence(a), NEW b, IsSequence(b), NEW c, IsSequence(c),
         \A v \in ToSet(a) : v.rule[1] \in {"lockfile", "lockfile_signature"},
         \A v \in ToSet(b) : v.rule[1] \in {"min_score", "require_hash"},
         \A v \in ToSet(c) : v.rule[1] = "binary_verify"
  PROVE  /\ Under(a \o b \o c, "min_score") = Under(b, "min_score")
         /\ Under(a \o b \o c, "binary_verify") = Len(c)
<1>1. /\ IsSequence(a \o b) /\ IsSequence(a \o b \o c)
      /\ ToSet(a \o b \o c) = ToSet(a) \cup ToSet(b) \cup ToSet(c)
  BY ConcatSequence
<1> DEFINE vs == a \o b \o c
           T(rule) == {v \in ToSet(vs) : v.rule[1] = rule}
<1>2. ASSUME NEW rule
      PROVE  /\ Under(vs, rule) = CountIn(vs, T(rule))
             /\ CountIn(vs, T(rule))
                  = (CountIn(a, T(rule)) + CountIn(b, T(rule))) + CountIn(c, T(rule))
  <2>1. {i \in DOMAIN vs : vs[i].rule[1] = rule} = {i \in DOMAIN vs : vs[i] \in T(rule)}
    BY Zenon DEF ToSet
  <2>2. Under(vs, rule) = CountIn(vs, T(rule))
    BY <2>1, Zenon DEF Under, CountIn
  <2> DEFINE R == T(rule)
  <2> HIDE DEF R
  <2>3. CountIn(a \o b \o c, R) = CountIn(a \o b, R) + CountIn(c, R)
    BY <1>1, CountConcat, SMTT(30)
  <2>4. CountIn(a \o b, R) = CountIn(a, R) + CountIn(b, R)
    BY CountConcat, SMTT(30)
  <2> QED BY <2>2, <2>3, <2>4, Zenon DEF R
<1>3. /\ \A v \in ToSet(a) : v \notin T("min_score") /\ v \notin T("binary_verify")
      /\ \A v \in ToSet(b) : /\ v \notin T("binary_verify")
                             /\ v \in T("min_score") <=> v.rule[1] = "min_score"
      /\ \A v \in ToSet(c) : v \notin T("min_score") /\ v \in T("binary_verify")
  <2>1. /\ "lockfile" # "min_score" /\ "lockfile" # "binary_verify"
        /\ "lockfile_signature" # "min_score" /\ "lockfile_signature" # "binary_verify"
        /\ "min_score" # "binary_verify" /\ "require_hash" # "binary_verify"
    OBVIOUS
  <2>2. /\ \A v : v.rule[1] \in {"lockfile", "lockfile_signature"} =>
                 v.rule[1] # "min_score" /\ v.rule[1] # "binary_verify"
        /\ \A v : v.rule[1] \in {"min_score", "require_hash"} => v.rule[1] # "binary_verify"
    BY <2>1, Zenon
  <2> QED BY <1>1, <2>1, <2>2, Zenon
<1> DEFINE M == T("min_score")
           B == T("binary_verify")
<1>4. /\ CountIn(a, M) = 0 /\ CountIn(b, M) = Under(b, "min_score") /\ CountIn(c, M) = 0
      /\ CountIn(a, B) = 0 /\ CountIn(b, B) = 0 /\ CountIn(c, B) = Len(c)
  <2>1. /\ \A v \in ToSet(a) : v \notin M /\ v \notin B
        /\ \A v \in ToSet(b) : v \notin B /\ (v \in M <=> v.rule[1] = "min_score")
        /\ \A v \in ToSet(c) : v \notin M /\ v \in B
    BY <1>3, Zenon
  <2>2. {i \in DOMAIN b : b[i].rule[1] = "min_score"} = {i \in DOMAIN b : b[i] \in M}
    <3> HIDE DEF M, B, T
    <3> QED BY <2>1, Zenon DEF ToSet
  <2> HIDE DEF M, B
  <2>3. CountIn(b, M) = Under(b, "min_score")
    BY <2>2, Zenon DEF Under, CountIn
  <2> QED BY <2>1, <2>3, CountNone, CountEvery, Zenon
<1>5. /\ Under(vs, "min_score") = (CountIn(a, M) + CountIn(b, M)) + CountIn(c, M)
      /\ Under(vs, "binary_verify") = (CountIn(a, B) + CountIn(b, B)) + CountIn(c, B)
  BY <1>2, Zenon
<1> HIDE DEF M, B, T
<1>6. CountIn(b, M) \in Nat /\ Len(c) \in Nat
  <2>1. CountIn(b, M) \in Nat
    BY CountIs, Zenon
  <2>2. Len(c) \in Nat
    BY LenProperties, Zenon DEF IsSequence
  <2> QED BY <2>1, <2>2
<1> QED BY <1>4, <1>5, <1>6

\* What the Markdown report says of the tree and of violations.
MarkdownOf(m, outcomes, vs) ==
  /\ m.summary.verified = Number(outcomes, {"match"})
  /\ m.summary.mismatched = Number(outcomes, {"differs"}) + Under(vs, "binary_verify")
  /\ m.summary.missing = Number(outcomes, {"notInstalled"})
  /\ Len(m.hashes) = Number(outcomes, Outcome \ {"neither"})
  /\ m.violations = vs
  /\ m.failed <=> vs # <<>>
  /\ m.trust = Cardinality({i \in DOMAIN m.scores : m.scores[i].verdict = "fail"})

\* It says this of an audit: of the tree, of the artifact and of
\* the scores.
LEMMA MarkdownTells ==
  ASSUME NEW outcomes \in [DOMAIN Packages -> Outcome], NEW signed \in BOOLEAN,
         NEW s, ScoredWell(s), NEW path \in Paths, NEW des, NEW dvs,
         Compared(path, des, dvs),
         NEW vs, vs = TreeViolations(signed, outcomes) \o s.violations \o dvs,
         NEW m, m = RenderAuditMarkdown(vs, TreeEvents(outcomes) \o des, s.scores)
  PROVE  MarkdownOf(m, outcomes, vs)
<1> DEFINE a == TreeViolations(signed, outcomes)
           t == TreeEvents(outcomes)
           scored == s.violations
           names == s.scores
           score(i) == [pkg |-> names[i], verdict |-> Verdict(names[i], vs)]
<1>1. /\ m.failed = (vs # <<>>) /\ m.violations = vs
      /\ m.summary = countHashEvents(t \o des)
      /\ m.hashes = HashDetails(t \o des)
      /\ m.trust = Under(vs, "min_score")
      /\ m.scores = [i \in DOMAIN names |-> score(i)]
  BY Zenon DEF RenderAuditMarkdown, Count, Under
<1>2. IsSequence(t) /\ ToSet(t) \subseteq AuditEvent
  BY TreeEventsElements, Zenon
<1>3. /\ IsSequence(a)
      /\ \A v \in ToSet(a) : v.rule[1] \in {"lockfile", "lockfile_signature"}
  BY TreeFaultsAre, Zenon
<1>4. /\ IsSequence(scored) /\ IsSequence(names)
      /\ \A v \in ToSet(scored) : v.rule[1] \in {"min_score", "require_hash"}
      /\ Under(scored, "min_score")
           = Cardinality({i \in DOMAIN names : IsUnder(scored, "min_score", names[i])})
  BY Zenon DEF ScoredWell
<1> HIDE DEF scored, names
<1>5. /\ IsSequence(des) /\ ToSet(des) \subseteq AuditEvent /\ IsSequence(dvs)
      /\ \A v \in ToSet(dvs) : v.rule[1] = "binary_verify"
      /\ CountIn(des, Verifying) = 0 /\ CountIn(des, Missed) = 0 /\ CountIn(des, Hashed) = 0
      /\ CountIn(des, Mismatching) = Len(dvs)
  BY ComparedCounts, Zenon
<1>6. /\ CountIn(t, Verifying) = Number(outcomes, {"match"})
      /\ CountIn(t, Mismatching) = Number(outcomes, {"differs"})
      /\ CountIn(t, Missed) = Number(outcomes, {"notInstalled"})
      /\ CountIn(t, Hashed) = Number(outcomes, Outcome \ {"neither"})
  BY TreeCounts, Zenon
<1>7. /\ Under(vs, "min_score") = Under(scored, "min_score")
      /\ Under(vs, "binary_verify") = Len(dvs)
      /\ ToSet(vs) = ToSet(a) \cup ToSet(scored) \cup ToSet(dvs)
  <2> HIDE DEF a
  <2>0. vs = a \o scored \o dvs
    BY Zenon DEF a, scored
  <2>3. /\ IsSequence(a) /\ IsSequence(scored) /\ IsSequence(dvs)
        /\ \A v \in ToSet(a) : v.rule[1] \in {"lockfile", "lockfile_signature"}
        /\ \A v \in ToSet(scored) : v.rule[1] \in {"min_score", "require_hash"}
        /\ \A v \in ToSet(dvs) : v.rule[1] = "binary_verify"
    BY <1>3, <1>4, <1>5, Zenon
  <2>1. /\ Under(a \o scored \o dvs, "min_score") = Under(scored, "min_score")
        /\ Under(a \o scored \o dvs, "binary_verify") = Len(dvs)
    BY <2>3, UnderIs, ZenonT(60)
  <2>2. ToSet(a \o scored \o dvs) = ToSet(a) \cup ToSet(scored) \cup ToSet(dvs)
    BY <1>3, <1>4, <1>5, ConcatSequence
  <2> QED BY <2>0, <2>1, <2>2, Zenon
<1>8. /\ m.summary.verified = Number(outcomes, {"match"})
      /\ m.summary.mismatched = Number(outcomes, {"differs"}) + Under(vs, "binary_verify")
      /\ m.summary.missing = Number(outcomes, {"notInstalled"})
      /\ Len(m.hashes) = Number(outcomes, Outcome \ {"neither"})
  <2> HIDE DEF t
  <2>1. IsSequence(t \o des) /\ ToSet(t \o des) \subseteq AuditEvent
    BY <1>2, <1>5, ConcatSequence, Zenon
  <2> DEFINE es == t \o des
  <2>2. /\ CountIn(es, Verifying) = CountIn(t, Verifying) + CountIn(des, Verifying)
        /\ CountIn(es, Mismatching) = CountIn(t, Mismatching) + CountIn(des, Mismatching)
        /\ CountIn(es, Missed) = CountIn(t, Missed) + CountIn(des, Missed)
        /\ CountIn(es, Hashed) = CountIn(t, Hashed) + CountIn(des, Hashed)
    <3>1. \A T : CountIn(es, T) = CountIn(t, T) + CountIn(des, T)
      BY <1>2, <1>5, CountConcat, ZenonT(60)
    <3> QED BY <3>1, Zenon
  <2>3. CountIn(t, Verifying) \in Nat /\ CountIn(t, Missed) \in Nat /\ CountIn(t, Hashed) \in Nat
    BY <1>2, CountIs, Zenon
  <2>4. /\ countHashEvents(es).verified = CountIn(es, Verifying)
        /\ countHashEvents(es).mismatched = CountIn(es, Mismatching)
        /\ countHashEvents(es).missing = CountIn(es, Missed)
        /\ Len(HashDetails(es)) = CountIn(es, Hashed)
    BY <2>1, HeadingsAre, Zenon
  <2>5. /\ CountIn(es, Verifying) = Number(outcomes, {"match"})
        /\ CountIn(es, Missed) = Number(outcomes, {"notInstalled"})
        /\ CountIn(es, Hashed) = Number(outcomes, Outcome \ {"neither"})
    BY <1>5, <1>6, <2>2, <2>3
  <2> QED BY <1>1, <1>5, <1>6, <1>7, <2>2, <2>4, <2>5, Zenon
<1>9. Under(vs, "min_score")
        = Cardinality({i \in DOMAIN m.scores : m.scores[i].verdict = "fail"})
  <2>0. /\ DOMAIN m.scores = DOMAIN names
        /\ \A i \in DOMAIN names : m.scores[i].verdict = Verdict(names[i], vs)
    <3>1. \A i \in DOMAIN names : score(i).verdict = Verdict(names[i], vs)
      BY Zenon
    <3> HIDE DEF score
    <3> QED BY <1>1, <3>1, ZenonT(60)
  <2>1. ASSUME NEW pkg
        PROVE  Verdict(pkg, vs) = "fail" <=> IsUnder(scored, "min_score", pkg)
    <3>1. (\E j \in DOMAIN vs : vs[j].pkg = pkg /\ vs[j].rule[1] = "min_score")
            <=> \E v \in ToSet(vs) : v.pkg = pkg /\ v.rule[1] = "min_score"
      BY Zenon DEF ToSet
    <3>2. \A v \in ToSet(vs) : v.rule[1] = "min_score" => v \in ToSet(scored)
      <4>1. "lockfile" # "min_score" /\ "lockfile_signature" # "min_score"
              /\ "binary_verify" # "min_score"
        OBVIOUS
      <4> QED BY <1>3, <1>5, <1>7, <4>1, Zenon
    <3>3. (\E v \in ToSet(vs) : v.pkg = pkg /\ v.rule[1] = "min_score")
            <=> IsUnder(scored, "min_score", pkg)
      BY <1>7, <3>2, Zenon DEF IsUnder
    <3>4. Verdict(pkg, vs) = "fail"
            <=> \E j \in DOMAIN vs : vs[j].pkg = pkg /\ vs[j].rule[1] = "min_score"
      BY SMT DEF Verdict
    <3> QED BY <3>1, <3>3, <3>4, Zenon
  <2>2. {i \in DOMAIN m.scores : m.scores[i].verdict = "fail"}
          = {i \in DOMAIN names : IsUnder(scored, "min_score", names[i])}
    BY <2>0, <2>1, Zenon
  <2> QED BY <1>4, <1>7, <2>2, Zenon
<1> QED BY <1>1, <1>8, <1>9, Zenon DEF MarkdownOf

\* The violations of ci are at the packages that were evaluated.
LEMMA EvaluateLocated ==
  ASSUME NEW p, NEW ns \in Seq(Installed), NEW v \in ToSet(Evaluate(p, ns))
  PROVE  Located(v.pkg)
<1>0. DOMAIN ns = 1..Len(ns) /\ Len(ns) \in Nat
  OBVIOUS
<1>1. \A k \in 1..Len(ns) : ns[k].depth \in Nat /\ ns[k].name \in Name
  <2> TAKE k \in 1..Len(ns)
  <2>1. ns[k] \in Installed
    BY ElementOfSeq
  <2> QED BY <2>1, Zenon DEF Installed
<1> DEFINE s == [k \in 1..Len(ns) |-> NodeViolations(p, ns[k])]
<1>2. \A k \in 1..Len(ns) : /\ IsSequence(s[k])
                             /\ \A u \in ToSet(s[k]) : u.pkg = Package(ns[k].name)
  BY <1>1, NodeViolationsAre, Zenon
<1>3. Evaluate(p, ns) = <<>> \/ Evaluate(p, ns) = FlattenSeq(s)
  BY <1>0, Zenon DEF Evaluate
<1>4. s = [k \in 1..Len(ns) |-> s[k]]
  BY Zenon
<1> HIDE DEF s
<1>5. Evaluate(p, ns) = FlattenSeq(s)
  BY <1>3, EmptySequence, Zenon
<1>6. PICK k \in 1..Len(ns) : v \in ToSet(s[k])
  <2>1. \A e : e \in ToSet(FlattenSeq(s)) <=> \E k \in 1..Len(ns) : e \in ToSet(s[k])
    BY <1>0, <1>2, <1>4, FlattenSequence, Zenon
  <2> QED BY <1>5, <2>1, Zenon
<1> QED BY <1>1, <1>2, <1>6, PackageLocated, Zenon

-----------------------------------------------------------------------------
(* The invariant. *)

\* A line that checksum makes.
EntryLine == [kind : {"entry"}, hash : Contents, name : Name]

\* What the run keeps to: TypeOK, and the types of what it does not speak of.
Types ==
  /\ project \in Projects
  /\ files \in [Paths -> Contents \cup {NoFile}]
  /\ sums \in Seq(Line) \cup {NoFile}
  /\ cmd \in project.commands \/ cmd = [cmd |-> "none"]
  /\ phase \in {"idle", "load", "read", "check", "hash", "artifact", "tree", "log",
                "evaluate", "report"}
  /\ exit \in {"running", "ok", "failed"}
  /\ IsPolicy(pol)
  /\ pol = DefaultPolicy \/ (IsRead /\ pol = applyPolicyDefaults(policyFile))
  /\ lines \in Seq(EntryLine)
  /\ hashed \subseteq Paths /\ kept \subseteq Paths
  /\ piped \in Seq(Read) /\ read \in Seq(Read) /\ found \in Name
  /\ IsSequence(log) /\ IsSequence(events) /\ IsSequence(violations)
  /\ runs \in 0..project.runs /\ changes \in 0..MaxChanges /\ still \in BOOLEAN

\* Which commands come to which phase.
Phases ==
  /\ phase # "idle" => exit = "running"
  /\ is("none") => phase = "idle" /\ exit = "running"
  /\ phase = "load" => ~is("checksum")
  /\ phase = "hash" => is("checksum")
  /\ phase \in {"read", "check"} => is("stage verify")
  /\ phase \in {"artifact", "log"} => is("verify") \/ is("audit")
  /\ phase = "tree" => is("audit") \/ is("ci")
  /\ phase = "evaluate" => is("policy check") \/ is("ci")
  /\ phase = "report" => is("stage verify") \/ is("audit")
  /\ phase = "idle" /\ is("checksum") => Len(lines) <= Len(cmd.paths)
  /\ phase = "hash" => Len(lines) <= Len(cmd.paths)

\* How far a stage verify is, and what it knows there: what was hashed and what is
\* still to be read are the tarball, and the violations are those of the id and of
\* the name that was found.
Staged ==
  /\ found # <<>> => Last(read) = <<"package", found>> /\ is("stage verify")
  /\ is("stage verify") =>
       /\ read \o piped = cmd.tarball
       /\ phase \in {"load", "read"} => found = <<>>
       /\ phase \in {"check", "report"} \/ exit = "ok" =>
            read # <<>> /\ Last(read)[1] \in {"package", "end"}
       /\ phase = "report" \/ (phase = "idle" /\ (exit = "ok" \/ found # <<>>)) =>
            violations = StageViolations(cmd.id, found)
       /\ exit = "ok" /\ Enforcement = "block" => violations = <<>>

\* An event that tells how the artifact compares with the last line of its name.
Listed(e) ==
  \E i \in DOMAIN sums :
    /\ sums[i].kind = "entry" /\ sums[i].name = Base(cmd.path)
    /\ \A j \in (i + 1)..Len(sums) : sums[j].kind = "entry" => sums[j].name # Base(cmd.path)
    /\ e.match = (sums[i].hash = files[cmd.path])

\* What verify and audit log of the artifact; after a change of it, or of another,
\* the event need not tell what is there.
OfArtifact(e) ==
  /\ e.event = "binary_verify" /\ e.pkg = Base(cmd.path) /\ e.match \in BOOLEAN
  /\ still => Listed(e)

\* What verify has found is in its events until they are logged, and then in the
\* log; a mismatch is a violation.
Verified ==
  is("verify") =>
    /\ phase = "log" => /\ Len(events) = 1
                        /\ OfArtifact(events[1])
                        /\ ~events[1].match => violations # <<>>
    /\ exit = "ok" => /\ log # <<>>
                      /\ OfArtifact(Last(log))
                      /\ Enforcement = "block" => Last(log).match

\* The only event of audit about the artifact is OfArtifact, and a mismatch is one
\* of its violations.
Audited ==
  is("audit") =>
    /\ \A e \in ToSet(events) : e.event = "binary_verify" =>
         /\ phase \in {"log", "report", "idle"}
         /\ OfArtifact(e)
         /\ ~e.match => violations # <<>>
    /\ phase = "load" => events = <<>>
    /\ exit = "ok" /\ Enforcement = "block" => violations = <<>>

\* What policy check has found for each package's name.
Ruled ==
  is("policy check") =>
    /\ phase # "idle" => violations = <<>>
    /\ phase = "idle" /\ (exit = "ok" \/ violations # <<>>) =>
         \A i \in DOMAIN cmd.nodes :
           LET name == cmd.nodes[i].name
           IN  /\ Rejected(violations, name, "denylist_match") <=>
                    pol.mode = "denylist" /\ matchesAllow(pol.deny, name)
               /\ Rejected(violations, name, "not_in_allowlist") <=>
                    pol.mode = "allowlist" /\ ~matchesAllow(pol.allow, name)

\* The last line of a file that checksum has hashed has what is in the file,
HashIsLast(p) ==
  /\ files[p] # NoFile
  /\ \A i \in 1..Len(lines) :
       cmd.paths[i] = p /\ (\A j \in (i + 1)..Len(lines) : cmd.paths[j] # p)
         => lines[i].hash = files[p]

\* and so has the last line of its name in the checksums file.
InFile(p) ==
  /\ sums \in Seq(Line) /\ sums # NoFile /\ files[p] # NoFile
  /\ \E i \in DOMAIN sums :
       /\ sums[i].kind = "entry" /\ sums[i].name = Base(p) /\ sums[i].hash = files[p]
       /\ \A j \in (i + 1)..Len(sums) : sums[j].kind = "entry" => sums[j].name # Base(p)

\* What checksum has hashed, what it has kept, and what a verify of that finds.
Kept ==
  /\ phase = "hash" => /\ \A i \in 1..Len(lines) : lines[i].name = Base(cmd.paths[i])
                       /\ \A p \in hashed : HashIsLast(p)
  /\ \A p \in kept : InFile(p)
  /\ is("verify") /\ policyFile # Invalid /\ phase \in {"log", "idle"} /\ cmd.path \in kept =>
       /\ violations = <<>>
       /\ Len(events) = 1 /\ events[1].match /\ events[1].pkg = Base(cmd.path)

\* The inductive invariant.
IInv == Types /\ Phases /\ Staged /\ Verified /\ Kept /\ Audited /\ Ruled

-----------------------------------------------------------------------------
(* It holds at first, and every action keeps it. *)

\* The fields of a command, by its kind;
LEMMA CommandIs ==
  ASSUME NEW c \in Command
  PROVE  /\ c.cmd \in {"stage verify", "checksum", "verify", "audit", "policy check", "ci"}
         /\ c.cmd = "stage verify" =>
              c.id \in Id /\ c.tarball \in Seq(Read) /\ c.checksum \in Seq(Read)
         /\ c.cmd = "checksum" => c.paths \in Seq(Paths)
         /\ c.cmd \in {"verify", "audit"} => c.path \in Paths
         /\ c.cmd \in {"policy check", "ci"} => c.nodes \in Seq(Installed)
<1>1. CASE c \in [cmd : {"stage verify"}, id : Id, tarball : Seq(Read),
                  checksum : Seq(Read), ci : BOOLEAN]
  <2>1. c.cmd = "stage verify" /\ c.id \in Id /\ c.tarball \in Seq(Read)
          /\ c.checksum \in Seq(Read)
    BY <1>1, Zenon
  <2> QED BY <2>1
<1>2. CASE c \in [cmd : {"checksum"}, paths : Seq(Paths)]
  <2>1. c.cmd = "checksum" /\ c.paths \in Seq(Paths)
    BY <1>2, Zenon
  <2> QED BY <2>1
<1>3. CASE c \in [cmd : {"verify"}, path : Paths, ci : BOOLEAN]
  <2>1. c.cmd = "verify" /\ c.path \in Paths
    BY <1>3, Zenon
  <2> QED BY <2>1
<1>4. CASE c \in [cmd : {"audit"}, path : Paths, format : {"md", "sarif"}, ci : BOOLEAN]
  <2>1. c.cmd = "audit" /\ c.path \in Paths
    BY <1>4, Zenon
  <2> QED BY <2>1
<1>5. CASE c \in [cmd : {"policy check"}, nodes : Seq(Installed), ci : BOOLEAN]
  <2>1. c.cmd = "policy check" /\ c.nodes \in Seq(Installed)
    BY <1>5, Zenon
  <2> QED BY <2>1
<1>6. CASE c \in [cmd : {"ci"}, nodes : Seq(Installed), enforcement : STRING, fork : BOOLEAN]
  <2>1. c.cmd = "ci" /\ c.nodes \in Seq(Installed)
    BY <1>6, Zenon
  <2> QED BY <2>1
<1> QED BY <1>1, <1>2, <1>3, <1>4, <1>5, <1>6, Zenon DEF Command

\* and those of the command that is run.
LEMMA CmdIs ==
  ASSUME Types
  PROVE  /\ cmd.cmd \in {"none", "stage verify", "checksum", "verify", "audit",
                         "policy check", "ci"}
         /\ is("stage verify") =>
              cmd.id \in Id /\ cmd.tarball \in Seq(Read) /\ cmd.checksum \in Seq(Read)
         /\ is("checksum") => cmd.paths \in Seq(Paths)
         /\ is("verify") \/ is("audit") => cmd.path \in Paths
         /\ is("policy check") \/ is("ci") => cmd.nodes \in Seq(Installed)
<1>1. CASE cmd = [cmd |-> "none"]
  <2>1. cmd.cmd = "none"
    BY <1>1, Zenon
  <2> QED BY <2>1 DEF is
<1>2. CASE cmd \in project.commands
  <2>1. cmd \in Command
    BY <1>2, ProjectsAssumption, Zenon DEF Types
  <2> QED BY <2>1, CommandIs DEF is
<1> QED BY <1>1, <1>2 DEF Types

\* What policy check, audit and ci find, with what some scoring has.
LEMMA PolicyCheckIs ==
  ASSUME Types, PolicyCheck
  PROVE  \E s : ScoredWell(s) /\ violations' = Evaluate(pol, cmd.nodes) \o s.violations
<1>1. cmd.nodes \in Seq(Installed)
  BY CmdIs, Zenon DEF PolicyCheck
<1> DEFINE names == [i \in DOMAIN cmd.nodes |-> Named(cmd.nodes[i])]
<1>2. DOMAIN names = 1..Len(cmd.nodes) /\ Len(cmd.nodes) \in Nat
  BY <1>1
<1>3. PICK bare : \E s \in Scorings(names, ToSet(names), bare) \cup {NoScoring} :
                    violations' = Evaluate(pol, cmd.nodes) \o s.violations
  BY Zenon DEF PolicyCheck
<1>4. PICK s \in Scorings(names, ToSet(names), bare) \cup {NoScoring} :
             violations' = Evaluate(pol, cmd.nodes) \o s.violations
  BY <1>3, Zenon
<1>5. \A i \in 1..Len(cmd.nodes) : names[i] \in Name
  <2> TAKE i \in 1..Len(cmd.nodes)
  <2>1. cmd.nodes[i] \in Installed /\ i \in DOMAIN cmd.nodes
    BY <1>1, ElementOfSeq
  <2>2. cmd.nodes[i].name \in Name
    BY <2>1, Zenon DEF Installed
  <2> QED BY <2>1, <2>2, Zenon DEF Named
<1> HIDE DEF names
<1> QED BY <1>2, <1>4, <1>5, ScoringsAre, Zenon

LEMMA AuditTreeIs ==
  ASSUME AuditTree
  PROVE  \E outcomes \in [DOMAIN Packages -> Outcome], signed \in BOOLEAN : \E s :
           /\ ScoredWell(s)
           /\ violations' = TreeViolations(signed, outcomes) \o s.violations
           /\ events' = TreeEvents(outcomes)
           /\ scores' = s.scores
           /\ tree' = outcomes
<1>a. PICK outcomes \in Outcomes, signed \in BOOLEAN :
        \E s \in TreeScorings(outcomes, {}) :
          /\ violations' = TreeViolations(signed, outcomes) \o s.violations
          /\ events' = OfTree(TreeEvent, outcomes)
          /\ scores' = s.scores
          /\ tree' = outcomes
  BY Zenon DEF AuditTree
<1>1. PICK s \in TreeScorings(outcomes, {}) :
        /\ violations' = TreeViolations(signed, outcomes) \o s.violations
        /\ events' = OfTree(TreeEvent, outcomes)
        /\ scores' = s.scores
        /\ tree' = outcomes
  BY <1>a, Zenon
<1>2. ScoredWell(s) /\ outcomes \in [DOMAIN Packages -> Outcome]
  BY TreeScoringsAre, Zenon DEF Outcomes
<1>3. events' = TreeEvents(outcomes)
  BY <1>1, Zenon DEF OfTree, TreeEvents
<1> QED BY <1>1, <1>2, <1>3, Zenon

Disturbed == Violation(<<"lockfile">>, "lockfile_checksum_mismatch", <<"lockfile_integrity">>)

LEMMA ReportCiIs ==
  ASSUME ReportCi
  PROVE  \E sync \in [DOMAIN Packages -> SyncOutcome],
            outcomes \in [DOMAIN Packages -> Outcome],
            signed \in BOOLEAN, intact \in BOOLEAN : \E s :
           /\ ScoredWell(s)
           /\ violations' = (s.violations \o If(~intact, Disturbed))
                              \o TreeViolations(signed, outcomes)
           /\ events' = TreeEvents(sync) \o TreeEvents(outcomes)
           /\ tree' = outcomes
           /\ \/ /\ json' = RenderReport(TreeViolations(signed, outcomes) = <<>>,
                                        TreeViolations(signed, outcomes), events')
                 /\ sarif' \in {RenderSarif(TreeViolations(signed, outcomes) = <<>>,
                                            violations', <<>>), NoReport}
              \/ UNCHANGED <<sarif, json>>
<1>a. PICK sync \in SyncOutcomes, outcomes \in Outcomes, signed \in BOOLEAN,
           intact \in BOOLEAN :
        \E s \in TreeScorings(outcomes, With(sync, {"hashed"})) :
          /\ violations' = (s.violations \o If(~intact, Violation(<<"lockfile">>,
                                "lockfile_checksum_mismatch", <<"lockfile_integrity">>)))
                             \o TreeViolations(signed, outcomes)
          /\ events' = OfTree(TreeEvent, sync) \o OfTree(TreeEvent, outcomes)
          /\ tree' = outcomes
          /\ \/ /\ json' = RenderReport(TreeViolations(signed, outcomes) = <<>>,
                                       TreeViolations(signed, outcomes), events')
                /\ Written(sarif, RenderSarif(TreeViolations(signed, outcomes) = <<>>,
                                              violations', <<>>))
                /\ Exit(ApplyEnforcement(cmd.enforcement, violations'))
             \/ UNCHANGED <<sarif, json>> /\ Exit("failed")
  BY ZenonT(120) DEF ReportCi
<1>1. PICK s \in TreeScorings(outcomes, With(sync, {"hashed"})) :
        /\ violations' = (s.violations \o If(~intact, Violation(<<"lockfile">>,
                              "lockfile_checksum_mismatch", <<"lockfile_integrity">>)))
                           \o TreeViolations(signed, outcomes)
        /\ events' = OfTree(TreeEvent, sync) \o OfTree(TreeEvent, outcomes)
        /\ tree' = outcomes
        /\ \/ /\ json' = RenderReport(TreeViolations(signed, outcomes) = <<>>,
                                     TreeViolations(signed, outcomes), events')
              /\ Written(sarif, RenderSarif(TreeViolations(signed, outcomes) = <<>>,
                                            violations', <<>>))
              /\ Exit(ApplyEnforcement(cmd.enforcement, violations'))
           \/ UNCHANGED <<sarif, json>> /\ Exit("failed")
  BY <1>a, Zenon
<1>2. /\ ScoredWell(s) /\ outcomes \in [DOMAIN Packages -> Outcome]
      /\ sync \in [DOMAIN Packages -> SyncOutcome]
  BY TreeScoringsAre, Zenon DEF Outcomes, SyncOutcomes
<1>3. events' = TreeEvents(sync) \o TreeEvents(outcomes)
  BY <1>1, Zenon DEF OfTree, TreeEvents
<1> QED BY <1>1, <1>2, <1>3, ZenonT(60) DEF Written, Disturbed

\* The invariant holds at first.
LEMMA InitIInv == Init => IInv
<1> SUFFICES ASSUME Init PROVE IInv
  OBVIOUS
<1>0. cmd.cmd = "none" /\ phase = "idle" /\ exit = "running" /\ found = <<>> /\ events = <<>>
  BY DEF Init
<1>1. Types
  <2>1. /\ files \in [Paths -> Contents \cup {NoFile}] /\ sums \in Seq(Line) \cup {NoFile}
        /\ 0 \in 0..project.runs /\ 0 \in 0..MaxChanges
    BY ProjectsAssumption, BoundAssumption DEF Init
  <2>2. <<>> \in Seq(EntryLine) /\ <<>> \in Seq(Read) /\ <<>> \in Name
    BY DEF Name
  <2> QED BY <2>1, <2>2, DefaultIsPolicy, EmptySequence, Zenon DEF Types, Init
<1>2. Phases /\ Verified /\ Audited /\ Ruled
  BY <1>0 DEF Phases, Verified, Audited, Ruled, is
<1>3. Staged
  BY <1>0 DEF Staged, is
<1>4. Kept
  <2>1. kept = {}
    BY DEF Init
  <2> QED BY <1>0, <2>1 DEF Kept, is
<1> QED BY <1>1, <1>2, <1>3, <1>4, Zenon DEF IInv

\* The lines that checksum makes are lines of the file,
LEMMA LinesAre ==
  ASSUME Types
  PROVE  lines \in Seq(Line)
<1>1. EntryLine \subseteq Line
  BY Zenon DEF EntryLine, Line
<1>2. lines \in Seq(EntryLine)
  BY DEF Types
<1> QED BY <1>1, <1>2, SeqMonotonic

\* as is what is left of one.
LEMMA CutsAreLines ==
  ASSUME NEW l \in EntryLine, NEW cut \in Cuts(l)
  PROVE  cut \in Seq(Line)
<1>1. \A e \in Line : <<e>> \in Seq(Line)
  OBVIOUS
<1>2. CASE cut = <<>> \/ cut = <<Malformed>>
  <2>1. Malformed \in Line
    BY DEF Malformed, Line
  <2>2. <<>> \in Seq(Line)
    OBVIOUS
  <2> QED BY <1>1, <1>2, <2>1, <2>2, Zenon
<1>3. ASSUME NEW k \in 1..Len(l.name), cut = <<Entry(l.hash, SubSeq(l.name, 1, k))>>
      PROVE  cut \in Seq(Line)
  <2>1. l.hash \in Contents /\ l.name \in Seq(Token)
    BY DEF EntryLine, Name
  <2>2. SubSeq(l.name, 1, k) \in Name
    BY <2>1 DEF Name
  <2>3. Entry(l.hash, SubSeq(l.name, 1, k)) \in Line
    BY <2>1, <2>2 DEF Entry, Line
  <2> QED BY <1>1, <1>3, <2>3, Zenon
<1> QED BY <1>2, <1>3, Zenon DEF Cuts

\* The types are kept,
LEMMA StepTypes == Types /\ Phases /\ [Next]_vars => Types'
<1> SUFFICES ASSUME Types, Phases, [Next]_vars PROVE Types'
  OBVIOUS
<1> USE DEF disk, listing, stage, reports, compared, bounds, vars, policyFile
<1>0. ASSUME NEW c \in project.commands, Begin(c) PROVE Types'
  <2>1. c \in Command
    BY <1>0, ProjectsAssumption, Zenon DEF Types
  <2>2. piped' \in Seq(Read)
    <3>1. c.cmd = "stage verify" => c.tarball \in Seq(Read)
      BY <2>1, CommandIs, Zenon
    <3>2. <<>> \in Seq(Read)
      OBVIOUS
    <3> QED BY <1>0, <3>1, <3>2, Zenon DEF Begin
  <2>3. runs' \in 0..project'.runs
    <3>1. project.runs \in Nat /\ runs \in 0..project.runs
      BY ProjectsAssumption, Zenon DEF Types
    <3>2. project' = project /\ runs' = runs + 1 /\ runs < project.runs
      BY <1>0, Zenon DEF Begin
    <3> QED BY <3>1, <3>2
  <2>4. phase' \in {"hash", "load"}
    BY <1>0, Zenon DEF Begin
  <2>5. <<>> \in Seq(EntryLine) /\ <<>> \in Seq(Read) /\ <<>> \in Name
    BY DEF Name
  <2> QED BY <1>0, <2>2, <2>3, <2>4, <2>5, DefaultIsPolicy, EmptySequence DEF Begin, Types
<1>1. CASE LoadPolicy
  <2>1. IsSequence(log')
    <3>1. CASE log' = log
      BY <3>1, Zenon DEF Types
    <3>2. ASSUME NEW ok \in BOOLEAN, Log(<<policyMissingEvent>>, ok) PROVE IsSequence(log')
      BY <3>2, LogSequence, EventsSequences, Zenon DEF Types
    <3> QED BY <1>1, <3>1, <3>2, Zenon DEF LoadPolicy
  <2>2. /\ IsPolicy(pol')
        /\ \/ pol' = DefaultPolicy
           \/ IsRead /\ pol' = applyPolicyDefaults(policyFile)
    <3>1. IsRead => IsPolicy(applyPolicyDefaults(policyFile))
      <4>1. IsRead => IsPolicy(policyFile)
        BY ProjectsAssumption, Zenon DEF Types, IsRead
      <4> QED BY <4>1 DEF IsPolicy, applyPolicyDefaults
    <3>2. pol' = pol \/ pol' = DefaultPolicy
            \/ (IsRead /\ pol' = applyPolicyDefaults(policyFile))
      BY <1>1, Zenon DEF LoadPolicy, Loaded, IsRead
    <3> QED BY <3>1, <3>2, DefaultIsPolicy, Zenon DEF Types
  <2>3. phase' \in {"idle", "read", "artifact", "tree", "evaluate"}
    BY <1>1 DEF LoadPolicy, Loaded, Continue, Exit
  <2>4. exit' \in {exit, "failed"}
    BY <1>1, Zenon DEF LoadPolicy, Loaded, Continue, Exit
  <2>5. UNCHANGED <<disk, cmd, listing, stage, violations, events, reports, compared, bounds>>
    BY <1>1, Zenon DEF LoadPolicy
  <2> QED BY <2>1, <2>2, <2>3, <2>4, <2>5 DEF Types, IsRead
<1> USE DEF IsRead
<1>2. CASE ReadTarball
  <2>1. /\ piped' \in Seq(Read) /\ read' \in Seq(Read) /\ found' \in Name
        /\ phase' \in {"idle", "read", "check"} /\ exit' \in {exit, "failed"}
    <3>1. CASE piped = <<>>
      BY <1>2, <3>1 DEF ReadTarball, Exit, Types
    <3>2. CASE piped # <<>>
      <4>1. Head(piped) \in Read /\ Tail(piped) \in Seq(Read)
        BY <3>2, HeadTailProperties, Zenon DEF Types
      <4>2. Head(piped)[2] \in Name /\ <<>> \in Name
        BY <4>1 DEF Read, Name
      <4>3. Append(read, Head(piped)) \in Seq(Read)
        BY <4>1, AppendProperties, Zenon DEF Types
      <4>4. phase' \in {"idle", "read", "check"} /\ exit' \in {exit, "failed"}
        BY <1>2, <3>2 DEF ReadTarball, Exit, Continue
      <4>5. /\ read' = Append(read, Head(piped)) /\ piped' = Tail(piped)
            /\ found' = <<>> \/ found' = Head(piped)[2]
        BY <1>2, <3>2, Zenon DEF ReadTarball
      <4> QED BY <4>1, <4>2, <4>3, <4>4, <4>5, Zenon
    <3> QED BY <3>1, <3>2, Zenon
  <2>2. UNCHANGED <<disk, log, cmd, pol, listing, violations, events, reports, compared, bounds>>
    BY <1>2, Zenon DEF ReadTarball
  <2> QED BY <2>1, <2>2 DEF Types
<1>3. CASE CheckStage
  <2>1. IsSequence(violations')
    <3>1. violations' = StageViolations(cmd.id, found)
      BY <1>3, Zenon DEF CheckStage
    <3> QED BY <3>1, StageViolationsAre, Zenon
  <2>2. IsSequence(log')
    <3>1. PICK ok \in BOOLEAN : Log(policyViolationEvents(violations'), ok)
      BY <1>3, Zenon DEF CheckStage
    <3>2. IsSequence(policyViolationEvents(violations'))
      BY <2>1, ViolationEventsSequence
    <3> QED BY <3>1, <3>2, LogSequence DEF Types
  <2>3. phase' = "report" /\ exit' = exit
    BY <1>3, Zenon DEF CheckStage, Continue
  <2>4. UNCHANGED <<disk, cmd, pol, listing, stage, events, reports, compared, bounds>>
    BY <1>3, Zenon DEF CheckStage
  <2> QED BY <2>1, <2>2, <2>3, <2>4 DEF Types
<1>4. CASE ReportStage
  BY <1>4 DEF ReportStage, Exit, ApplyEnforcement, Types
<1>5. CASE HashFile
  <2>1. lines' \in Seq(EntryLine)
    <3>1. CASE lines' = lines
      BY <3>1, Zenon DEF Types
    <3>2. ASSUME NEW path \in Paths, files[path] # NoFile,
                 lines' = Append(lines, Entry(files[path], Base(path)))
          PROVE  lines' \in Seq(EntryLine)
      <4>1. Entry(files[path], Base(path)) \in EntryLine
        <5>1. files[path] \in Contents /\ Base(path) \in Name
          BY <3>2, PathsAssumption, Zenon DEF Types, Base
        <5> QED BY <5>1 DEF Entry, EntryLine
      <4> QED BY <3>2, <4>1, AppendProperties, Zenon DEF Types
    <3>3. Len(lines) < Len(cmd.paths) => cmd.paths[Len(lines) + 1] \in Paths
      <4>1. is("checksum")
        BY <1>5 DEF HashFile, Phases
      <4>2. cmd.paths \in Seq(Paths) /\ lines \in Seq(EntryLine)
        BY <4>1, CmdIs, Zenon DEF Types
      <4> QED BY <4>2
    <3> QED BY <1>5, <3>1, <3>2, <3>3, Zenon DEF HashFile
  <2>2. phase' \in {"idle", "hash"} /\ exit' \in {exit, "failed"}
    BY <1>5, Zenon DEF HashFile, Exit, Continue
  <2>3. UNCHANGED <<disk, log, cmd, pol, stage, violations, events, reports, compared, bounds>>
    BY <1>5, Zenon DEF HashFile
  <2>4. hashed' \subseteq Paths
    <3>1. Len(lines) < Len(cmd.paths) => cmd.paths[Len(lines) + 1] \in Paths
      <4>1. is("checksum")
        BY <1>5 DEF HashFile, Phases
      <4>2. cmd.paths \in Seq(Paths) /\ lines \in Seq(EntryLine)
        BY <4>1, CmdIs, Zenon DEF Types
      <4> QED BY <4>2
    <3> QED BY <1>5, <3>1, Zenon DEF HashFile, Types
  <2> QED BY <2>1, <2>2, <2>3, <2>4 DEF Types
<1>6. CASE WriteChecksums
  <2>1. sums' \in Seq(Line) \cup {NoFile} /\ kept' \subseteq Paths
    <3>1. lines \in Seq(EntryLine) /\ lines \in Seq(Line)
      BY LinesAre DEF Types
    <3>2. \A k \in 0..(Len(lines) - 1) :
            SubSeq(lines, 1, k) \in Seq(Line) /\ lines[k + 1] \in EntryLine
      BY <3>1
    <3>3. \A l \in EntryLine : \A cut \in Cuts(l) : cut \in Seq(Line)
      BY CutsAreLines, Zenon
    <3>4. \A k \in 0..(Len(lines) - 1) : \A cut \in Cuts(lines[k + 1]) :
            SubSeq(lines, 1, k) \o cut \in Seq(Line)
      BY <3>2, <3>3, ConcatProperties, Zenon
    <3>5. /\ sums' = sums \/ sums' = lines
               \/ \E k \in 0..(Len(lines) - 1) : \E cut \in Cuts(lines[k + 1]) :
                    sums' = SubSeq(lines, 1, k) \o cut
          /\ kept' = kept \/ kept' = {} \/ kept' = {path \in hashed : LastOfName(path)}
      BY <1>6, Zenon DEF WriteChecksums
    <3> QED BY <3>1, <3>4, <3>5, Zenon DEF Types
  <2>2. phase' = "idle" /\ exit' \in {"ok", "failed"}
    BY <1>6, Zenon DEF WriteChecksums, Exit
  <2>3. UNCHANGED <<project, files, log, cmd, pol, listing, stage, violations, events,
                    reports, compared, bounds>>
    BY <1>6, Zenon DEF WriteChecksums
  <2> QED BY <2>1, <2>2, <2>3 DEF Types
<1>7. CASE VerifyArtifact
  <2>1. IsSequence(events') /\ IsSequence(violations')
    BY <1>7, EventsSequences, Zenon DEF VerifyArtifact, Types
  <2>2. phase' \in {"log", "idle"} /\ exit' \in {exit, "failed"}
    BY <1>7, Zenon DEF VerifyArtifact, Exit, Continue
  <2>3. UNCHANGED <<disk, log, cmd, pol, listing, stage, reports, compared, bounds>>
    BY <1>7, Zenon DEF VerifyArtifact
  <2> QED BY <2>1, <2>2, <2>3 DEF Types
<1>8. CASE AuditArtifact
  <2>1. IsSequence(events') /\ IsSequence(violations')
    <3>1. CASE Comparable(cmd.path)
      <4>1. IsSequence(Append(events, BinaryEvent(cmd.path)))
        <5> DEFINE S == ToSet(events) \cup {BinaryEvent(cmd.path)}
        <5>1. events \in Seq(S)
          BY SeqMonotonic DEF Types, IsSequence
        <5> QED BY <5>1, AppendProperties, IsSequenceOf
      <4>2. IsSequence(violations \o BinaryViolations(cmd.path))
        BY EventsSequences, ConcatSequence, Zenon DEF Types
      <4> QED BY <1>8, <3>1, <4>1, <4>2, Zenon DEF AuditArtifact
    <3>2. CASE ~Comparable(cmd.path)
      BY <1>8, <3>2, Zenon DEF AuditArtifact, Types
    <3> QED BY <3>1, <3>2, Zenon
  <2>2. phase' = "log" /\ exit' = exit
    BY <1>8, Zenon DEF AuditArtifact, Continue
  <2>3. UNCHANGED <<disk, log, cmd, pol, listing, stage, reports, compared, bounds>>
    BY <1>8, Zenon DEF AuditArtifact
  <2> QED BY <2>1, <2>2, <2>3 DEF Types
<1>9. CASE LogEvents
  <2>1. IsSequence(log')
    BY <1>9, LogSequence, Zenon DEF LogEvents, Types
  <2>2. phase' \in {"report", "idle"} /\ exit' \in {exit, "ok", "failed"}
    BY <1>9, Zenon DEF LogEvents, Exit, Continue, ApplyEnforcement
  <2>3. UNCHANGED <<disk, cmd, pol, listing, stage, violations, events, reports, compared, bounds>>
    BY <1>9, Zenon DEF LogEvents
  <2> QED BY <2>1, <2>2, <2>3 DEF Types
<1>10. CASE Fails
  BY <1>10 DEF Fails, Exit, Types
<1>11. CASE PolicyCheck
  <2>1. IsSequence(violations')
    <3>1. cmd.nodes \in Seq(Installed)
      BY <1>11, CmdIs, Zenon DEF PolicyCheck
    <3>2. PICK scoring : /\ ScoredWell(scoring)
                         /\ violations' = Evaluate(pol, cmd.nodes) \o scoring.violations
      BY <1>11, PolicyCheckIs, Zenon
    <3> QED BY <3>1, <3>2, EvaluateSequence, ConcatSequence, Zenon DEF ScoredWell
  <2>2. phase' = "idle" /\ exit' \in {"ok", "failed"}
    BY <1>11, Zenon DEF PolicyCheck, Exit, ApplyEnforcement
  <2>3. UNCHANGED <<disk, log, cmd, pol, listing, stage, events, reports, compared, bounds>>
    BY <1>11, Zenon DEF PolicyCheck
  <2> QED BY <2>1, <2>2, <2>3 DEF Types
<1>12. CASE AuditTree
  <2>a. PICK signed \in BOOLEAN : \E outcomes, s :
          /\ ScoredWell(s)
          /\ violations' = TreeViolations(signed, outcomes) \o s.violations
          /\ events' = TreeEvents(outcomes)
    BY <1>12, AuditTreeIs, Zenon
  <2>1. PICK outcomes, s :
          /\ ScoredWell(s)
          /\ violations' = TreeViolations(signed, outcomes) \o s.violations
          /\ events' = TreeEvents(outcomes)
    BY <2>a, Zenon
  <2>2. IsSequence(s.violations) /\ IsSequence(TreeEvents(outcomes))
    BY <2>1, TreeEventsElements, Zenon DEF ScoredWell
  <2>3. IsSequence(violations') /\ IsSequence(events')
    BY <2>1, <2>2, TreeViolationsAre, ConcatSequence, Zenon
  <2>4. phase' = "artifact" /\ exit' = exit
    BY <1>12, Zenon DEF AuditTree, Continue
  <2>5. UNCHANGED <<disk, log, cmd, pol, listing, stage, reports, bounds>>
    BY <1>12, Zenon DEF AuditTree
  <2> QED BY <2>3, <2>4, <2>5 DEF Types
<1>13. CASE ReportAudit
  <2>1. phase' = "idle" /\ exit' \in {"ok", "failed"}
    BY <1>13, Zenon DEF ReportAudit, Exit, ApplyEnforcement
  <2>2. UNCHANGED <<disk, log, cmd, pol, listing, stage, violations, events, json, compared, bounds>>
    BY <1>13, Zenon DEF ReportAudit
  <2> QED BY <2>1, <2>2 DEF Types
<1>14. CASE EvaluateCi
  <2>1. IsSequence(violations')
    <3>1. cmd.nodes \in Seq(Installed)
      BY <1>14, CmdIs, Zenon DEF EvaluateCi
    <3> QED BY <1>14, <3>1, EvaluateSequence, Zenon DEF EvaluateCi
  <2>2. phase' \in {"idle", "tree"} /\ exit' \in {exit, "ok", "failed"}
    BY <1>14, Zenon DEF EvaluateCi, Exit, Continue, ApplyEnforcement
  <2>3. UNCHANGED <<disk, log, cmd, pol, listing, stage, events, markdown, compared, bounds>>
    BY <1>14, Zenon DEF EvaluateCi
  <2> QED BY <2>1, <2>2, <2>3 DEF Types
<1>15. CASE ReportCi
  <2>a. PICK signed \in BOOLEAN, intact \in BOOLEAN : \E sync, outcomes, s :
          /\ ScoredWell(s)
          /\ violations' = (s.violations \o If(~intact, Disturbed))
                             \o TreeViolations(signed, outcomes)
          /\ events' = TreeEvents(sync) \o TreeEvents(outcomes)
    BY <1>15, ReportCiIs, ZenonT(60)
  <2>1. PICK sync, outcomes, s :
          /\ ScoredWell(s)
          /\ violations' = (s.violations \o If(~intact, Disturbed))
                             \o TreeViolations(signed, outcomes)
          /\ events' = TreeEvents(sync) \o TreeEvents(outcomes)
    BY <2>a, Zenon
  <2>2. IsSequence(s.violations)
    BY <2>1, Zenon DEF ScoredWell
  <2>3. IsSequence(s.violations \o If(~intact, Disturbed))
    <3>1. IsSequence(If(~intact, Disturbed))
      BY IfSequence, Zenon
    <3> QED BY <2>2, <3>1, ConcatSequence, Zenon
  <2>4. IsSequence(violations') /\ IsSequence(events')
    BY <2>1, <2>3, TreeViolationsAre, TreeEventsElements, ConcatSequence, Zenon
  <2>5. phase' = "idle" /\ exit' \in {"ok", "failed"}
    BY <1>15, Zenon DEF ReportCi, Exit, ApplyEnforcement
  <2>6. UNCHANGED <<disk, log, cmd, pol, listing, stage, markdown, bounds>>
    BY <1>15, Zenon DEF ReportCi
  <2> QED BY <2>4, <2>5, <2>6 DEF Types
<1>16. ASSUME NEW path \in Paths, NEW content \in Contents \cup {NoFile},
              ChangeArtifact(path, content)
       PROVE  Types'
  <2>1. changes' \in 0..MaxChanges
    BY <1>16, BoundAssumption DEF ChangeArtifact, Types
  <2>2. /\ files' \in [Paths -> Contents \cup {NoFile}] /\ still' \in BOOLEAN
        /\ hashed' \subseteq Paths /\ kept' \subseteq Paths
    BY <1>16 DEF ChangeArtifact, Types
  <2> QED BY <1>16, <2>1, <2>2 DEF ChangeArtifact, Types
<1>17. CASE UNCHANGED vars
  BY <1>17 DEF Types
<1> QED BY <1>0, <1>1, <1>2, <1>3, <1>4, <1>5, <1>6, <1>7, <1>8, <1>9, <1>10, <1>11, <1>12,
           <1>13, <1>14, <1>15, <1>16, <1>17, Zenon DEF Next, Step, AllDone

\* the phases,
LEMMA StepPhases == Types /\ Phases /\ [Next]_vars => Phases'
<1> SUFFICES ASSUME Types, Phases, [Next]_vars PROVE Phases'
  OBVIOUS
<1> USE DEF disk, listing, stage, reports, compared, bounds, vars, policyFile, Phases, is
<1>0. ASSUME NEW c \in project.commands, Begin(c) PROVE Phases'
  <2>1. c \in Command
    BY <1>0, ProjectsAssumption, Zenon DEF Types
  <2>2. c.cmd \in {"stage verify", "checksum", "verify", "audit", "policy check", "ci"}
    BY <2>1, CommandIs, Zenon
  <2>3. c.cmd = "checksum" => Len(c.paths) \in Nat
    <3>1. c.cmd = "checksum" => c.paths \in Seq(Paths)
      BY <2>1, CommandIs, Zenon
    <3> QED BY <3>1, LenProperties, Zenon
  <2>4. /\ cmd' = c /\ phase' = IF c.cmd = "checksum" THEN "hash" ELSE "load"
        /\ exit' = "running" /\ lines' = <<>>
    BY <1>0, Zenon DEF Begin
  <2>5. Len(lines') = 0
    BY <2>4
  <2> HIDE DEF Phases
  <2>6. CASE c.cmd = "checksum"
    <3>1. phase' = "hash" /\ exit' = "running" /\ cmd'.cmd = "checksum"
      BY <2>4, <2>6, Zenon
    <3>2. Len(lines') <= Len(cmd'.paths)
      <4>1. cmd'.paths = c.paths
        BY <2>4, Zenon
      <4>2. Len(c.paths) \in Nat
        BY <2>3, <2>6, Zenon
      <4> QED BY <4>1, <4>2, <2>5
    <3> QED BY <3>1, <3>2 DEF Phases
  <2>7. CASE c.cmd # "checksum"
    <3>1. phase' = "load" /\ exit' = "running" /\ cmd'.cmd = c.cmd
      BY <2>4, <2>7, Zenon
    <3> QED BY <3>1, <2>2, <2>7 DEF Phases
  <2> QED BY <2>6, <2>7
<1>1. CASE LoadPolicy
  <2>1. cmd' = cmd /\ lines' = lines /\ phase = "load"
    BY <1>1, Zenon DEF LoadPolicy
  <2>2. \/ Exit("failed")
        \/ Continue(CASE is("stage verify") -> "read"
                      [] is("verify") -> "artifact"
                      [] is("audit") -> "tree"
                      [] OTHER -> "evaluate")
    BY <1>1, Zenon DEF LoadPolicy, Loaded
  <2>3. cmd.cmd \in {"stage verify", "verify", "audit", "policy check", "ci"}
    BY <2>1, CmdIs
  <2> QED BY <2>1, <2>2, <2>3 DEF Exit, Continue
<1>2. CASE ReadTarball
  <2>1. cmd' = cmd /\ lines' = lines /\ phase = "read"
    BY <1>2, Zenon DEF ReadTarball
  <2>2. Exit("failed") \/ Continue("read") \/ Continue("check")
    BY <1>2, Zenon DEF ReadTarball
  <2> QED BY <2>1, <2>2 DEF Exit, Continue
<1>3. CASE CheckStage
  BY <1>3 DEF CheckStage, Continue
<1>4. CASE ReportStage
  BY <1>4 DEF ReportStage, Exit, ApplyEnforcement
<1>5. CASE HashFile
  <2>1. cmd' = cmd /\ phase = "hash" /\ Len(lines) < Len(cmd.paths)
    BY <1>5, Zenon DEF HashFile
  <2>2. \/ Exit("failed") /\ lines' = lines
        \/ Continue("hash") /\ \E e : lines' = Append(lines, e)
    BY <1>5, Zenon DEF HashFile
  <2>3. Len(lines) \in Nat /\ \A e : Len(Append(lines, e)) = Len(lines) + 1
    <3>1. lines \in Seq(Line)
      BY LinesAre, Zenon
    <3>2. ASSUME NEW e PROVE Len(Append(lines, e)) = Len(lines) + 1
      <4>1. lines \in Seq(Line \cup {e})
        BY <3>1, SeqMonotonic
      <4>2. e \in Line \cup {e}
        BY Zenon
      <4> DEFINE S == Line \cup {e}
      <4> HIDE DEF S, is, Phases
      <4>3. lines \in Seq(S) /\ e \in S
        BY <4>1, <4>2 DEF S
      <4> QED BY <4>3, AppendProperties
    <3>3. Len(lines) \in Nat
      BY <3>1, LenProperties, Zenon
    <3> QED BY <3>2, <3>3, Zenon
  <2>4. Len(cmd.paths) \in Nat
    <3>1. cmd.paths \in Seq(Paths)
      BY <2>1, CmdIs
    <3> QED BY <3>1, LenProperties, Zenon
  <2>5. Len(lines') <= Len(cmd.paths)
    BY <2>1, <2>2, <2>3, <2>4
  <2> QED BY <2>1, <2>2, <2>5 DEF Exit, Continue
<1>6. CASE WriteChecksums
  <2>1. cmd' = cmd /\ lines' = lines /\ phase = "hash" /\ (Exit("ok") \/ Exit("failed"))
    BY <1>6, Zenon DEF WriteChecksums
  <2> QED BY <2>1 DEF Exit
<1>7. CASE VerifyArtifact
  <2>1. /\ cmd' = cmd /\ lines' = lines /\ phase = "artifact" /\ is("verify")
        /\ Exit("failed") \/ Continue("log")
    BY <1>7, Zenon DEF VerifyArtifact
  <2> QED BY <2>1 DEF Exit, Continue
<1>8. CASE AuditArtifact
  <2>1. /\ cmd' = cmd /\ lines' = lines /\ phase = "artifact" /\ is("audit")
        /\ Continue("log")
    BY <1>8, Zenon DEF AuditArtifact
  <2> QED BY <2>1 DEF Continue
<1>9. CASE LogEvents
  <2>1. /\ cmd' = cmd /\ lines' = lines /\ phase = "log"
        /\ Exit("failed") \/ (is("audit") /\ Continue("report"))
             \/ Exit(ApplyEnforcement(Enforcement, violations))
    BY <1>9, Zenon DEF LogEvents
  <2> QED BY <2>1 DEF Exit, Continue, ApplyEnforcement
<1>10. CASE Fails
  BY <1>10 DEF Fails, Exit
<1>11. CASE PolicyCheck
  <2>1. /\ cmd' = cmd /\ lines' = lines /\ phase = "evaluate"
        /\ Exit(ApplyEnforcement(Enforcement, violations'))
    BY <1>11, Zenon DEF PolicyCheck
  <2> QED BY <2>1 DEF Exit, ApplyEnforcement
<1>12. CASE AuditTree
  <2>1. cmd' = cmd /\ lines' = lines /\ phase = "tree" /\ is("audit") /\ Continue("artifact")
    BY <1>12, Zenon DEF AuditTree
  <2> QED BY <2>1 DEF Continue
<1>13. CASE ReportAudit
  <2>1. /\ cmd' = cmd /\ lines' = lines /\ phase = "report"
        /\ Exit(ApplyEnforcement(Enforcement, violations))
    BY <1>13, Zenon DEF ReportAudit
  <2> QED BY <2>1 DEF Exit, ApplyEnforcement
<1>14. CASE EvaluateCi
  <2>1. /\ cmd' = cmd /\ lines' = lines /\ phase = "evaluate" /\ is("ci")
        /\ Exit(ApplyEnforcement(cmd.enforcement, violations')) \/ Continue("tree")
    BY <1>14, Zenon DEF EvaluateCi
  <2> QED BY <2>1 DEF Exit, Continue, ApplyEnforcement
<1>15. CASE ReportCi
  <2>1. /\ cmd' = cmd /\ lines' = lines /\ phase = "tree" /\ is("ci")
        /\ Exit(ApplyEnforcement(cmd.enforcement, violations')) \/ Exit("failed")
    BY <1>15, Zenon DEF ReportCi
  <2> QED BY <2>1 DEF Exit, ApplyEnforcement
<1>16. ASSUME NEW path \in Paths, NEW content \in Contents \cup {NoFile},
              ChangeArtifact(path, content)
       PROVE  Phases'
  <2>1. cmd' = cmd /\ lines' = lines /\ phase' = phase /\ exit' = exit
    BY <1>16, Zenon DEF ChangeArtifact
  <2> QED BY <2>1
<1>17. CASE UNCHANGED vars
  BY <1>17
<1> QED BY <1>0, <1>1, <1>2, <1>3, <1>4, <1>5, <1>6, <1>7, <1>8, <1>9, <1>10, <1>11, <1>12,
           <1>13, <1>14, <1>15, <1>16, <1>17, Zenon DEF Next, Step, AllDone

\* and what stage verify knows; other commands leave it alone.
LEMMA StepStaged == Types /\ Phases /\ Staged /\ [Next]_vars => Staged'
<1> SUFFICES ASSUME Types, Phases, Staged, [Next]_vars PROVE Staged'
  OBVIOUS
<1> USE DEF disk, listing, stage, reports, compared, bounds, vars, policyFile
<1>a. ASSUME ~is("stage verify"), cmd' = cmd, found' = found PROVE Staged'
  BY <1>a DEF Staged, is
<1>0. ASSUME NEW c \in project.commands, Begin(c) PROVE Staged'
  <2>1. c \in Command
    BY <1>0, ProjectsAssumption, Zenon DEF Types
  <2>2. c.cmd = "stage verify" => c.tarball \in Seq(Read)
    BY <2>1, CommandIs, Zenon
  <2>3. /\ cmd' = c /\ exit' = "running" /\ read' = <<>> /\ found' = <<>>
        /\ c.cmd = "stage verify" => phase' = "load" /\ piped' = c.tarball
    BY <1>0 DEF Begin
  <2>4. c.cmd = "stage verify" => <<>> \o c.tarball = c.tarball
    BY <2>2, ConcatEmptySeq, Zenon
  <2> QED BY <2>3, <2>4 DEF Staged, is
<1>1. CASE LoadPolicy
  <2>1. /\ cmd' = cmd /\ UNCHANGED stage /\ phase = "load"
        /\ Exit("failed") \/ Continue(CASE is("stage verify") -> "read"
                                        [] is("verify") -> "artifact"
                                        [] is("audit") -> "tree"
                                        [] OTHER -> "evaluate")
    BY <1>1, Zenon DEF LoadPolicy, Loaded
  <2>2. CASE is("stage verify")
    <3>1. found = <<>> /\ exit = "running"
      BY <2>1, <2>2 DEF Staged, Phases
    <3>2. (phase' = "idle" /\ exit' = "failed") \/ (phase' = "read" /\ exit' = "running")
      BY <2>1, <2>2, <3>1 DEF Exit, Continue, is
    <3> QED BY <2>1, <2>2, <3>1, <3>2 DEF Staged, is
  <2> QED BY <1>a, <2>1, <2>2
<1>2. CASE ReadTarball
  <2>0. phase = "read" /\ is("stage verify") /\ cmd' = cmd /\ exit = "running"
    BY <1>2 DEF ReadTarball, Phases
  <2>1. read \o piped = cmd.tarball /\ found = <<>>
    BY <2>0 DEF Staged
  <2>2. CASE piped = <<>>
    <3>1. Exit("failed") /\ UNCHANGED stage
      BY <1>2, <2>2, Zenon DEF ReadTarball
    <3> QED BY <2>0, <2>1, <3>1 DEF Staged, is, Exit
  <2>3. CASE piped # <<>>
    <3> DEFINE h == Head(piped)
    <3>1. h \in Read /\ Tail(piped) \in Seq(Read)
      BY <2>3, HeadTailProperties, Zenon DEF Types
    <3>2. h = <<h[1], h[2]>>
      BY <3>1 DEF Read
    <3>3. /\ read' = Append(read, h) /\ piped' = Tail(piped)
          /\ found' = IF h[1] = "package" THEN h[2] ELSE <<>>
          /\ CASE h[1] = "data" -> Continue("read")
               [] h[1] = "bad" -> Exit("failed")
               [] OTHER -> Continue("check")
      BY <1>2, <2>3, Zenon DEF ReadTarball
    <3>4. read' \o piped' = read \o piped /\ Last(read') = h /\ read' # <<>>
      BY <3>3, <2>3, ReadOne, Zenon DEF Types
    <3>5. h[1] \in {"data", "bad", "package", "end"}
      BY <3>1 DEF Read
    <3>6. found' # <<>> => h[1] = "package" /\ h = <<"package", found'>>
      BY <3>2, <3>3
    <3>7. phase' \in {"read", "check", "idle"} /\ exit' \in {"running", "failed"}
            /\ (phase' = "check" <=> h[1] \in {"package", "end"})
            /\ (phase' = "idle" <=> h[1] = "bad")
      BY <3>3, <3>5, <2>0 DEF Continue, Exit
    <3> HIDE DEF h
    <3> QED BY <2>0, <2>1, <3>4, <3>5, <3>6, <3>7 DEF Staged, is
  <2> QED BY <2>2, <2>3
<1>3. CASE CheckStage
  <2>1. /\ phase = "check" /\ phase' = "report" /\ exit' = exit /\ cmd' = cmd /\ pol' = pol
        /\ read' = read /\ piped' = piped /\ found' = found
        /\ violations' = StageViolations(cmd.id, found)
    BY <1>3, Zenon DEF CheckStage, Continue
  <2>2. exit = "running" /\ is("stage verify")
    BY <2>1 DEF Phases
  <2>3. StageViolations(cmd.id, found)' = StageViolations(cmd.id, found)
    BY <2>1, Zenon DEF StageViolations
  <2> QED BY <2>1, <2>2, <2>3 DEF Staged, is
<1>4. CASE ReportStage
  <2>1. /\ phase = "report" /\ phase' = "idle" /\ cmd' = cmd /\ pol' = pol
        /\ read' = read /\ piped' = piped /\ found' = found
        /\ violations' = violations
        /\ exit' = ApplyEnforcement(Enforcement, violations)
        /\ is("stage verify")
    BY <1>4, Zenon DEF ReportStage, Exit
  <2>2. StageViolations(cmd.id, found)' = StageViolations(cmd.id, found)
          /\ Enforcement' = Enforcement
    BY <2>1, Zenon DEF StageViolations, Enforcement
  <2>3. exit' = "ok" /\ Enforcement = "block" => violations = <<>>
    BY <2>1 DEF ApplyEnforcement
  <2> QED BY <2>1, <2>2, <2>3 DEF Staged, is
<1>5. CASE HashFile
  BY <1>5, <1>a DEF HashFile, Phases, is
<1>6. CASE WriteChecksums
  BY <1>6, <1>a DEF WriteChecksums, Phases, is
<1>7. CASE VerifyArtifact
  BY <1>7, <1>a DEF VerifyArtifact, Phases, is
<1>8. CASE AuditArtifact
  BY <1>8, <1>a DEF AuditArtifact, Phases, is
<1>9. CASE LogEvents
  BY <1>9, <1>a DEF LogEvents, Phases, is
<1>10. CASE Fails
  BY <1>10, <1>a DEF Fails, Phases, is
<1>11. CASE PolicyCheck
  BY <1>11, <1>a DEF PolicyCheck, Phases, is
<1>12. CASE AuditTree
  BY <1>12, <1>a DEF AuditTree, Phases, is
<1>13. CASE ReportAudit
  BY <1>13, <1>a DEF ReportAudit, Phases, is
<1>14. CASE EvaluateCi
  BY <1>14, <1>a DEF EvaluateCi, Phases, is
<1>15. CASE ReportCi
  BY <1>15, <1>a DEF ReportCi, Phases, is
<1>16. ASSUME NEW path \in Paths, NEW content \in Contents \cup {NoFile},
              ChangeArtifact(path, content)
       PROVE  Staged'
  <2>1. UNCHANGED <<cmd, phase, pol, stage, violations, exit>>
    BY <1>16, Zenon DEF ChangeArtifact
  <2> QED BY <2>1 DEF Staged, is, StageViolations, Enforcement
<1>17. CASE UNCHANGED vars
  BY <1>17 DEF Staged, is, StageViolations, Enforcement
<1> QED BY <1>0, <1>1, <1>2, <1>3, <1>4, <1>5, <1>6, <1>7, <1>8, <1>9, <1>10, <1>11, <1>12,
           <1>13, <1>14, <1>15, <1>16, <1>17, Zenon DEF Next, Step, AllDone

\* A mismatch is a violation.
LEMMA MismatchIsViolation ==
  ASSUME NEW path, ~BinaryEvent(path).match
  PROVE  BinaryViolations(path) # <<>>
<1>1. BinaryEvent(path).match = matched(path)
  BY DEF BinaryEvent, Event
<1>2. matched(path) \in BOOLEAN
  BY Zenon DEF matched
<1> QED BY <1>1, <1>2, IfSequence, Zenon DEF BinaryViolations

\* The hash that parseChecksums has for a name is that of its last line.
LEMMA ComparedIsListed ==
  ASSUME Types, is("verify") \/ is("audit"), Comparable(cmd.path)
  PROVE  OfArtifact(BinaryEvent(cmd.path))
<1> DEFINE name == Base(cmd.path)
           text == sums
           entries == {i \in DOMAIN text : text[i].kind = "entry"}
           named == {i \in entries : text[i].name = name}
           last == Max(named)
<1>1. sums \in Seq(Line)
  BY Zenon DEF Types, Comparable
<1>2. DOMAIN text = 1..Len(text) /\ Len(text) \in Nat
  BY <1>1
<1>3. name \in {text[i].name : i \in entries}
  BY Zenon DEF Comparable, parseChecksums
<1>4. named \in SUBSET (0..Len(text)) /\ named # {}
  <2>1. named # {}
    BY <1>3, Zenon
  <2> QED BY <1>2, <2>1
<1>5. last \in named /\ \A k \in named : last >= k
  BY <1>2, <1>4, GreatestNatural
<1>6. parseChecksums(sums)[name] = sums[last].hash
  BY <1>3, Zenon DEF parseChecksums
<1>7. \A j \in (last + 1)..Len(text) : text[j].kind = "entry" => text[j].name # name
  <2> TAKE j \in (last + 1)..Len(text)
  <2> HIDE DEF last
  <2>1. last \in 1..Len(text)
    BY <1>2, <1>5
  <2>2. j \in DOMAIN text /\ ~(last >= j)
    BY <1>2, <2>1
  <2> QED BY <1>5, <2>2, Zenon
<1>8. LET e == BinaryEvent(cmd.path)
      IN  /\ e.event = "binary_verify" /\ e.pkg = name
          /\ e.match = (parseChecksums(sums)[name] = files[cmd.path])
  BY DEF BinaryEvent, Event, matched
<1> HIDE DEF last
<1>9. /\ last \in DOMAIN sums /\ sums[last].kind = "entry" /\ sums[last].name = name
      /\ BinaryEvent(cmd.path).match = (sums[last].hash = files[cmd.path])
  BY <1>5, <1>6, <1>8, Zenon
<1>10. Listed(BinaryEvent(cmd.path))
  BY <1>7, <1>9, Zenon DEF Listed
<1>11. BinaryEvent(cmd.path).match \in BOOLEAN
  BY <1>8, Zenon
<1> QED BY <1>8, <1>10, <1>11, Zenon DEF OfArtifact

\* An event goes on telling what it told while nothing that it is about changes.
LEMMA OfArtifactKept ==
  ASSUME NEW e, OfArtifact(e), cmd' = cmd,
         (sums' = sums /\ files' = files /\ still' = still) \/ ~still'
  PROVE  OfArtifact(e)'
<1>1. e.event = "binary_verify" /\ e.pkg = Base(cmd'.path) /\ e.match \in BOOLEAN
  BY DEF OfArtifact, Base
<1>2. still' => Listed(e)'
  <2>1. CASE sums' = sums /\ files' = files /\ still' = still
    BY <2>1, Zenon DEF OfArtifact, Listed, Base
  <2> QED BY <2>1
<1> QED BY <1>1, <1>2, Zenon DEF OfArtifact, Base

\* Every action keeps what verify has found. LogEvents moves it to the log.
LEMMA StepVerified == Types /\ Phases /\ Verified /\ [Next]_vars => Verified'
<1> SUFFICES ASSUME Types, Phases, Verified, [Next]_vars PROVE Verified'
  OBVIOUS
<1> USE DEF disk, listing, stage, reports, compared, bounds, vars, policyFile
<1>a. ASSUME ~is("verify"), cmd' = cmd PROVE Verified'
  BY <1>a DEF Verified, is
<1>b. ASSUME is("verify"), exit = "running", cmd' = cmd, exit' # "ok", phase' # "log"
      PROVE  Verified'
  BY <1>b DEF Verified, is
<1>0. ASSUME NEW c \in project.commands, Begin(c) PROVE Verified'
  <2>1. phase' # "log" /\ exit' = "running"
    BY <1>0 DEF Begin
  <2> QED BY <2>1 DEF Verified
<1>1. CASE LoadPolicy
  <2>1. /\ cmd' = cmd /\ phase = "load"
        /\ Exit("failed") \/ Continue(CASE is("stage verify") -> "read"
                                        [] is("verify") -> "artifact"
                                        [] is("audit") -> "tree"
                                        [] OTHER -> "evaluate")
    BY <1>1, Zenon DEF LoadPolicy, Loaded
  <2>2. exit = "running"
    BY <2>1 DEF Phases
  <2>3. exit' # "ok" /\ phase' # "log"
    BY <2>1, <2>2 DEF Exit, Continue
  <2> QED BY <1>a, <1>b, <2>1, <2>2, <2>3, Zenon
<1>2. CASE ReadTarball
  BY <1>2, <1>a DEF ReadTarball, Phases, is
<1>3. CASE CheckStage
  BY <1>3, <1>a DEF CheckStage, Phases, is
<1>4. CASE ReportStage
  BY <1>4, <1>a DEF ReportStage, is
<1>5. CASE HashFile
  BY <1>5, <1>a DEF HashFile, Phases, is
<1>6. CASE WriteChecksums
  BY <1>6, <1>a DEF WriteChecksums, Phases, is
<1>7. CASE VerifyArtifact
  <2>0. phase = "artifact" /\ is("verify") /\ cmd' = cmd /\ exit = "running"
    BY <1>7 DEF VerifyArtifact, Phases
  <2>1. CASE Comparable(cmd.path)
    <3>1. /\ events' = <<BinaryEvent(cmd.path)>> /\ violations' = BinaryViolations(cmd.path)
          /\ Continue("log") /\ UNCHANGED <<disk, bounds>>
      BY <1>7, <2>1, Zenon DEF VerifyArtifact
    <3>2. OfArtifact(BinaryEvent(cmd.path))
      BY <2>0, <2>1, ComparedIsListed
    <3>3. Len(events') = 1 /\ events'[1] = BinaryEvent(cmd.path)
      BY <3>1, SingleSequence, Zenon
    <3>4. OfArtifact(events[1])'
      <4>1. \A e : OfArtifact(e) => OfArtifact(e)'
        BY <2>0, <3>1, OfArtifactKept
      <4>2. OfArtifact(BinaryEvent(cmd.path)) /\ events'[1] = BinaryEvent(cmd.path)
        BY <3>2, <3>3, Zenon
      <4> HIDE DEF OfArtifact
      <4> QED BY <4>1, <4>2, SMT DEF OfArtifact, Listed, Base
    <3>5. ~events'[1].match => violations' # <<>>
      BY <3>1, <3>3, MismatchIsViolation, Zenon
    <3>6. exit' = "running"
      BY <2>0, <3>1 DEF Continue
    <3> QED BY <3>3, <3>4, <3>5, <3>6 DEF Verified
  <2>2. CASE ~Comparable(cmd.path)
    <3>1. Exit("failed")
      BY <1>7, <2>2, Zenon DEF VerifyArtifact
    <3> QED BY <1>b, <2>0, <3>1 DEF Exit
  <2> QED BY <2>1, <2>2
<1>8. CASE AuditArtifact
  BY <1>8, <1>a DEF AuditArtifact, is
<1>9. CASE LogEvents
  <2>1. CASE is("verify")
    <3>1. PICK ok \in BOOLEAN :
            /\ Log(events, ok)
            /\ IF ~ok THEN Exit("failed")
               ELSE IF is("audit") THEN Continue("report")
               ELSE Exit(ApplyEnforcement(Enforcement, violations))
      BY <1>9, Zenon DEF LogEvents
    <3>2. phase = "log" /\ UNCHANGED <<disk, cmd, pol, violations, events, bounds>>
      BY <1>9, Zenon DEF LogEvents
    <3>3. /\ exit = "running" /\ Len(events) = 1 /\ OfArtifact(events[1])
          /\ ~events[1].match => violations # <<>>
      BY <2>1, <3>2 DEF Phases, Verified
    <3>4. CASE ~ok
      BY <1>b, <2>1, <3>1, <3>2, <3>3, <3>4 DEF Exit
    <3>5. CASE ok
      <4>1. phase' = "idle" /\ exit' = ApplyEnforcement(Enforcement, violations)
              /\ log' = log \o events
        BY <2>1, <3>1, <3>5 DEF Exit, Log, is
      <4>2. events # <<>> /\ Last(events) = events[1]
        <5>1. events \in Seq(ToSet(events))
          BY Zenon DEF Types, IsSequence
        <5> QED BY <3>3, <5>1 DEF Last
      <4>3. log' # <<>> /\ Last(log') = events[1]
        <5>1. IsSequence(log) /\ IsSequence(events)
          BY Zenon DEF Types
        <5>2. /\ log \o events = <<>> <=> log = <<>> /\ events = <<>>
              /\ events # <<>> => Last(log \o events) = Last(events)
          BY <5>1, ConcatSequence, Zenon
        <5> QED BY <4>1, <4>2, <5>2, Zenon
      <4>4. OfArtifact(Last(log))'
        <5>1. \A e : OfArtifact(e) => OfArtifact(e)'
          BY <3>2, OfArtifactKept
        <5>2. OfArtifact(Last(events)) /\ Last(log)' = Last(events)
          BY <4>2, <4>3, <3>3, Zenon
        <5> QED BY <5>1, <5>2, SMT DEF OfArtifact, Listed, Base
      <4>5. Enforcement' = Enforcement
        BY <3>2, Zenon DEF Enforcement
      <4>6. exit' = "ok" /\ Enforcement' = "block" => Last(log').match
        BY <4>1, <4>3, <4>5, <3>3 DEF ApplyEnforcement
      <4> QED BY <4>1, <4>3, <4>4, <4>6 DEF Verified
    <3> QED BY <3>4, <3>5
  <2>2. CASE ~is("verify")
    BY <1>9, <2>2, <1>a DEF LogEvents
  <2> QED BY <2>1, <2>2
<1>10. CASE Fails
  BY <1>10, <1>a DEF Fails, Phases, is
<1>11. CASE PolicyCheck
  BY <1>11, <1>a DEF PolicyCheck, is
<1>12. CASE AuditTree
  BY <1>12, <1>a DEF AuditTree, is
<1>13. CASE ReportAudit
  BY <1>13, <1>a DEF ReportAudit, is
<1>14. CASE EvaluateCi
  BY <1>14, <1>a DEF EvaluateCi, is
<1>15. CASE ReportCi
  BY <1>15, <1>a DEF ReportCi, is
<1>16. ASSUME NEW path \in Paths, NEW content \in Contents \cup {NoFile},
              ChangeArtifact(path, content)
       PROVE  Verified'
  <2>1. UNCHANGED <<cmd, phase, pol, log, violations, events, exit>> /\ ~still'
    BY <1>16 DEF ChangeArtifact
  <2>2. \A e : OfArtifact(e) => OfArtifact(e)'
    BY <2>1, OfArtifactKept
  <2>3. Enforcement' = Enforcement
    BY <2>1, Zenon DEF Enforcement
  <2> QED BY <2>1, <2>2, <2>3 DEF Verified, is
<1>17. CASE UNCHANGED vars
  <2>1. UNCHANGED <<disk, cmd, phase, pol, log, violations, events, exit, still>>
    BY <1>17
  <2>2. \A e : OfArtifact(e) => OfArtifact(e)'
    BY <2>1, OfArtifactKept
  <2>3. Enforcement' = Enforcement
    BY <2>1, Zenon DEF Enforcement
  <2> QED BY <2>1, <2>2, <2>3 DEF Verified, is
<1> QED BY <1>0, <1>1, <1>2, <1>3, <1>4, <1>5, <1>6, <1>7, <1>8, <1>9, <1>10, <1>11, <1>12,
           <1>13, <1>14, <1>15, <1>16, <1>17, Zenon DEF Next, Step, AllDone

\* An artifact that the checksums file has the line of verifies.
LEMMA KeptVerifies ==
  ASSUME NEW path, InFile(path)
  PROVE  /\ Comparable(path)
         /\ BinaryEvent(path).match /\ BinaryEvent(path).pkg = Base(path)
         /\ BinaryViolations(path) = <<>>
<1> DEFINE text == sums
           entries == {k \in DOMAIN text : text[k].kind = "entry"}
           named == {k \in entries : text[k].name = Base(path)}
           last == Max(named)
<1>1. sums \in Seq(Line) /\ sums # NoFile /\ files[path] # NoFile
  BY Zenon DEF InFile
<1>2. PICK i \in DOMAIN sums :
        /\ sums[i].kind = "entry" /\ sums[i].name = Base(path) /\ sums[i].hash = files[path]
        /\ \A j \in (i + 1)..Len(sums) : sums[j].kind = "entry" => sums[j].name # Base(path)
  BY Zenon DEF InFile
<1>3. DOMAIN text = 1..Len(text) /\ Len(text) \in Nat
  BY <1>1
<1>4. i \in entries /\ i \in named
  BY <1>2, Zenon
<1>5. Base(path) \in {text[k].name : k \in entries}
  BY <1>2, <1>4, Zenon
<1>6. named \in SUBSET (0..Len(text)) /\ named # {}
  BY <1>3, <1>4
<1>7. last \in named /\ \A k \in named : last >= k
  BY <1>3, <1>6, GreatestNatural
<1>8. last = i
  <2> HIDE DEF last
  <2>1. last \in DOMAIN text /\ text[last].kind = "entry" /\ text[last].name = Base(path)
    BY <1>7, Zenon
  <2>2. last >= i
    BY <1>4, <1>7, Zenon
  <2>3. last \notin (i + 1)..Len(text)
    BY <1>2, <2>1, Zenon
  <2> QED BY <1>2, <1>3, <2>1, <2>2, <2>3
<1>9. /\ parseChecksums(sums)[Base(path)] = sums[i].hash
      /\ Base(path) \in DOMAIN parseChecksums(sums)
  BY <1>5, <1>8, Zenon DEF parseChecksums
<1>10. Comparable(path)
  BY <1>1, <1>9, Zenon DEF Comparable
<1>11. matched(path)
  BY <1>2, <1>9, Zenon DEF matched
<1>12. BinaryEvent(path).match = matched(path) /\ BinaryEvent(path).pkg = Base(path)
  BY DEF BinaryEvent, Event
<1> QED BY <1>10, <1>11, <1>12, Zenon DEF BinaryViolations, If

\* The lines of checksum are those of its files, and what it has kept is in the file;
\* so a verify of it is told that.
LEMMA StepKept == Types /\ Phases /\ Kept /\ [Next]_vars => Kept'
<1> SUFFICES ASSUME Types, Phases, Kept, [Next]_vars PROVE Kept'
  OBVIOUS
<1> USE DEF disk, listing, stage, reports, compared, bounds, vars, policyFile
<1>a. ASSUME UNCHANGED disk PROVE \A path \in kept' : InFile(path)'
  <2>1. \A path \in kept : InFile(path)
    BY Zenon DEF Kept
  <2>2. \A path : InFile(path) => InFile(path)'
    BY <1>a, Zenon DEF InFile, Base
  <2> QED BY <1>a, <2>1, <2>2, Zenon
<1>b. ASSUME UNCHANGED disk, phase' # "hash", cmd' = cmd, ~is("verify") PROVE Kept'
  BY <1>a, <1>b, Zenon DEF Kept, is
<1>0. ASSUME NEW c \in project.commands, Begin(c) PROVE Kept'
  <2>1. /\ UNCHANGED disk /\ phase' \in {"hash", "load"}
        /\ lines' = <<>> /\ hashed' = {}
    BY <1>0, Zenon DEF Begin
  <2>2. phase' \notin {"log", "idle"} /\ 1..Len(<<>>) = {}
    BY <2>1
  <2> QED BY <1>a, <2>1, <2>2, Zenon DEF Kept
<1>1. CASE LoadPolicy
  <2>1. /\ UNCHANGED <<disk, cmd>> /\ phase = "load"
        /\ \/ policyFile = Invalid /\ Exit("failed")
           \/ policyFile # Invalid /\ Exit("failed") /\ (is("stage verify") \/ is("audit"))
           \/ Continue(CASE is("stage verify") -> "read"
                         [] is("verify") -> "artifact"
                         [] is("audit") -> "tree"
                         [] OTHER -> "evaluate")
    BY <1>1, Zenon DEF LoadPolicy, Loaded
  <2>2. phase' \in {"idle", "read", "artifact", "tree", "evaluate"}
    BY <2>1 DEF Exit, Continue
  <2>3. CASE is("verify")
    <3>1. policyFile' # Invalid => phase' = "artifact"
      BY <2>1, <2>3 DEF Continue, is
    <3>2. phase' # "hash" /\ "artifact" \notin {"log", "idle"}
      BY <2>2
    <3> QED BY <1>a, <2>1, <3>1, <3>2, Zenon DEF Kept
  <2>4. CASE ~is("verify")
    BY <1>b, <2>1, <2>2, <2>4
  <2> QED BY <2>3, <2>4
<1>2. CASE ReadTarball
  <2>1. UNCHANGED <<disk, cmd>> /\ phase = "read" /\ phase' \in {"idle", "read", "check"}
    BY <1>2 DEF ReadTarball, Exit, Continue
  <2> QED BY <1>b, <2>1 DEF Phases, is
<1>3. CASE CheckStage
  BY <1>3, <1>b DEF CheckStage, Continue, Phases, is
<1>4. CASE ReportStage
  BY <1>4, <1>b DEF ReportStage, Exit, is
<1>5. CASE HashFile
  <2>0. /\ phase = "hash" /\ is("checksum") /\ UNCHANGED <<disk, cmd>>
        /\ Len(lines) < Len(cmd.paths)
    BY <1>5 DEF HashFile, Phases
  <2> DEFINE path == cmd.paths[Len(lines) + 1]
  <2>1. CASE files[path] = NoFile
    <3>1. phase' = "idle"
      BY <1>5, <2>1, Zenon DEF HashFile, Exit
    <3> QED BY <1>b, <2>0, <3>1 DEF is
  <2>2. CASE files[path] # NoFile
    <3>1. /\ lines' = Append(lines, Entry(files[path], Base(path)))
          /\ hashed' = hashed \cup {path}
      BY <1>5, <2>2, Zenon DEF HashFile
    <3>2. lines \in Seq(EntryLine) /\ cmd.paths \in Seq(Paths)
      BY <2>0, CmdIs DEF Types
    <3> DEFINE n == Len(lines) + 1
               e == Entry(files[path], Base(path))
    <3>3. e.name = Base(path) /\ e.hash = files[path]
      BY DEF Entry
    <3> HIDE DEF e
    <3>4. /\ Len(lines') = n /\ n \in Nat /\ n >= 1
          /\ lines'[n] = e /\ \A i \in 1..Len(lines) : lines'[i] = lines[i]
          /\ 1..n = 1..Len(lines) \cup {n}
      <4>1. lines' = Append(lines, e)
        BY <3>1, Zenon DEF e
      <4> DEFINE S == EntryLine \cup {e}
      <4>2. lines \in Seq(S) /\ e \in S
        BY <3>2, SeqMonotonic
      <4> HIDE DEF S, path
      <4> QED BY <4>1, <4>2
    <3>5. ASSUME NEW i \in 1..n PROVE lines'[i].name = Base(cmd.paths[i])
      <4>1. CASE i = n
        BY <3>3, <3>4, <4>1, Zenon
      <4>2. CASE i # n
        BY <2>0, <3>4, <3>5, <4>2, Zenon DEF Kept
      <4> QED BY <4>1, <4>2, Zenon
    <3>6. ASSUME NEW p \in hashed \cup {path}
          PROVE  /\ files[p] # NoFile
                 /\ \A i \in 1..n :
                      cmd.paths[i] = p /\ (\A j \in (i + 1)..n : cmd.paths[j] # p)
                        => lines'[i].hash = files[p]
      <4>1. CASE p = path
        <5>1. ASSUME NEW i \in 1..n, cmd.paths[i] = p, \A j \in (i + 1)..n : cmd.paths[j] # p
              PROVE  lines'[i].hash = files[p]
          <6>1. n \notin (i + 1)..n
            BY <4>1, <5>1, Zenon
          <6>2. i = n
            BY <3>4, <6>1
          <6> QED BY <3>3, <3>4, <4>1, <6>2, Zenon
        <5> QED BY <2>2, <4>1, <5>1, Zenon
      <4>2. CASE p # path
        <5>1. /\ p \in hashed
              /\ files[p] # NoFile
              /\ \A i \in 1..Len(lines) :
                   cmd.paths[i] = p /\ (\A j \in (i + 1)..Len(lines) : cmd.paths[j] # p)
                     => lines[i].hash = files[p]
          BY <2>0, <3>6, <4>2, Zenon DEF Kept, HashIsLast
        <5>2. ASSUME NEW i \in 1..n, cmd.paths[i] = p, \A j \in (i + 1)..n : cmd.paths[j] # p
              PROVE  lines'[i].hash = files[p]
          <6>1. i # n
            BY <4>2, <5>2, Zenon
          <6>2. i \in 1..Len(lines)
            BY <3>4, <6>1, Zenon
          <6>3. \A j \in (i + 1)..Len(lines) : j \in (i + 1)..n
            BY <3>2, <6>2
          <6> QED BY <3>4, <5>1, <5>2, <6>2, <6>3, Zenon
        <5> QED BY <5>1, <5>2, Zenon
      <4> QED BY <4>1, <4>2, Zenon
    <3>7. \A p \in hashed' : HashIsLast(p)'
      <4>1. Len(lines') = n /\ UNCHANGED <<files, cmd>> /\ hashed' = hashed \cup {path}
        BY <2>0, <3>1, <3>4, Zenon
      <4> HIDE DEF n, path
      <4> QED BY <3>6, <4>1, Zenon DEF HashIsLast
    <3>8. \A i \in 1..Len(lines') : lines'[i].name = Base(cmd'.paths[i])
      <4>1. Len(lines') = n /\ cmd' = cmd
        BY <2>0, <3>4, Zenon
      <4> HIDE DEF n, path
      <4> QED BY <3>5, <4>1, Zenon
    <3>9. ~is("verify")' /\ \A p \in kept' : InFile(p)'
      BY <1>a, <2>0 DEF is
    <3> QED BY <3>7, <3>8, <3>9, Zenon DEF Kept, Base
  <2> QED BY <2>1, <2>2, Zenon
<1>6. CASE WriteChecksums
  <2>0. /\ phase = "hash" /\ is("checksum") /\ UNCHANGED <<files, project, cmd>>
        /\ Len(lines) = Len(cmd.paths) /\ phase' = "idle"
    BY <1>6 DEF WriteChecksums, Phases, Exit
  <2>1. /\ \/ sums' = lines /\ kept' = {path \in hashed : LastOfName(path)}
           \/ kept' = {}
           \/ UNCHANGED <<sums, kept>>
    BY <1>6, Zenon DEF WriteChecksums
  <2>2. ~is("verify")' /\ phase' # "hash"
    BY <2>0 DEF is
  <2>3. CASE sums' = lines /\ kept' = {path \in hashed : LastOfName(path)}
    <3>1. lines \in Seq(EntryLine) /\ lines \in Seq(Line)
      BY LinesAre, Zenon DEF Types
    <3>2. ASSUME NEW path \in kept' PROVE InFile(path)'
      <4>1. path \in hashed /\ LastOfName(path)
        BY <2>3, <3>2, Zenon
      <4>2. PICK i \in DOMAIN cmd.paths :
              /\ cmd.paths[i] = path
              /\ \A j \in (i + 1)..Len(cmd.paths) : Base(cmd.paths[j]) # Base(path)
        BY <4>1, Zenon DEF LastOfName
      <4>3. DOMAIN lines = 1..Len(lines) /\ DOMAIN cmd.paths = 1..Len(lines) /\ Len(lines) \in Nat
        <5>1. cmd.paths \in Seq(Paths)
          BY <2>0, CmdIs, Zenon
        <5> QED BY <2>0, <3>1, <5>1
      <4>4. /\ files[path] # NoFile
            /\ lines[i].hash = files[path]
        <5>1. \A j \in (i + 1)..Len(lines) : cmd.paths[j] # path
          BY <2>0, <4>2, Zenon
        <5> QED BY <2>0, <4>1, <4>2, <4>3, <5>1, Zenon DEF Kept, HashIsLast
      <4>5. \A j \in 1..Len(lines) : lines[j].kind = "entry" /\ lines[j].name = Base(cmd.paths[j])
        <5>1. \A j \in 1..Len(lines) : lines[j] \in EntryLine
          BY <3>1
        <5>2. \A l \in EntryLine : l.kind = "entry"
          BY Zenon DEF EntryLine
        <5> QED BY <2>0, <5>1, <5>2, Zenon DEF Kept
      <4>6. \A j \in (i + 1)..Len(lines) : lines[j].name # Base(path)
        <5>1. \A j \in (i + 1)..Len(lines) : j \in 1..Len(lines)
          BY <4>3
        <5> QED BY <2>0, <4>2, <4>5, <5>1, Zenon
      <4>7. /\ i \in DOMAIN lines /\ lines[i].kind = "entry" /\ lines[i].name = Base(path)
            /\ lines[i].hash = files[path]
        BY <4>2, <4>3, <4>4, <4>5, Zenon
      <4>8. sums' \in Seq(Line) /\ sums' # NoFile
        BY <2>3, <3>1, NoFileAssumption, Zenon
      <4> QED BY <2>0, <2>3, <4>4, <4>6, <4>7, <4>8, Zenon DEF InFile, Base
    <3> QED BY <2>2, <3>2, Zenon DEF Kept
  <2>4. CASE kept' = {}
    BY <2>2, <2>4, Zenon DEF Kept
  <2>5. CASE UNCHANGED <<sums, kept>>
    BY <1>b, <2>0, <2>2, <2>5 DEF is
  <2> QED BY <2>1, <2>3, <2>4, <2>5, Zenon
<1>7. CASE VerifyArtifact
  <2>1. /\ UNCHANGED <<disk, cmd>> /\ phase' \in {"log", "idle"}
        /\ IF Comparable(cmd.path)
             THEN events' = <<BinaryEvent(cmd.path)>> /\ violations' = BinaryViolations(cmd.path)
             ELSE TRUE
    BY <1>7, Zenon DEF VerifyArtifact, Continue, Exit
  <2>2. phase' # "hash"
    BY <2>1
  <2>3. ASSUME cmd.path \in kept
        PROVE  /\ violations' = <<>> /\ Len(events') = 1
               /\ events'[1].match /\ events'[1].pkg = Base(cmd.path)
    <3>1. InFile(cmd.path)
      BY <2>3, Zenon DEF Kept
    <3>2. /\ events' = <<BinaryEvent(cmd.path)>> /\ violations' = <<>>
          /\ BinaryEvent(cmd.path).match /\ BinaryEvent(cmd.path).pkg = Base(cmd.path)
      BY <2>1, <3>1, KeptVerifies, SMT
    <3>3. Len(events') = 1 /\ events'[1] = BinaryEvent(cmd.path)
      BY <3>2, SingleSequence, Zenon
    <3> QED BY <3>2, <3>3, SMT
  <2> QED BY <1>a, <2>1, <2>2, <2>3, SMT DEF Kept, Base
<1>8. CASE AuditArtifact
  BY <1>8, <1>b DEF AuditArtifact, Continue, is
<1>9. CASE LogEvents
  <2>1. /\ phase = "log" /\ UNCHANGED <<disk, cmd, violations, events>>
        /\ phase' \in {"idle", "report"}
    BY <1>9 DEF LogEvents, Exit, Continue
  <2>2. phase' # "hash" /\ phase \in {"log", "idle"}
    BY <2>1
  <2> QED BY <1>a, <2>1, <2>2, SMT DEF Kept, Base, is
<1>10. CASE Fails
  BY <1>10, <1>b DEF Fails, Exit, Phases, is
<1>11. CASE PolicyCheck
  BY <1>11, <1>b DEF PolicyCheck, Exit, is
<1>12. CASE AuditTree
  BY <1>12, <1>b DEF AuditTree, Continue, is
<1>13. CASE ReportAudit
  BY <1>13, <1>b DEF ReportAudit, Exit, is
<1>14. CASE EvaluateCi
  <2>1. UNCHANGED <<disk, cmd>> /\ is("ci") /\ phase' \in {"idle", "tree"}
    BY <1>14 DEF EvaluateCi, Exit, Continue
  <2> QED BY <1>b, <2>1 DEF is
<1>15. CASE ReportCi
  <2>1. UNCHANGED <<disk, cmd>> /\ is("ci") /\ phase' = "idle"
    BY <1>15, ZenonT(30) DEF ReportCi, Exit
  <2> QED BY <1>b, <2>1 DEF is
<1>16. ASSUME NEW path \in Paths, NEW content \in Contents \cup {NoFile},
              ChangeArtifact(path, content)
       PROVE  Kept'
  <2>1. /\ UNCHANGED <<cmd, phase, lines, sums, project, violations, events>>
        /\ hashed' = hashed \ {path} /\ kept' = kept \ {path}
        /\ files' = [files EXCEPT ![path] = content]
    BY <1>16, Zenon DEF ChangeArtifact
  <2>2. \A p : p # path /\ p \in Paths => files'[p] = files[p]
    BY <2>1 DEF Types
  <2>3. \A p \in kept' : InFile(p)'
    <3> SUFFICES ASSUME NEW p \in kept' PROVE InFile(p)'
      BY Zenon
    <3>1. p \in kept /\ files'[p] = files[p] /\ sums' = sums
      BY <2>1, <2>2 DEF Types
    <3>2. InFile(p)
      BY <3>1, Zenon DEF Kept
    <3> QED BY <3>1, <3>2, Zenon DEF InFile, Base
  <2>4. phase = "hash" => \A p \in hashed' : HashIsLast(p)'
    <3> SUFFICES ASSUME phase = "hash", NEW p \in hashed' PROVE HashIsLast(p)'
      BY Zenon
    <3>1. p \in hashed /\ files'[p] = files[p] /\ lines' = lines /\ cmd' = cmd
      BY <2>1, <2>2 DEF Types
    <3>2. HashIsLast(p)
      BY <3>1, Zenon DEF Kept
    <3> QED BY <3>1, <3>2, Zenon DEF HashIsLast
  <2>5. cmd.path \in kept' => cmd.path \in kept
    BY <2>1, Zenon
  <2> QED BY <2>1, <2>3, <2>4, <2>5, SMT DEF Kept, Base, is
<1>17. CASE UNCHANGED vars
  <2>1. UNCHANGED <<disk, cmd, phase, lines, hashed, violations, events>>
    BY <1>17
  <2>2. \A p : HashIsLast(p) => HashIsLast(p)'
    BY <2>1, Zenon DEF HashIsLast
  <2> QED BY <1>a, <2>1, <2>2, SMT DEF Kept, Base, is
<1> QED BY <1>0, <1>1, <1>2, <1>3, <1>4, <1>5, <1>6, <1>7, <1>8, <1>9, <1>10, <1>11, <1>12,
           <1>13, <1>14, <1>15, <1>16, <1>17, Zenon DEF Next, Step, AllDone

\* The same as of verify, of audit: AuditTree adds only events about packages.
LEMMA StepAudited == Types /\ Phases /\ Audited /\ [Next]_vars => Audited'
<1> SUFFICES ASSUME Types, Phases, Audited, [Next]_vars PROVE Audited'
  OBVIOUS
<1> USE DEF disk, listing, stage, reports, compared, bounds, vars, policyFile
<1>a. ASSUME ~is("audit"), cmd' = cmd PROVE Audited'
  BY <1>a DEF Audited, is
<1>b. ASSUME cmd' = cmd, events' = events, violations' = violations, exit' # "ok",
             (sums' = sums /\ files' = files /\ still' = still) \/ ~still',
             phase \in {"log", "report", "idle"} => phase' \in {"log", "report", "idle"},
             phase' # "load"
      PROVE  Audited'
  <2>1. \A e : OfArtifact(e) => OfArtifact(e)'
    BY <1>b, OfArtifactKept
  <2> QED BY <1>b, <2>1 DEF Audited, is
<1>0. ASSUME NEW c \in project.commands, Begin(c) PROVE Audited'
  <2>1. events' = <<>> /\ exit' = "running" /\ ToSet(events') = {}
    BY <1>0, EmptySequence DEF Begin
  <2> QED BY <2>1 DEF Audited
<1>1. CASE LoadPolicy
  <2>1. /\ UNCHANGED <<disk, cmd, events, violations, bounds>> /\ phase = "load"
        /\ Exit("failed") \/ Continue(CASE is("stage verify") -> "read"
                                        [] is("verify") -> "artifact"
                                        [] is("audit") -> "tree"
                                        [] OTHER -> "evaluate")
    BY <1>1, Zenon DEF LoadPolicy, Loaded
  <2>2. exit = "running"
    BY <2>1 DEF Phases
  <2>3. exit' # "ok" /\ phase' # "load"
    BY <2>1, <2>2 DEF Exit, Continue
  <2> QED BY <1>b, <2>1, <2>3
<1>2. CASE ReadTarball
  BY <1>2, <1>a DEF ReadTarball, Phases, is
<1>3. CASE CheckStage
  BY <1>3, <1>a DEF CheckStage, Phases, is
<1>4. CASE ReportStage
  BY <1>4, <1>a DEF ReportStage, is
<1>5. CASE HashFile
  BY <1>5, <1>a DEF HashFile, Phases, is
<1>6. CASE WriteChecksums
  BY <1>6, <1>a DEF WriteChecksums, Phases, is
<1>7. CASE VerifyArtifact
  BY <1>7, <1>a DEF VerifyArtifact, is
<1>8. CASE AuditArtifact
  <2>0. /\ phase = "artifact" /\ is("audit") /\ phase' = "log" /\ exit' = exit
        /\ UNCHANGED <<disk, cmd, bounds>>
    BY <1>8, Zenon DEF AuditArtifact, Continue
  <2>1. exit = "running" /\ \A e \in ToSet(events) : e.event # "binary_verify"
    BY <2>0 DEF Phases, Audited
  <2>2. CASE Comparable(cmd.path)
    <3> DEFINE b == BinaryEvent(cmd.path)
    <3>1. events' = Append(events, b) /\ violations' = violations \o BinaryViolations(cmd.path)
      BY <1>8, <2>2, Zenon DEF AuditArtifact
    <3>2. OfArtifact(b)
      BY <2>0, <2>2, ComparedIsListed
    <3>3. OfArtifact(b)'
      <4>1. \A e : OfArtifact(e) => OfArtifact(e)'
        BY <2>0, OfArtifactKept
      <4>2. b' = b
        BY <2>0, Zenon DEF BinaryEvent, Event, matched
      <4> QED BY <3>2, <4>1, <4>2, SMT DEF OfArtifact, Listed, Base
    <3>4. ToSet(events') = ToSet(events) \cup {b}
      <4>1. IsSequence(events)
        BY Zenon DEF Types
      <4>2. Append(events, b) = events \o <<b>>
        <5> DEFINE S == ToSet(events) \cup {b}
        <5>1. events \in Seq(S) /\ b \in S
          BY <4>1, SeqMonotonic DEF IsSequence
        <5> HIDE DEF S, b
        <5> QED BY <5>1, AppendIsConcat, Zenon
      <4>3. IsSequence(<<b>>) /\ ToSet(<<b>>) = {b}
        BY SingleSequence, Zenon
      <4>4. ToSet(events \o <<b>>) = ToSet(events) \cup {b}
        BY <4>1, <4>3, ConcatSequence
      <4> QED BY <3>1, <4>2, <4>4, Zenon
    <3>5. ~b.match => violations' # <<>>
      <4>1. ASSUME ~b.match PROVE violations' # <<>>
        <5>1. IsSequence(violations) /\ IsSequence(BinaryViolations(cmd.path))
                /\ BinaryViolations(cmd.path) # <<>>
          BY <4>1, MismatchIsViolation, EventsSequences, Zenon DEF Types
        <5>2. violations \o BinaryViolations(cmd.path) # <<>>
          BY <5>1, ConcatSequence
        <5> QED BY <3>1, <5>2, Zenon
      <4> QED BY <4>1
    <3>6. b' = b
      BY <2>0, Zenon DEF BinaryEvent, Event, matched
    <3>7. \A e \in ToSet(events') : e.event = "binary_verify" => e = b
      BY <2>1, <3>4
    <3>8. \A e : OfArtifact(e) => OfArtifact(e)'
      BY <2>0, OfArtifactKept
    <3> HIDE DEF b
    <3> QED BY <2>0, <2>1, <3>2, <3>5, <3>7, <3>8 DEF Audited
  <2>3. CASE ~Comparable(cmd.path)
    <3>1. events' = events /\ violations' = violations
      BY <1>8, <2>3, Zenon DEF AuditArtifact
    <3> QED BY <2>0, <2>1, <3>1 DEF Audited
  <2> QED BY <2>2, <2>3
<1>9. CASE LogEvents
  <2>1. CASE is("audit")
    <3>1. /\ phase = "log" /\ UNCHANGED <<disk, cmd, pol, violations, events, bounds>>
          /\ Exit("failed") \/ Continue("report")
      BY <1>9, <2>1, Zenon DEF LogEvents
    <3>2. exit = "running"
      BY <3>1 DEF Phases
    <3>3. exit' # "ok" /\ phase' \in {"idle", "report"}
      BY <3>1, <3>2 DEF Exit, Continue
    <3> QED BY <1>b, <3>1, <3>3
  <2>2. CASE ~is("audit")
    BY <1>9, <2>2, <1>a DEF LogEvents
  <2> QED BY <2>1, <2>2
<1>10. CASE Fails
  BY <1>10, <1>b DEF Fails, Exit
<1>11. CASE PolicyCheck
  BY <1>11, <1>a DEF PolicyCheck, is
<1>12. CASE AuditTree
  <2>1. PICK outcomes : events' = OfTree(TreeEvent, outcomes)
    BY <1>12, AuditTreeIs, Zenon DEF TreeEvents, OfTree
  <2>2. \A e \in ToSet(events') : e.event # "binary_verify"
    BY <2>1, TreeEventsAre, Zenon
  <2>3. phase = "tree" /\ phase' = "artifact" /\ exit' = exit
    BY <1>12, Zenon DEF AuditTree, Continue
  <2>4. exit = "running"
    BY <2>3 DEF Phases
  <2> QED BY <2>2, <2>3, <2>4 DEF Audited
<1>13. CASE ReportAudit
  <2>1. /\ phase = "report" /\ phase' = "idle" /\ is("audit")
        /\ exit' = ApplyEnforcement(Enforcement, violations)
        /\ UNCHANGED <<disk, cmd, pol, violations, events, bounds>>
    BY <1>13, Zenon DEF ReportAudit, Exit
  <2>2. \A e : OfArtifact(e) => OfArtifact(e)'
    BY <2>1, OfArtifactKept
  <2>3. Enforcement' = Enforcement
    BY <2>1, Zenon DEF Enforcement
  <2>4. exit' = "ok" /\ Enforcement = "block" => violations = <<>>
    BY <2>1 DEF ApplyEnforcement
  <2> QED BY <2>1, <2>2, <2>3, <2>4 DEF Audited, is
<1>14. CASE EvaluateCi
  BY <1>14, <1>a DEF EvaluateCi, is
<1>15. CASE ReportCi
  BY <1>15, <1>a DEF ReportCi, is
<1>16. ASSUME NEW path \in Paths, NEW content \in Contents \cup {NoFile},
              ChangeArtifact(path, content)
       PROVE  Audited'
  <2>1. UNCHANGED <<cmd, phase, pol, violations, events, exit>> /\ ~still'
    BY <1>16 DEF ChangeArtifact
  <2>2. \A e : OfArtifact(e) => OfArtifact(e)'
    BY <2>1, OfArtifactKept
  <2>3. Enforcement' = Enforcement
    BY <2>1, Zenon DEF Enforcement
  <2> QED BY <2>1, <2>2, <2>3 DEF Audited, is
<1>17. CASE UNCHANGED vars
  <2>1. UNCHANGED <<disk, cmd, phase, pol, violations, events, exit, still>>
    BY <1>17
  <2>2. \A e : OfArtifact(e) => OfArtifact(e)'
    BY <2>1, OfArtifactKept
  <2>3. Enforcement' = Enforcement
    BY <2>1, Zenon DEF Enforcement
  <2> QED BY <2>1, <2>2, <2>3 DEF Audited, is
<1> QED BY <1>0, <1>1, <1>2, <1>3, <1>4, <1>5, <1>6, <1>7, <1>8, <1>9, <1>10, <1>11, <1>12,
           <1>13, <1>14, <1>15, <1>16, <1>17, Zenon DEF Next, Step, AllDone

\* The same of policy check: what the scorer adds says nothing of names.
LEMMA StepRuled == Types /\ Phases /\ Ruled /\ [Next]_vars => Ruled'
<1> SUFFICES ASSUME Types, Phases, Ruled, [Next]_vars PROVE Ruled'
  OBVIOUS
<1> USE DEF disk, listing, stage, reports, compared, bounds, vars, policyFile
<1>a. ASSUME ~is("policy check"), cmd' = cmd PROVE Ruled'
  BY <1>a DEF Ruled, is
<1>b. ASSUME phase # "idle", cmd' = cmd, violations' = violations, exit' # "ok"
      PROVE  Ruled'
  BY <1>b DEF Ruled, is
<1>0. ASSUME NEW c \in project.commands, Begin(c) PROVE Ruled'
  BY <1>0 DEF Begin, Ruled
<1>1. CASE LoadPolicy
  <2>1. /\ cmd' = cmd /\ phase = "load" /\ violations' = violations
        /\ Exit("failed") \/ Continue(CASE is("stage verify") -> "read"
                                        [] is("verify") -> "artifact"
                                        [] is("audit") -> "tree"
                                        [] OTHER -> "evaluate")
    BY <1>1, Zenon DEF LoadPolicy, Loaded
  <2>2. exit = "running"
    BY <2>1 DEF Phases
  <2>3. exit' # "ok"
    BY <2>1, <2>2 DEF Exit, Continue
  <2> QED BY <1>b, <2>1, <2>3
<1>2. CASE ReadTarball
  BY <1>2, <1>a DEF ReadTarball, Phases, is
<1>3. CASE CheckStage
  BY <1>3, <1>a DEF CheckStage, Phases, is
<1>4. CASE ReportStage
  BY <1>4, <1>a DEF ReportStage, is
<1>5. CASE HashFile
  BY <1>5, <1>a DEF HashFile, Phases, is
<1>6. CASE WriteChecksums
  BY <1>6, <1>a DEF WriteChecksums, Phases, is
<1>7. CASE VerifyArtifact
  BY <1>7, <1>a DEF VerifyArtifact, is
<1>8. CASE AuditArtifact
  BY <1>8, <1>a DEF AuditArtifact, is
<1>9. CASE LogEvents
  BY <1>9, <1>a DEF LogEvents, Phases, is
<1>10. CASE Fails
  BY <1>10, <1>b DEF Fails, Exit
<1>11. CASE PolicyCheck
  <2> DEFINE found_ == Evaluate(pol, cmd.nodes)
  <2>0. is("policy check") /\ cmd' = cmd /\ pol' = pol /\ phase' = "idle"
    BY <1>11, Zenon DEF PolicyCheck, Exit
  <2>1. cmd.nodes \in Seq(Installed)
    BY <2>0, CmdIs
  <2>2. PICK s : ScoredWell(s) /\ violations' = found_ \o s.violations
    BY <1>11, PolicyCheckIs, Zenon
  <2> HIDE DEF found_
  <2> DEFINE scored == s.violations
  <2>3. violations' = found_ \o scored
    BY <2>2, Zenon
  <2>4. /\ IsSequence(scored)
        /\ \A v \in ToSet(scored) : v.reason \in {"trust_score", "hash_required"}
    BY <2>2, Zenon DEF ScoredWell
  <2> HIDE DEF scored
  <2>5. IsSequence(found_)
    BY <2>1, EvaluateSequence DEF found_
  <2>6. ToSet(violations') = ToSet(found_) \cup ToSet(scored)
    BY <2>3, <2>4, <2>5, ConcatSequence, Zenon
  <2>7. ASSUME NEW name, NEW reason \in {"denylist_match", "not_in_allowlist"}
        PROVE  Rejected(violations', name, reason) <=> Rejected(found_, name, reason)
    BY <2>4, <2>6 DEF Rejected
  <2>8. ASSUME NEW i \in DOMAIN cmd.nodes
        PROVE  /\ Rejected(found_, cmd.nodes[i].name, "denylist_match")
                    <=> pol.mode = "denylist" /\ matchesAllow(pol.deny, cmd.nodes[i].name)
               /\ Rejected(found_, cmd.nodes[i].name, "not_in_allowlist")
                    <=> pol.mode = "allowlist" /\ ~matchesAllow(pol.allow, cmd.nodes[i].name)
    BY <2>1, EvaluateRejects, Zenon DEF found_
  <2> QED BY <2>0, <2>7, <2>8 DEF Ruled, is
<1>12. CASE AuditTree
  BY <1>12, <1>a DEF AuditTree, is
<1>13. CASE ReportAudit
  BY <1>13, <1>a DEF ReportAudit, is
<1>14. CASE EvaluateCi
  BY <1>14, <1>a DEF EvaluateCi, is
<1>15. CASE ReportCi
  BY <1>15, <1>a DEF ReportCi, is
<1>16. ASSUME NEW path \in Paths, NEW content \in Contents \cup {NoFile},
              ChangeArtifact(path, content)
       PROVE  Ruled'
  <2>1. UNCHANGED <<cmd, phase, pol, violations, exit>>
    BY <1>16, Zenon DEF ChangeArtifact
  <2> QED BY <2>1, Zenon DEF Ruled, is
<1>17. CASE UNCHANGED vars
  <2>1. UNCHANGED <<cmd, phase, pol, violations, exit>>
    BY <1>17
  <2> QED BY <2>1, Zenon DEF Ruled, is
<1> QED BY <1>0, <1>1, <1>2, <1>3, <1>4, <1>5, <1>6, <1>7, <1>8, <1>9, <1>10, <1>11, <1>12,
           <1>13, <1>14, <1>15, <1>16, <1>17, Zenon DEF Next, Step, AllDone

-----------------------------------------------------------------------------
(* What the reports tell of a run. *)

\* No report is written before the end of a command; and there is no tree before
\* it is looked at.
Fresh ==
  /\ phase # "idle" => sarif = NoReport /\ json = NoReport /\ markdown = NoReport
  /\ phase \in {"load", "evaluate"} => tree = <<>>

\* What an audit has found: that of the tree, of the scorer and of the artifact.
AuditFound ==
  is("audit") /\ phase \in {"artifact", "log", "report"} =>
    /\ tree \in [DOMAIN Packages -> Outcome]
    /\ \E signed \in BOOLEAN : \E s, des, dvs :
         /\ ScoredWell(s) /\ scores = s.scores
         /\ phase = "artifact" => des = <<>> /\ dvs = <<>>
         /\ Compared(cmd.path, des, dvs)
         /\ events = TreeEvents(tree) \o des
         /\ violations = TreeViolations(signed, tree) \o s.violations \o dvs

\* ReportsTell, a report each.
SarifTold ==
  sarif # NoReport =>
    /\ SarifOf(sarif, violations)
    /\ is("audit") \/ is("ci") =>
         \A i \in DOMAIN violations : LocatedIn(sarif, i, violations[i].pkg)
    /\ ~is("ci") => (sarif.executionSuccessful <=> violations = <<>>)

JsonTold ==
  json # NoReport =>
    /\ json.passed <=> json.violations = <<>>
    /\ ToSet(json.violations) =
         IF tree = <<>> THEN ToSet(violations)
         ELSE {v \in ToSet(violations) : v.rule[1] \in {"lockfile", "lockfile_signature"}}
    /\ tree # <<>> => JsonOf(json, tree)

MarkdownTold == markdown # NoReport => MarkdownOf(markdown, tree, violations)

Told == SarifTold /\ JsonTold /\ MarkdownTold

\* Every action keeps what is there before the reports,
LEMMA StepFresh == Types /\ Phases /\ Fresh /\ [Next]_vars => Fresh'
<1> SUFFICES ASSUME Types, Phases, Fresh, [Next]_vars PROVE Fresh'
  OBVIOUS
<1> USE DEF disk, listing, stage, reports, compared, bounds, vars, policyFile
<1>a. ASSUME phase # "idle", UNCHANGED reports, phase' \notin {"load", "evaluate"}
      PROVE  Fresh'
  BY <1>a DEF Fresh
<1>b. ASSUME phase' = "idle" PROVE Fresh'
  BY <1>b DEF Fresh
<1>0. ASSUME NEW c \in project.commands, Begin(c) PROVE Fresh'
  BY <1>0 DEF Begin, Fresh
<1>1. CASE LoadPolicy
  <2>1. UNCHANGED <<reports, compared>> /\ phase = "load"
    BY <1>1, Zenon DEF LoadPolicy
  <2> QED BY <2>1 DEF Fresh
<1>2. CASE ReadTarball
  <2>1. UNCHANGED reports /\ phase = "read" /\ phase' \in {"idle", "read", "check"}
    BY <1>2 DEF ReadTarball, Exit, Continue
  <2> QED BY <1>a, <2>1
<1>3. CASE CheckStage
  BY <1>3, <1>a DEF CheckStage, Continue
<1>4. CASE ReportStage
  BY <1>4, <1>b, Zenon DEF ReportStage, Exit
<1>5. CASE HashFile
  <2>1. UNCHANGED reports /\ phase = "hash" /\ phase' \in {"idle", "hash"}
    BY <1>5 DEF HashFile, Exit, Continue
  <2> QED BY <1>a, <2>1
<1>6. CASE WriteChecksums
  BY <1>6, <1>b, Zenon DEF WriteChecksums, Exit
<1>7. CASE VerifyArtifact
  <2>1. UNCHANGED reports /\ phase = "artifact" /\ phase' \in {"idle", "log"}
    BY <1>7 DEF VerifyArtifact, Exit, Continue
  <2> QED BY <1>a, <2>1
<1>8. CASE AuditArtifact
  BY <1>8, <1>a DEF AuditArtifact, Continue
<1>9. CASE LogEvents
  <2>1. UNCHANGED reports /\ phase = "log" /\ phase' \in {"idle", "report"}
    BY <1>9 DEF LogEvents, Exit, Continue
  <2> QED BY <1>a, <2>1
<1>10. CASE Fails
  BY <1>10, <1>b, Zenon DEF Fails, Exit
<1>11. CASE PolicyCheck
  BY <1>11, <1>b, Zenon DEF PolicyCheck, Exit
<1>12. CASE AuditTree
  <2>1. UNCHANGED reports /\ phase = "tree" /\ phase' = "artifact"
    BY <1>12, Zenon DEF AuditTree, Continue
  <2> QED BY <1>a, <2>1
<1>13. CASE ReportAudit
  BY <1>13, <1>b, Zenon DEF ReportAudit, Exit
<1>14. CASE EvaluateCi
  <2>1. CASE phase' = "idle"
    BY <2>1, <1>b
  <2>2. CASE phase' # "idle"
    <3>1. phase = "evaluate" /\ phase' = "tree" /\ UNCHANGED reports
      BY <1>14, <2>2, Zenon DEF EvaluateCi, Exit, Continue
    <3> QED BY <1>a, <3>1
  <2> QED BY <2>1, <2>2
<1>15. CASE ReportCi
  BY <1>15, <1>b, Zenon DEF ReportCi, Exit
<1>16. ASSUME NEW path \in Paths, NEW content \in Contents \cup {NoFile},
              ChangeArtifact(path, content)
       PROVE  Fresh'
  BY <1>16, Zenon DEF ChangeArtifact, Fresh
<1>17. CASE UNCHANGED vars
  BY <1>17 DEF Fresh
<1> QED BY <1>0, <1>1, <1>2, <1>3, <1>4, <1>5, <1>6, <1>7, <1>8, <1>9, <1>10, <1>11, <1>12,
           <1>13, <1>14, <1>15, <1>16, <1>17, Zenon DEF Next, Step, AllDone

\* Nothing more is no change.
LEMMA NothingMore ==
  ASSUME NEW s, IsSequence(s)
  PROVE  s \o <<>> = s
BY ConcatEmptySeq, Zenon DEF IsSequence

\* and what an audit has found.
LEMMA StepFound == Types /\ Phases /\ AuditFound /\ [Next]_vars => AuditFound'
<1> SUFFICES ASSUME Types, Phases, AuditFound, [Next]_vars PROVE AuditFound'
  OBVIOUS
<1> USE DEF disk, listing, stage, reports, compared, bounds, vars, policyFile
<1>a. ASSUME ~is("audit"), cmd' = cmd PROVE AuditFound'
  BY <1>a, Zenon DEF AuditFound, is
<1>b. ASSUME phase' \notin {"artifact", "log", "report"} PROVE AuditFound'
  BY <1>b, Zenon DEF AuditFound
<1>c. ASSUME UNCHANGED <<cmd, pol, compared, events, violations>>,
             phase \in {"artifact", "log", "report"}, phase' = "artifact" => phase = "artifact"
      PROVE  AuditFound'
  <2> SUFFICES ASSUME is("audit")
               PROVE  AuditFound'
    BY <1>a, <1>c, Zenon
  <2> DEFINE P(signed, s, des, dvs) ==
               /\ ScoredWell(s) /\ scores = s.scores
               /\ phase = "artifact" => des = <<>> /\ dvs = <<>>
               /\ Compared(cmd.path, des, dvs)
               /\ events = TreeEvents(tree) \o des
               /\ violations = TreeViolations(signed, tree) \o s.violations \o dvs
  <2>0. PICK signed \in BOOLEAN : \E s, des, dvs : P(signed, s, des, dvs)
    BY <1>c, Zenon DEF AuditFound
  <2>1. PICK s, des, dvs : P(signed, s, des, dvs)
    BY <2>0, Zenon
  <2>3. tree' \in [DOMAIN Packages -> Outcome]
    BY <1>c, Zenon DEF AuditFound
  <2>4. /\ ScoredWell(s) /\ scores' = s.scores
        /\ phase' = "artifact" => des = <<>> /\ dvs = <<>>
        /\ Compared(cmd'.path, des, dvs)
        /\ events' = TreeEvents(tree') \o des
        /\ violations' = TreeViolations(signed, tree') \o s.violations \o dvs
    BY <1>c, <2>1, Zenon
  <2> QED BY <2>3, <2>4, Zenon DEF AuditFound
<1>0. ASSUME NEW c \in project.commands, Begin(c) PROVE AuditFound'
  <2>1. phase' \in {"hash", "load"}
    BY <1>0 DEF Begin
  <2> QED BY <2>1, <1>b
<1>1. CASE LoadPolicy
  <2>1. /\ cmd' = cmd
        /\ Exit("failed") \/ Continue(CASE is("stage verify") -> "read"
                                        [] is("verify") -> "artifact"
                                        [] is("audit") -> "tree"
                                        [] OTHER -> "evaluate")
    BY <1>1, Zenon DEF LoadPolicy, Loaded
  <2>2. is("audit") => phase' \notin {"artifact", "log", "report"}
    BY <2>1 DEF Exit, Continue, is
  <2> QED BY <1>a, <1>b, <2>1, <2>2, Zenon
<1>2. CASE ReadTarball
  BY <1>2, <1>a DEF ReadTarball, Phases, is
<1>3. CASE CheckStage
  BY <1>3, <1>a DEF CheckStage, Phases, is
<1>4. CASE ReportStage
  BY <1>4, <1>a DEF ReportStage, is
<1>5. CASE HashFile
  BY <1>5, <1>a DEF HashFile, Phases, is
<1>6. CASE WriteChecksums
  BY <1>6, <1>a DEF WriteChecksums, Phases, is
<1>7. CASE VerifyArtifact
  BY <1>7, <1>a DEF VerifyArtifact, is
<1>8. CASE AuditArtifact
  <2>0. /\ phase = "artifact" /\ is("audit") /\ phase' = "log"
        /\ UNCHANGED <<disk, cmd, pol, compared, bounds>>
    BY <1>8, Zenon DEF AuditArtifact, Continue
  <2>1. CASE Comparable(cmd.path)
    <3> DEFINE b == BinaryEvent(cmd.path)
               bs == BinaryViolations(cmd.path)
    <3>1. events' = Append(events, b) /\ violations' = violations \o bs
      BY <1>8, <2>1, Zenon DEF AuditArtifact
    <3>2. Compared(cmd.path, <<b>>, bs)
      <4>1. matched(cmd.path) \in BOOLEAN
        BY Zenon DEF matched
      <4> QED BY <4>1, Zenon DEF Compared, BinaryEvent, BinaryViolations
    <3>3. IsSequence(events) /\ IsSequence(violations)
      BY DEF Types
    <3>4. Append(events, b) = events \o <<b>>
      <4> DEFINE S == ToSet(events) \cup {b}
      <4>1. events \in Seq(S) /\ b \in S
        BY <3>3, SeqMonotonic DEF IsSequence
      <4> HIDE DEF S, b
      <4> QED BY <4>1, AppendIsConcat, Zenon
    <3> HIDE DEF b, bs
    <3>a. PICK signed \in BOOLEAN : \E s :
            /\ ScoredWell(s) /\ scores = s.scores
            /\ events = TreeEvents(tree) \o <<>>
            /\ violations = TreeViolations(signed, tree) \o s.violations \o <<>>
      BY <2>0, Zenon DEF AuditFound
    <3>5. PICK s :
            /\ ScoredWell(s) /\ scores = s.scores
            /\ events = TreeEvents(tree) \o <<>>
            /\ violations = TreeViolations(signed, tree) \o s.violations \o <<>>
      BY <3>a, Zenon
    <3>6. tree \in [DOMAIN Packages -> Outcome]
      BY <2>0, Zenon DEF AuditFound
    <3>7. /\ events = TreeEvents(tree)
          /\ violations = TreeViolations(signed, tree) \o s.violations
      <4>1. IsSequence(TreeEvents(tree))
        BY TreeEventsElements, Zenon
      <4>2. IsSequence(TreeViolations(signed, tree)) /\ IsSequence(s.violations)
        BY <3>5, <3>6, TreeFaultsAre, Zenon DEF ScoredWell
      <4>3. IsSequence(TreeViolations(signed, tree) \o s.violations)
        BY <4>2, ConcatSequence, Zenon
      <4> QED BY <3>5, <4>1, <4>3, NothingMore, Zenon
    <3>8. /\ events' = TreeEvents(tree') \o <<b>>
          /\ violations' = TreeViolations(signed, tree') \o s.violations \o bs
          /\ ScoredWell(s) /\ scores' = s.scores
      BY <2>0, <3>1, <3>4, <3>5, <3>7, Zenon
    <3>9. /\ tree' \in [DOMAIN Packages -> Outcome] /\ Compared(cmd'.path, <<b>>, bs)
          /\ phase' # "artifact"
      BY <2>0, <3>2, <3>6, Zenon
    <3> QED BY <3>8, <3>9, Zenon DEF AuditFound
  <2>2. CASE ~Comparable(cmd.path)
    <3>1. UNCHANGED <<violations, events>>
      BY <1>8, <2>2, Zenon DEF AuditArtifact
    <3> QED BY <1>c, <2>0, <3>1
  <2> QED BY <2>1, <2>2
<1>9. CASE LogEvents
  <2>1. /\ phase = "log" /\ UNCHANGED <<cmd, pol, compared, events, violations>>
        /\ phase' \in {"idle", "report"}
    BY <1>9 DEF LogEvents, Exit, Continue
  <2> QED BY <1>c, <2>1
<1>10. CASE Fails
  BY <1>10, <1>b DEF Fails, Exit
<1>11. CASE PolicyCheck
  BY <1>11, <1>a DEF PolicyCheck, is
<1>12. CASE AuditTree
  <2>0. is("audit") /\ cmd' = cmd /\ pol' = pol /\ phase' = "artifact"
    BY <1>12, Zenon DEF AuditTree, Continue
  <2>1. PICK outcomes \in [DOMAIN Packages -> Outcome], signed \in BOOLEAN :
          \E s : /\ ScoredWell(s)
                 /\ violations' = TreeViolations(signed, outcomes) \o s.violations
                 /\ events' = TreeEvents(outcomes)
                 /\ scores' = s.scores
                 /\ tree' = outcomes
    BY <1>12, AuditTreeIs, Zenon
  <2>2. PICK s : /\ ScoredWell(s)
                 /\ violations' = TreeViolations(signed, outcomes) \o s.violations
                 /\ events' = TreeEvents(outcomes)
                 /\ scores' = s.scores
                 /\ tree' = outcomes
    BY <2>1, Zenon
  <2>3. /\ IsSequence(TreeEvents(outcomes))
        /\ IsSequence(TreeViolations(signed, outcomes)) /\ IsSequence(s.violations)
    BY <2>2, TreeEventsElements, TreeFaultsAre, Zenon DEF ScoredWell
  <2>4. IsSequence(TreeViolations(signed, outcomes) \o s.violations)
    BY <2>3, ConcatSequence, Zenon
  <2>5. /\ events' = TreeEvents(tree') \o <<>>
        /\ violations' = TreeViolations(signed, tree') \o s.violations \o <<>>
    BY <2>2, <2>3, <2>4, NothingMore, Zenon
  <2>6. tree' \in [DOMAIN Packages -> Outcome] /\ Compared(cmd'.path, <<>>, <<>>)
    BY <2>2, Zenon DEF Compared
  <2> QED BY <2>2, <2>5, <2>6, Zenon DEF AuditFound
<1>13. CASE ReportAudit
  BY <1>13, <1>b, Zenon DEF ReportAudit, Exit
<1>14. CASE EvaluateCi
  BY <1>14, <1>a DEF EvaluateCi, is
<1>15. CASE ReportCi
  BY <1>15, <1>a DEF ReportCi, is
<1>16. ASSUME NEW path \in Paths, NEW content \in Contents \cup {NoFile},
              ChangeArtifact(path, content)
       PROVE  AuditFound'
  <2>1. UNCHANGED <<cmd, phase, pol, compared, events, violations>>
    BY <1>16, Zenon DEF ChangeArtifact
  <2> QED BY <1>b, <1>c, <2>1, Zenon
<1>17. CASE UNCHANGED vars
  <2>1. UNCHANGED <<cmd, phase, pol, compared, events, violations>>
    BY <1>17, Zenon
  <2> QED BY <1>b, <1>c, <2>1, Zenon
<1> QED BY <1>0, <1>1, <1>2, <1>3, <1>4, <1>5, <1>6, <1>7, <1>8, <1>9, <1>10, <1>11, <1>12,
           <1>13, <1>14, <1>15, <1>16, <1>17, Zenon DEF Next, Step, AllDone

\* No artifact has an @ sign in the name of its file.
PlainArtifacts == \A path \in Paths : \A i \in DOMAIN Base(path) : Base(path)[i] # "@"

\* The name of such a file is its own location.
LEMMA ArtifactLocated ==
  ASSUME PlainArtifacts, NEW path \in Paths
  PROVE  Located(Base(path))
<1>1. Base(path) \in Seq(Token)
  BY PathsAssumption, Zenon DEF Base, Name
<1> DEFINE s == Base(path)
<1>2. \A i \in DOMAIN s : s[i] # "@"
  BY Zenon DEF PlainArtifacts
<1> HIDE DEF s
<1>3. Len(s) \in Nat /\ SubSeq(s, 1, Len(s)) = s
  BY <1>1, SubSeqFull DEF s
<1> QED BY <1>2, <1>3, PlainLocated, Zenon DEF s

\* What an audit has found is at packages, or at the artifact.
LEMMA AuditLocated ==
  ASSUME PlainArtifacts, NEW signed \in BOOLEAN, NEW outcomes \in [DOMAIN Packages -> Outcome],
         NEW s, ScoredWell(s), NEW path \in Paths, NEW des, NEW dvs,
         Compared(path, des, dvs),
         NEW v \in ToSet(TreeViolations(signed, outcomes) \o s.violations \o dvs)
  PROVE  Located(v.pkg)
<1> DEFINE a == TreeViolations(signed, outcomes)
           scored == s.violations
<1>1. IsSequence(a) /\ \A u \in ToSet(a) : Located(u.pkg)
  BY TreeFaultsAre, Zenon
<1>2. IsSequence(scored) /\ \A u \in ToSet(scored) : Located(u.pkg)
  BY Zenon DEF ScoredWell
<1>3. IsSequence(dvs) /\ \A u \in ToSet(dvs) : Located(u.pkg)
  <2>1. IsSequence(dvs) /\ \A u \in ToSet(dvs) : u.pkg = Base(path)
    BY ComparedCounts, Zenon
  <2> QED BY <2>1, ArtifactLocated, Zenon
<1> HIDE DEF a, scored
<1>4. ToSet(a \o scored \o dvs) = ToSet(a) \cup ToSet(scored) \cup ToSet(dvs)
  BY <1>1, <1>2, <1>3, ConcatSequence
<1> QED BY <1>1, <1>2, <1>3, <1>4, Zenon DEF a, scored

\* So is what ci has found after its install, or at the lockfile; and what the
\* lockfile check has found of it is told by the rule.
Judged(vs, audit) ==
  /\ IsSequence(vs) /\ \A v \in ToSet(vs) : Located(v.pkg)
  /\ ToSet(audit) = {v \in ToSet(vs) : v.rule[1] \in {"lockfile", "lockfile_signature"}}

LEMMA CiLocated ==
  ASSUME NEW signed \in BOOLEAN, NEW intact \in BOOLEAN,
         NEW outcomes \in [DOMAIN Packages -> Outcome], NEW s, ScoredWell(s), NEW vs,
         vs = (s.violations \o If(~intact, Disturbed)) \o TreeViolations(signed, outcomes)
  PROVE  Judged(vs, TreeViolations(signed, outcomes))
<1> DEFINE a == TreeViolations(signed, outcomes)
           w == Disturbed
           c == If(~intact, w)
           scored == s.violations
<1>1. /\ IsSequence(a)
      /\ \A u \in ToSet(a) : Located(u.pkg) /\ u.rule[1] \in {"lockfile", "lockfile_signature"}
  BY TreeFaultsAre, Zenon
<1>2. /\ IsSequence(scored)
      /\ \A u \in ToSet(scored) : Located(u.pkg) /\ u.rule[1] \in {"min_score", "require_hash"}
  BY Zenon DEF ScoredWell
<1>3. IsSequence(c) /\ \A u \in ToSet(c) : u = w
  BY IfSequence, Zenon
<1>4. Located(w.pkg)
  <2> DEFINE l == <<"lockfile">>
  <2>1. Len(l) \in Nat /\ SubSeq(l, 1, Len(l)) = l /\ \A i \in DOMAIN l : l[i] # "@"
    <3>1. l \in Seq({"lockfile"})
      OBVIOUS
    <3>2. \A i \in DOMAIN l : l[i] = "lockfile"
      OBVIOUS
    <3>3. "lockfile" # "@"
      OBVIOUS
    <3> HIDE DEF l
    <3> QED BY <3>1, <3>2, <3>3, SubSeqFull
  <2>2. w.pkg = l
    BY Zenon DEF Violation, Disturbed
  <2> HIDE DEF l, w
  <2> QED BY <2>1, <2>2, PlainLocated, Zenon
<1>5. w.rule[1] = "lockfile_integrity"
  BY DEF Violation, Disturbed
<1>6. vs = (scored \o c) \o a
  BY Zenon
<1> HIDE DEF a, c, w, scored
<1>7. /\ IsSequence((scored \o c) \o a)
      /\ ToSet((scored \o c) \o a) = ToSet(scored) \cup ToSet(c) \cup ToSet(a)
  BY <1>1, <1>2, <1>3, ConcatSequence
<1>8. \A u \in ToSet(scored) \cup ToSet(c) :
        Located(u.pkg) /\ u.rule[1] \notin {"lockfile", "lockfile_signature"}
  BY <1>2, <1>3, <1>4, <1>5
<1>9. ToSet(a) = {v \in ToSet(vs) : v.rule[1] \in {"lockfile", "lockfile_signature"}}
  BY <1>1, <1>6, <1>7, <1>8, Zenon
<1>10. \A v \in ToSet(vs) : Located(v.pkg)
  BY <1>1, <1>6, <1>7, <1>8, Zenon
<1> QED BY <1>6, <1>7, <1>9, <1>10, Zenon DEF Judged, a

\* A SARIF report that is written of what is found at packages.
LEMMA WrittenSarif ==
  ASSUME NEW vs, IsSequence(vs), NEW passed, NEW r, r = RenderSarif(passed, vs, <<>>),
         \A v \in ToSet(vs) : Located(v.pkg)
  PROVE  /\ SarifOf(r, vs) /\ r.executionSuccessful = passed
         /\ \A i \in DOMAIN vs : LocatedIn(r, i, vs[i].pkg)
<1>1. \A i \in DOMAIN vs : Located(vs[i].pkg)
  BY Zenon DEF ToSet
<1> QED BY <1>1, SarifTells, Zenon

\* Every action keeps what the reports tell.
LEMMA StepTold ==
  ASSUME PlainArtifacts
  PROVE  Types /\ Phases /\ Fresh /\ AuditFound /\ Told /\ [Next]_vars => Told'
<1> SUFFICES ASSUME Types, Phases, Fresh, AuditFound, Told, [Next]_vars PROVE Told'
  OBVIOUS
<1> USE DEF disk, listing, stage, reports, compared, bounds, vars, policyFile
<1>a. ASSUME sarif' = NoReport, json' = NoReport, markdown' = NoReport PROVE Told'
  BY <1>a, Zenon DEF Told, SarifTold, JsonTold, MarkdownTold
<1>b. ASSUME phase # "idle", UNCHANGED reports PROVE Told'
  <2>1. sarif' = NoReport /\ json' = NoReport /\ markdown' = NoReport
    BY <1>b, Zenon DEF Fresh
  <2> QED BY <2>1, <1>a
<1>c. ASSUME UNCHANGED <<cmd, compared, violations, reports>> PROVE Told'
  <2>1. SarifTold'
    BY <1>c, Zenon DEF Told, SarifTold, is
  <2>2. JsonTold' /\ MarkdownTold'
    BY <1>c, Zenon DEF Told, JsonTold, MarkdownTold
  <2> QED BY <2>1, <2>2, Zenon DEF Told
<1>0. ASSUME NEW c \in project.commands, Begin(c) PROVE Told'
  BY <1>0, <1>a, Zenon DEF Begin
<1>1. CASE LoadPolicy
  BY <1>1, <1>b DEF LoadPolicy
<1>2. CASE ReadTarball
  BY <1>2, <1>b DEF ReadTarball
<1>3. CASE CheckStage
  BY <1>3, <1>b DEF CheckStage
<1>4. CASE ReportStage
  <2> DEFINE r == RenderSarif(violations = <<>>, violations, cmd.id)
  <2>0. /\ phase = "report" /\ is("stage verify") /\ sarif' \in {r, NoReport}
        /\ UNCHANGED <<cmd, violations, json, markdown>>
    BY <1>4, Zenon DEF ReportStage, Written
  <2>1. json' = NoReport /\ markdown' = NoReport
    BY <2>0 DEF Fresh
  <2>2. IsSequence(violations)
    BY DEF Types
  <2>3. SarifOf(r, violations) /\ r.executionSuccessful = (violations = <<>>)
    <3> DEFINE passed == violations = <<>>
    <3>1. r = RenderSarif(passed, violations, cmd.id)
      BY Zenon
    <3> HIDE DEF passed, r
    <3>2. SarifOf(r, violations) /\ r.executionSuccessful = passed
      BY <2>2, <3>1, SarifTells, Zenon
    <3> QED BY <3>2, Zenon DEF passed
  <2> HIDE DEF r
  <2>4. sarif' # NoReport =>
          SarifOf(sarif', violations') /\ (sarif'.executionSuccessful <=> violations' = <<>>)
    BY <2>0, <2>3, Zenon
  <2>5. ~(is("audit") \/ is("ci"))'
    BY <2>0 DEF is
  <2>6. SarifTold'
    BY <2>4, <2>5, Zenon DEF SarifTold
  <2> QED BY <2>1, <2>6, Zenon DEF Told, JsonTold, MarkdownTold
<1>5. CASE HashFile
  BY <1>5, <1>b DEF HashFile
<1>6. CASE WriteChecksums
  BY <1>6, <1>b DEF WriteChecksums
<1>7. CASE VerifyArtifact
  BY <1>7, <1>b DEF VerifyArtifact
<1>8. CASE AuditArtifact
  BY <1>8, <1>b DEF AuditArtifact
<1>9. CASE LogEvents
  BY <1>9, <1>b DEF LogEvents
<1>10. CASE Fails
  BY <1>10, <1>b DEF Fails
<1>11. CASE PolicyCheck
  BY <1>11, <1>b DEF PolicyCheck
<1>12. CASE AuditTree
  BY <1>12, <1>b DEF AuditTree
<1>13. CASE ReportAudit
  <2> DEFINE r == RenderSarif(violations = <<>>, violations, <<>>)
             m == RenderAuditMarkdown(violations, events, scores)
  <2>0. /\ phase = "report" /\ is("audit")
        /\ UNCHANGED <<cmd, violations, json, compared>>
        /\ \/ sarif' \in {r, NoReport} /\ markdown' = markdown
           \/ markdown' \in {m, NoReport} /\ sarif' = sarif
    BY <1>13, Zenon DEF ReportAudit, Written
  <2>1. sarif = NoReport /\ json = NoReport /\ markdown = NoReport
    BY <2>0 DEF Fresh
  <2>2. IsSequence(violations)
    BY DEF Types
  <2>3. cmd.path \in Paths
    BY <2>0, CmdIs
  <2>4. tree \in [DOMAIN Packages -> Outcome]
    BY <2>0, Zenon DEF AuditFound
  <2>a. PICK signed \in BOOLEAN : \E s, des, dvs :
            /\ ScoredWell(s) /\ scores = s.scores
            /\ Compared(cmd.path, des, dvs)
            /\ events = TreeEvents(tree) \o des
            /\ violations = TreeViolations(signed, tree) \o s.violations \o dvs
    BY <2>0, Zenon DEF AuditFound
  <2>5. PICK s, des, dvs :
          /\ ScoredWell(s) /\ scores = s.scores
          /\ Compared(cmd.path, des, dvs)
          /\ events = TreeEvents(tree) \o des
          /\ violations = TreeViolations(signed, tree) \o s.violations \o dvs
    BY <2>a, Zenon
  <2>6. \A v \in ToSet(violations) : Located(v.pkg)
    BY <2>3, <2>4, <2>5, AuditLocated, Zenon
  <2>7. /\ SarifOf(r, violations) /\ r.executionSuccessful = (violations = <<>>)
        /\ \A i \in DOMAIN violations : LocatedIn(r, i, violations[i].pkg)
    BY <2>2, <2>6, WrittenSarif, Zenon
  <2>8. MarkdownOf(m, tree, violations)
    <3>1. m = RenderAuditMarkdown(violations, TreeEvents(tree) \o des, s.scores)
      BY <2>5, Zenon
    <3> HIDE DEF m
    <3> QED BY <2>3, <2>4, <2>5, <3>1, MarkdownTells, Zenon
  <2> HIDE DEF r, m
  <2>9. SarifTold'
    <3>1. sarif' = NoReport \/ sarif' = r
      BY <2>0, <2>1, Zenon
    <3>2. CASE sarif' = NoReport
      BY <3>2, Zenon DEF SarifTold
    <3>3. CASE sarif' = r
      <4>1. /\ SarifOf(sarif', violations')
            /\ sarif'.executionSuccessful <=> violations' = <<>>
            /\ \A i \in DOMAIN violations' : LocatedIn(sarif', i, violations'[i].pkg)
        BY <2>0, <2>7, <3>3, Zenon
      <4> QED BY <4>1, Zenon DEF SarifTold
    <3> QED BY <3>1, <3>2, <3>3
  <2>10. MarkdownTold'
    <3>1. markdown' = NoReport \/ markdown' = m
      BY <2>0, <2>1, Zenon
    <3>2. CASE markdown' = NoReport
      BY <3>2, Zenon DEF MarkdownTold
    <3>3. CASE markdown' = m
      BY <2>0, <2>8, <3>3, Zenon DEF MarkdownTold
    <3> QED BY <3>1, <3>2, <3>3
  <2>11. JsonTold'
    BY <2>0, <2>1, Zenon DEF JsonTold
  <2> QED BY <2>9, <2>10, <2>11, Zenon DEF Told
<1>14. CASE EvaluateCi
  <2>1. CASE UNCHANGED reports
    BY <1>14, <2>1, <1>b DEF EvaluateCi
  <2>2. CASE ~UNCHANGED reports
    <3> DEFINE vs == Evaluate(pol, cmd.nodes)
               r == RenderSarif(FALSE, vs, <<>>)
               j == RenderReport(FALSE, vs, <<>>)
    <3>0. /\ phase = "evaluate" /\ is("ci") /\ violations' = vs /\ vs # <<>>
          /\ sarif' \in {r, NoReport} /\ json' \in {j, NoReport}
          /\ UNCHANGED <<cmd, markdown, compared>>
      BY <1>14, <2>2, Zenon DEF EvaluateCi, Written
    <3>1. tree = <<>> /\ markdown = NoReport
      BY <3>0 DEF Fresh
    <3>2. cmd.nodes \in Seq(Installed)
      BY <3>0, CmdIs
    <3>3. IsSequence(vs) /\ \A v \in ToSet(vs) : Located(v.pkg)
      BY <3>2, EvaluateSequence, EvaluateLocated, Zenon
    <3>4. SarifOf(r, vs) /\ \A i \in DOMAIN vs : LocatedIn(r, i, vs[i].pkg)
      BY <3>3, WrittenSarif, Zenon
    <3>9. j.passed = FALSE /\ j.violations = vs
      BY Zenon DEF RenderReport
    <3> HIDE DEF r, j, vs
    <3>5. is("ci")'
      BY <3>0 DEF is
    <3>6. sarif' # NoReport =>
            /\ SarifOf(sarif', violations')
            /\ \A i \in DOMAIN violations' : LocatedIn(sarif', i, violations'[i].pkg)
      BY <3>0, <3>4, Zenon
    <3>7. SarifTold'
      BY <3>5, <3>6, Zenon DEF SarifTold
    <3>8. JsonTold'
      <4>1. json' = j => /\ json'.passed <=> json'.violations = <<>>
                         /\ ToSet(json'.violations) = ToSet(violations')
        BY <3>0, <3>9, Zenon
      <4>2. tree' = <<>>
        BY <3>0, <3>1, Zenon
      <4> QED BY <3>0, <4>1, <4>2, Zenon DEF JsonTold
    <3>10. MarkdownTold'
      BY <3>0, <3>1, Zenon DEF MarkdownTold
    <3> QED BY <3>7, <3>8, <3>10, Zenon DEF Told
  <2> QED BY <2>1, <2>2
<1>15. CASE ReportCi
  <2>1. CASE UNCHANGED reports
    BY <1>15, <2>1, <1>b DEF ReportCi
  <2>2. CASE ~UNCHANGED reports
    <3>0. phase = "tree" /\ is("ci") /\ UNCHANGED <<cmd, markdown>>
      BY <1>15, Zenon DEF ReportCi
    <3>c. PICK sync \in [DOMAIN Packages -> SyncOutcome],
               outcomes \in [DOMAIN Packages -> Outcome],
               signed \in BOOLEAN, intact \in BOOLEAN :
            \E s :
             /\ ScoredWell(s)
             /\ violations' = (s.violations \o If(~intact, Disturbed))
                                \o TreeViolations(signed, outcomes)
             /\ events' = TreeEvents(sync) \o TreeEvents(outcomes)
             /\ tree' = outcomes
             /\ \/ /\ json' = RenderReport(TreeViolations(signed, outcomes) = <<>>,
                                          TreeViolations(signed, outcomes), events')
                   /\ sarif' \in {RenderSarif(TreeViolations(signed, outcomes) = <<>>,
                                              violations', <<>>), NoReport}
                \/ UNCHANGED <<sarif, json>>
      BY <1>15, ReportCiIs, ZenonT(60)
    <3>1. PICK s :
             /\ ScoredWell(s)
             /\ violations' = (s.violations \o If(~intact, Disturbed))
                                \o TreeViolations(signed, outcomes)
             /\ events' = TreeEvents(sync) \o TreeEvents(outcomes)
             /\ tree' = outcomes
             /\ \/ /\ json' = RenderReport(TreeViolations(signed, outcomes) = <<>>,
                                          TreeViolations(signed, outcomes), events')
                   /\ sarif' \in {RenderSarif(TreeViolations(signed, outcomes) = <<>>,
                                              violations', <<>>), NoReport}
                \/ UNCHANGED <<sarif, json>>
      BY <3>c, Zenon
    <3> DEFINE audit == TreeViolations(signed, outcomes)
               r == RenderSarif(audit = <<>>, violations', <<>>)
    <3>a. /\ json' = RenderReport(audit = <<>>, audit, TreeEvents(sync) \o TreeEvents(outcomes))
          /\ sarif' \in {r, NoReport}
      BY <2>2, <3>0, <3>1, Zenon
    <3>2. /\ IsSequence(violations') /\ \A v \in ToSet(violations') : Located(v.pkg)
          /\ ToSet(TreeViolations(signed, outcomes))
               = {v \in ToSet(violations') : v.rule[1] \in {"lockfile", "lockfile_signature"}}
      <4>1. ScoredWell(s)
        BY <3>1, Zenon
      <4>2. violations' = (s.violations \o If(~intact, Disturbed))
                            \o TreeViolations(signed, outcomes)
        BY <3>1, Zenon
      <4>3. Judged(violations', TreeViolations(signed, outcomes))
        BY <4>1, <4>2, CiLocated, Zenon
      <4> QED BY <4>3, Zenon DEF Judged
    <3>b. /\ SarifOf(r, violations')
          /\ \A i \in DOMAIN violations' : LocatedIn(r, i, violations'[i].pkg)
      <4> DEFINE vs == violations'
      <4> HIDE DEF vs
      <4>1. IsSequence(vs) /\ (\A v \in ToSet(vs) : Located(v.pkg))
              /\ r = RenderSarif(audit = <<>>, vs, <<>>)
        BY <3>2, Zenon DEF vs
      <4> HIDE DEF r, audit
      <4>2. SarifOf(r, vs) /\ \A i \in DOMAIN vs : LocatedIn(r, i, vs[i].pkg)
        BY <4>1, WrittenSarif, Zenon
      <4> QED BY <4>2, Zenon DEF vs
    <3> HIDE DEF r
    <3>3. sarif' # NoReport =>
            /\ SarifOf(sarif', violations')
            /\ \A i \in DOMAIN violations' : LocatedIn(sarif', i, violations'[i].pkg)
      BY <3>a, <3>b, Zenon
    <3>4. is("ci")'
      BY <3>0 DEF is
    <3>5. SarifTold'
      BY <3>3, <3>4, Zenon DEF SarifTold
    <3>6. JsonOf(json', outcomes)
      BY <3>1, <3>a, JsonTells, Zenon
    <3>7. JsonTold'
      <4>1. tree' = outcomes /\ tree' # <<>>
        <5>1. DOMAIN outcomes = DOMAIN Packages /\ 1 \in DOMAIN Packages /\ DOMAIN <<>> = {}
          BY TreeAssumption
        <5> QED BY <3>1, <5>1, Zenon
      <4>2. json'.passed = (audit = <<>>) /\ json'.violations = audit
        BY <3>a, Zenon DEF RenderReport
      <4> HIDE DEF audit
      <4>3. json'.passed <=> json'.violations = <<>>
        BY <4>2, Zenon
      <4>4. ToSet(json'.violations)
              = {v \in ToSet(violations') : v.rule[1] \in {"lockfile", "lockfile_signature"}}
        BY <3>2, <4>2, Zenon DEF audit
      <4> QED BY <3>6, <4>1, <4>3, <4>4, Zenon DEF JsonTold
    <3>8. markdown' = NoReport
      BY <3>0 DEF Fresh
    <3> QED BY <3>5, <3>7, <3>8, Zenon DEF Told, MarkdownTold
  <2> QED BY <2>1, <2>2
<1>16. ASSUME NEW path \in Paths, NEW content \in Contents \cup {NoFile},
              ChangeArtifact(path, content)
       PROVE  Told'
  BY <1>16, <1>c DEF ChangeArtifact
<1>17. CASE UNCHANGED vars
  BY <1>17, <1>c
<1> QED BY <1>0, <1>1, <1>2, <1>3, <1>4, <1>5, <1>6, <1>7, <1>8, <1>9, <1>10, <1>11, <1>12,
           <1>13, <1>14, <1>15, <1>16, <1>17, Zenon DEF Next, Step, AllDone

-----------------------------------------------------------------------------
(* The theorems. *)

\* The invariant holds of every run of commands.
THEOREM VerificationInvariant == Spec => []IInv
<1>1. Init => IInv
  BY InitIInv
<1>2. IInv /\ [Next]_vars => IInv'
  BY StepTypes, StepPhases, StepStaged, StepVerified, StepKept, StepAudited, StepRuled DEF IInv
<1> QED BY <1>1, <1>2, PTL DEF Spec

\* The project, the phase and the counters keep to their types, and stage verify
\* accounts for every read of its input.
THEOREM VerificationTypeCorrect == Spec => []TypeOK
<1>1. IInv => TypeOK
  <2> SUFFICES ASSUME IInv PROVE TypeOK
    OBVIOUS
  <2>0. Types /\ Phases /\ Staged
    BY DEF IInv
  <2>1. pol = DefaultPolicy \/ (IsRead /\ pol = applyPolicyDefaults(policyFile))
    BY <2>0 DEF Types
  <2>2. is("stage verify") => read \o piped = cmd.tarball
    BY <2>0 DEF Staged
  <2>3. found # <<>> => Last(read) = <<"package", found>>
    BY <2>0, Zenon DEF Staged
  <2>4. is("checksum") => Len(lines) <= Len(cmd.paths)
    BY <2>0 DEF Phases, Types, is
  <2> QED BY <2>0, <2>1, <2>2, <2>3, <2>4, Zenon DEF Types, TypeOK
<1> QED BY <1>1, VerificationInvariant, PTL

\* A verify that ends well has logged a match if it blocks; what verify and audit
\* log of an artifact is how it compares with the last line of its name in the
\* checksums file, unless an artifact was changed during the run; and an artifact
\* that checksum has put into the file and that is unchanged verifies.
THEOREM ChecksumsSound == Spec => []ChecksumsVerify
<1>1. IInv => VerifyIsLogged
  <2> SUFFICES ASSUME IInv, Done("verify"), exit = "ok"
               PROVE  /\ log # <<>>
                      /\ Last(log).event = "binary_verify" /\ Last(log).pkg = Base(cmd.path)
                      /\ Enforcement = "block" => Last(log).match
    BY DEF VerifyIsLogged
  <2>1. is("verify") /\ Verified
    BY DEF Done, IInv
  <2> QED BY <2>1, Zenon DEF Verified, OfArtifact
<1>2. IInv => VerifiedIsListed
  <2> SUFFICES ASSUME IInv,
                      NEW e \in ToSet(IF Done("verify") /\ exit = "ok" THEN <<Last(log)>>
                                 ELSE IF Done("audit") /\ exit = "ok" THEN events ELSE <<>>),
                      e.event = "binary_verify", still
               PROVE  \E i \in DOMAIN sums :
                        /\ sums[i].kind = "entry" /\ sums[i].name = e.pkg
                        /\ \A j \in (i + 1)..Len(sums) :
                             sums[j].kind = "entry" => sums[j].name # e.pkg
                        /\ e.match = (sums[i].hash = files[cmd.path])
                        /\ Enforcement = "block" => e.match
    BY Zenon DEF VerifiedIsListed
  <2>1. OfArtifact(e) /\ (Enforcement = "block" => e.match)
    <3>1. CASE Done("verify") /\ exit = "ok"
      <4>1. e = Last(log)
        <5>1. e \in ToSet(<<Last(log)>>)
          BY <3>1, Zenon
        <5> QED BY <5>1, SingleSequence
      <4>2. is("verify") /\ Verified
        BY <3>1 DEF Done, IInv
      <4> QED BY <3>1, <4>1, <4>2, Zenon DEF Verified
    <3>2. CASE Done("audit") /\ exit = "ok"
      <4>1. ~Done("verify")
        BY <3>2 DEF Done, is
      <4>2. e \in ToSet(events)
        BY <4>1, <3>2, Zenon
      <4>3. is("audit") /\ Audited
        BY <3>2 DEF Done, IInv
      <4> QED BY <3>2, <4>2, <4>3, Zenon DEF Audited, OfArtifact
    <3>3. CASE ~(Done("verify") /\ exit = "ok") /\ ~(Done("audit") /\ exit = "ok")
      <4>1. e \in ToSet(<<>>)
        BY <3>3, Zenon
      <4> QED BY <4>1, EmptySequence
    <3> QED BY <3>1, <3>2, <3>3, Zenon
  <2> QED BY <2>1, Zenon DEF OfArtifact, Listed
<1>3. IInv => RoundTrip
  <2> SUFFICES ASSUME IInv, is("verify"), cmd.path \in kept, policyFile # Invalid,
                      phase = "log" \/ Done("verify")
               PROVE  /\ violations = <<>>
                      /\ Len(events) = 1 /\ events[1].match /\ events[1].pkg = Base(cmd.path)
    BY SMT DEF RoundTrip
  <2>1. phase \in {"log", "idle"} /\ Kept
    BY DEF Done, IInv
  <2> QED BY <2>1, SMT DEF Kept
<1> QED BY <1>1, <1>2, <1>3, VerificationInvariant, PTL DEF ChecksumsVerify

\* No policy of a project has two stars for a pattern.
PlainPolicies ==
  \A p \in Projects :
    \/ p.policy \in {Missing, Invalid}
    \/ PlainGlobs(p.policy.allow) /\ PlainGlobs(p.policy.deny)

\* Then neither has the policy that is loaded.
LEMMA PolicyIsPlain ==
  ASSUME PlainPolicies, Types
  PROVE  /\ pol.allow \in Seq(PackageRule) /\ PlainGlobs(pol.allow)
         /\ pol.deny \in Seq(PackageRule) /\ PlainGlobs(pol.deny)
<1>1. pol.allow \in Seq(PackageRule) /\ pol.deny \in Seq(PackageRule)
  BY Zenon DEF Types, IsPolicy
<1>2. CASE pol = DefaultPolicy
  <2>1. pol.allow = <<>> /\ pol.deny = <<>> /\ DOMAIN <<>> = {}
    BY <1>2 DEF DefaultPolicy
  <2> QED BY <1>1, <2>1, Zenon DEF PlainGlobs
<1>3. CASE IsRead /\ pol = applyPolicyDefaults(policyFile)
  <2>1. pol.allow = policyFile.allow /\ pol.deny = policyFile.deny
    BY <1>3, Zenon DEF applyPolicyDefaults
  <2>2. PlainGlobs(policyFile.allow) /\ PlainGlobs(policyFile.deny)
    BY <1>3, Zenon DEF PlainPolicies, Types, policyFile, IsRead
  <2> QED BY <1>1, <2>1, <2>2, Zenon
<1> QED BY <1>2, <1>3, Zenon DEF Types

\* The name of an installed package is a name.
LEMMA NodeIs ==
  ASSUME NEW ns \in Seq(Installed), NEW i \in DOMAIN ns
  PROVE  ns[i].name \in Name
<1>1. ns[i] \in Installed
  BY ElementOfSeq
<1> QED BY <1>1, Zenon DEF Installed

\* What stage verify lets through when it blocks was read to its package.json or
\* its end, begins with what the checksum is of, has the name of the stage id, and
\* is in no deny rule.
THEOREM StagePassSound ==
  ASSUME PlainPolicies
  PROVE  Spec => []StagePassMeansChecked
<1>1. IInv => StagePassMeansChecked
  <2> SUFFICES ASSUME IInv, Done("stage verify"), exit = "ok", Enforcement = "block"
               PROVE  /\ read # <<>> /\ Last(read)[1] \in {"package", "end"}
                      /\ IsPrefix(cmd.checksum, cmd.tarball)
                      /\ found # <<>> => Names(cmd.id, found)
                      /\ found # <<>> /\ "@" \notin ToSet(found) => ~Says(pol.deny, found, Fold)
                      /\ found = <<>> /\ cmd.id # <<>> /\ Last(cmd.id) = "v" =>
                           ~Says(pol.deny, SubSeq(cmd.id, 1, Len(cmd.id) - 2), Fold)
    BY DEF StagePassMeansChecked
  <2>1. is("stage verify") /\ Types /\ Staged /\ phase = "idle"
    BY DEF Done, IInv
  <2>2. cmd.id \in Id /\ cmd.id \in Name
    BY <2>1, CmdIs, Zenon DEF Id
  <2>3. /\ read # <<>> /\ Last(read)[1] \in {"package", "end"}
        /\ read \o piped = cmd.tarball
        /\ StageViolations(cmd.id, found) = <<>>
    BY <2>1 DEF Staged
  <2>4. /\ cmd.checksum = <<>> \/ read = cmd.checksum
        /\ found = <<>> \/ EqualFold(found, stagePkgName(cmd.id))
        /\ ~denylistCheck(pol, IF found # <<>> THEN found ELSE cmd.id)
    BY <2>3, StageViolationsAre, Zenon
  <2>5. IsPrefix(cmd.checksum, cmd.tarball)
    <3>1. IsPrefix(<<>>, read \o piped) /\ IsPrefix(read, read \o piped)
      BY <2>1, PrefixOfConcat, Zenon DEF Types
    <3> QED BY <2>3, <2>4, <3>1, Zenon
  <2>6. found # <<>> => Names(cmd.id, found)
    BY <2>2, <2>4, StageNameNames, Zenon
  <2>7. pol.deny \in Seq(PackageRule) /\ PlainGlobs(pol.deny) /\ found \in Name
    BY <2>1, PolicyIsPlain, Zenon DEF Types
  <2>8. found # <<>> /\ "@" \notin ToSet(found) => ~Says(pol.deny, found, Fold)
    <3>1. SUFFICES ASSUME found # <<>>, "@" \notin ToSet(found)
                   PROVE  ~Says(pol.deny, found, Fold)
      BY Zenon
    <3>2. stagePkgName(found) = found
      BY <2>7, <3>1, StageNameOfName, Zenon
    <3>3. denylistCheck(pol, found) <=> Says(pol.deny, found, Fold)
      BY <2>7, <3>2, DenySays
    <3> QED BY <2>4, <3>1, <3>3, Zenon
  <2>9. found = <<>> /\ cmd.id # <<>> /\ Last(cmd.id) = "v" =>
          ~Says(pol.deny, SubSeq(cmd.id, 1, Len(cmd.id) - 2), Fold)
    <3>1. SUFFICES ASSUME found = <<>>, cmd.id # <<>>, Last(cmd.id) = "v"
                   PROVE  ~Says(pol.deny, SubSeq(cmd.id, 1, Len(cmd.id) - 2), Fold)
      BY Zenon
    <3> DEFINE name == SubSeq(cmd.id, 1, Len(cmd.id) - 2)
    <3>2. stagePkgName(cmd.id) = name
      BY <2>2, <3>1, StageNameOfId, Zenon
    <3>3. name \in Name
      BY <2>2, <3>2, StageNameIsName, Zenon
    <3> HIDE DEF name
    <3>4. denylistCheck(pol, cmd.id) <=> Says(pol.deny, name, Fold)
      BY <2>7, <3>2, <3>3, DenySays
    <3> QED BY <2>4, <3>1, <3>4, Zenon DEF name
  <2> QED BY <2>3, <2>5, <2>6, <2>8, <2>9, Zenon
<1> QED BY <1>1, VerificationInvariant, PTL

\* policy check and stage verify reject a package for its name exactly where a
\* rule of the policy says so.
THEOREM RulesSound ==
  ASSUME PlainPolicies
  PROVE  Spec => []RulesMeanWhatTheySay
<1> DEFINE Rules ==
      Done("policy check") /\ (exit = "ok" \/ violations # <<>>) =>
        \A i \in DOMAIN cmd.nodes :
          LET name == cmd.nodes[i].name
              reasons == {violations[k].reason :
                            k \in {k \in DOMAIN violations :
                                     violations[k].pkg = Package(name)}}
          IN  /\ "denylist_match" \in reasons <=>
                    pol.mode = "denylist" /\ Says(pol.deny, name, AsWritten)
              /\ "not_in_allowlist" \in reasons <=>
                    pol.mode = "allowlist" /\ ~Says(pol.allow, name, AsWritten)
    StageRules ==
      Done("stage verify") /\ found # <<>> /\ "@" \notin ToSet(found) =>
        (Found(violations, "package matched deny rule", {"denylist"})
           <=> Says(pol.deny, found, Fold))
<1>1. IInv => Rules
  <2> SUFFICES ASSUME IInv, Done("policy check"), exit = "ok" \/ violations # <<>>,
                      NEW i \in DOMAIN cmd.nodes
               PROVE  LET name == cmd.nodes[i].name
                          reasons == {violations[k].reason :
                                        k \in {k \in DOMAIN violations :
                                                 violations[k].pkg = Package(name)}}
                      IN  /\ "denylist_match" \in reasons <=>
                               pol.mode = "denylist" /\ Says(pol.deny, name, AsWritten)
                          /\ "not_in_allowlist" \in reasons <=>
                               pol.mode = "allowlist" /\ ~Says(pol.allow, name, AsWritten)
    BY Zenon
  <2> DEFINE name == cmd.nodes[i].name
             reasons == {violations[k].reason :
                           k \in {k \in DOMAIN violations :
                                    violations[k].pkg = Package(name)}}
  <2>1. is("policy check") /\ Types /\ Ruled /\ phase = "idle"
    BY DEF Done, IInv
  <2>2. name \in Name
    <3>1. cmd.nodes \in Seq(Installed)
      BY <2>1, CmdIs
    <3> QED BY <3>1, NodeIs, Zenon
  <2>3. \A reason : reason \in reasons <=> Rejected(violations, name, reason)
    BY Zenon DEF Rejected, ToSet
  <2>4. /\ pol.allow \in Seq(PackageRule) /\ PlainGlobs(pol.allow)
        /\ pol.deny \in Seq(PackageRule) /\ PlainGlobs(pol.deny)
    BY <2>1, PolicyIsPlain, Zenon
  <2>5. /\ Rejected(violations, name, "denylist_match") <=>
             pol.mode = "denylist" /\ matchesAllow(pol.deny, name)
        /\ Rejected(violations, name, "not_in_allowlist") <=>
             pol.mode = "allowlist" /\ ~matchesAllow(pol.allow, name)
    BY <2>1, Zenon DEF Ruled
  <2> HIDE DEF name, reasons
  <2>6. /\ matchesAllow(pol.deny, name) <=> Says(pol.deny, name, AsWritten)
        /\ matchesAllow(pol.allow, name) <=> Says(pol.allow, name, AsWritten)
    BY <2>2, <2>4, AllowSays
  <2>7. /\ "denylist_match" \in reasons <=>
             pol.mode = "denylist" /\ Says(pol.deny, name, AsWritten)
        /\ "not_in_allowlist" \in reasons <=>
             pol.mode = "allowlist" /\ ~Says(pol.allow, name, AsWritten)
    BY <2>3, <2>5, <2>6, Zenon
  <2> QED BY <2>7, Zenon DEF name, reasons
<1>2. IInv => StageRules
  <2> SUFFICES ASSUME IInv, Done("stage verify"), found # <<>>, "@" \notin ToSet(found)
               PROVE  Found(violations, "package matched deny rule", {"denylist"})
                        <=> Says(pol.deny, found, Fold)
    BY Zenon
  <2>1. is("stage verify") /\ Types /\ Staged /\ phase = "idle"
    BY DEF Done, IInv
  <2>2. violations = StageViolations(cmd.id, found)
    BY <2>1 DEF Staged
  <2>3. Found(violations, "package matched deny rule", {"denylist"})
          <=> \E v \in ToSet(violations) :
                v.reason = "package matched deny rule" /\ v.rule[1] \in {"denylist"}
    BY Zenon DEF Found, ToSet
  <2>4. Found(violations, "package matched deny rule", {"denylist"})
          <=> denylistCheck(pol, found)
    BY <2>2, <2>3, StageViolationsAre, Zenon
  <2>5. pol.deny \in Seq(PackageRule) /\ PlainGlobs(pol.deny) /\ found \in Name
    BY <2>1, PolicyIsPlain, Zenon DEF Types
  <2>6. stagePkgName(found) = found
    BY <2>5, StageNameOfName, Zenon
  <2>7. denylistCheck(pol, found) <=> Says(pol.deny, found, Fold)
    BY <2>5, <2>6, DenySays
  <2> QED BY <2>4, <2>7, Zenon
<1>3. Rules /\ StageRules => RulesMeanWhatTheySay
  BY Zenon DEF RulesMeanWhatTheySay
<1> HIDE DEF Rules, StageRules
<1> QED BY <1>1, <1>2, <1>3, VerificationInvariant, PTL

\* The SARIF and the Markdown report have every violation of the run, the SARIF
\* report under its own rule and at its own package; the JSON report of ci has those
\* of the policy or those of the lockfile check, and passes when it has none; and the
\* counts are those of the packages.  No artifact has an @ sign in its name: the
\* SARIF report cuts off what follows it.
THEOREM ReportsSound ==
  ASSUME PlainArtifacts
  PROVE  Spec => []ReportsTell
<1>1. Init => Fresh /\ AuditFound /\ Told
  <2> SUFFICES ASSUME Init PROVE Fresh /\ AuditFound /\ Told
    OBVIOUS
  <2>1. phase = "idle" /\ sarif = NoReport /\ json = NoReport /\ markdown = NoReport
    BY Zenon DEF Init
  <2>2. Fresh /\ AuditFound
    BY <2>1 DEF Fresh, AuditFound
  <2> QED BY <2>1, <2>2, Zenon DEF Told, SarifTold, JsonTold, MarkdownTold
<1>2. IInv /\ Fresh /\ AuditFound /\ Told /\ [Next]_vars => (Fresh /\ AuditFound /\ Told)'
  BY StepFresh, StepFound, StepTold, Zenon DEF IInv
<1>3. Told => ReportsTell
  <2> SUFFICES ASSUME Told PROVE ReportsTell
    OBVIOUS
  <2>1. Count(violations, LAMBDA v : v.rule[1] = "binary_verify")
          = Under(violations, "binary_verify")
    BY Zenon DEF Count, Under
  <2> QED BY <2>1, Zenon DEF Told, SarifTold, JsonTold, MarkdownTold, ReportsTell, SarifOf,
              LocatedIn, JsonOf, MarkdownOf
<1> QED BY <1>1, <1>2, <1>3, VerificationInvariant, PTL DEF Spec
=============================================================================
