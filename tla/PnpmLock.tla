------------------------------ MODULE PnpmLock -------------------------------
(***************************************************************************)
(* parseLockfileYAML: the line-by-line parser of the packages section of   *)
(* pnpm-lock.yaml, whose list of packages scalp install and scalp ci       *)
(* evaluate.                                                               *)
(*                                                                         *)
(* As in YarnLock a line is its indent, the word it begins with and        *)
(* whether a value follows, and a value is known by the number of its      *)
(* line.  A key comes with the name and version of the package it is for,  *)
(* a "resolution:" with whether the address of a tarball stands on its     *)
(* line, as in {integrity: sha512-.., tarball: https://..}.                *)
(***************************************************************************)
EXTENDS Naturals, Sequences, FiniteSetsExt, SequencesExt

CONSTANTS
  Scopes,      \* the files to read: those that pnpm writes or any, with a bound
               \* on their lines and the keys in them
  maxEntries,  \* maxPnpmEntries
  Nil          \* no current entry

VARIABLES
  scope,              \* which files this one is out of
  file,               \* the lines read
  current,            \* the entry that is being read, or Nil
  inPackages,         \* past "packages:"
  resolutionPending,  \* "resolution:" had no integrity
  resolvedPending,    \* "resolved:" had no value
  entries,            \* the entries read
  result              \* "reading", "listed" or "rejected"

state == <<current, inPackages, resolutionPending, resolvedPending, entries>>
vars == <<scope, file, current, inPackages, resolutionPending, resolvedPending, entries, result>>

-----------------------------------------------------------------------------
(* Keys. *)

plain == <<"n">>
scoped == <<"@", "s", "/", "n">>

\* The forms that the comment of parseLockfileKey lists: /name/version of pnpm 5
\* and 6, with a scope and with an encoded one, /name@version, and name@version
\* of pnpm 9.
ListedKeys ==
  {[tokens |-> <<"/">> \o n \o <<"/", "v">>, name |-> n] : n \in {plain, scoped}}
    \cup {[tokens |-> <<"/", "@", "s", "%2F", "n", "/", "v">>, name |-> scoped],
          [tokens |-> <<"/">> \o plain \o <<"@", "v">>, name |-> plain]}
    \cup {[tokens |-> n \o <<"@", "v">>, name |-> n] : n \in {plain, scoped}}

\* /@scope/name@version of pnpm 8.
ScopedKey == [tokens |-> <<"/">> \o scoped \o <<"@", "v">>, name |-> scoped]

MalformedKeys ==
  {[tokens |-> t, name |-> <<>>] : t \in {plain, <<"/", "/", "n", "/", "v">>}}

AllKeys == ListedKeys \cup {ScopedKey} \cup MalformedKeys

Tokens == {"/", "@", "s", "n", "v", "%2F"}

\* Entries, by the lines that their values may come from.
Entries(lines) == [line : lines, name : Seq(Tokens), version : Seq(Tokens),
                   integrity : lines, resolved : lines]

\* What the constants are assumed to be, where the parser is instantiated.
ParserAssumption ==
  /\ Scopes \subseteq [written : BOOLEAN, lines : Nat, keys : SUBSET AllKeys]
  /\ maxEntries \in Nat
  /\ Nil \notin Entries(Nat)

\* SanitizePackageName: no part between slashes is empty.
SanitizePackageName(name) ==
  \A i \in DOMAIN name : name[i] = "/" => /\ i - 1 \in DOMAIN name /\ name[i - 1] # "/"
                                          /\ i + 1 \in DOMAIN name

LastAt(s, token) == Max({0} \cup {i \in DOMAIN s : s[i] = token})

\* parseLockfileKey: a key is cut at its last slash if it begins with one and
\* has another, at its last @ otherwise.
Unslashed(key) == IF Head(key) = "/" THEN Tail(key) ELSE key

\* Mutant: a key that begins with a slash is cut at its first one.
SplitAtFirst(key) ==
  LET rest == Unslashed(key)
  IN  IF Head(key) = "/" /\ LastAt(rest, "/") > 0
        THEN Min({i \in DOMAIN rest : rest[i] = "/"}) ELSE LastAt(rest, "@")

SplitAt(key) ==
  LET rest == Unslashed(key)
  IN  IF Head(key) = "/" /\ LastAt(rest, "/") > 0 THEN LastAt(rest, "/")
                                                  ELSE LastAt(rest, "@")
KeyName(key) ==
  [i \in 1 .. SplitAt(key) - 1 |->
     IF Unslashed(key)[i] = "%2F" THEN "/" ELSE Unslashed(key)[i]]
KeyVersion(key) == SubSeq(Unslashed(key), SplitAt(key) + 1, Len(Unslashed(key)))

KeyAccepted(key) ==
  /\ SplitAt(key) > 1
  /\ SplitAt(key) < Len(Unslashed(key))
  /\ SanitizePackageName(KeyName(key))
  /\ "/" \notin Range(KeyVersion(key))

-----------------------------------------------------------------------------
(* Lines: a "line" is one at the indent of keys that does not end in a      *)
(* colon, as an entry on one line or with a comment behind the key.         *)

Line ==
  [indent : {0}, word : {"blank", "packages", "text", "long"}, val : {FALSE}]
    \cup [indent : {2}, word : {"key"}, key : AllKeys]
    \cup [indent : {2}, word : {"line"}, val : {FALSE}]
    \cup [indent : {3}, word : {"other"}, val : {FALSE}]
    \cup [indent : {4}, word : {"resolution"}, val : BOOLEAN, tarball : BOOLEAN]
    \cup [indent : {4}, word : {"resolved"}, val : BOOLEAN]
    \cup [indent : {4}, word : {"other"}, val : {FALSE}]
    \cup [indent : {6}, word : {"integrity"}, val : BOOLEAN]
    \cup [indent : {6, 8}, word : {"other"}, val : {FALSE}]

Place == 0..scope.lines
Entry == Entries(Place)

TypeOK ==
  /\ scope \in Scopes
  /\ file \in Seq(Line)
  /\ Len(file) <= scope.lines
  /\ current \in Entry \cup {Nil}
  /\ inPackages \in BOOLEAN
  /\ resolutionPending \in BOOLEAN
  /\ resolvedPending \in BOOLEAN
  /\ entries \in Seq(Entry)
  /\ result \in {"reading", "listed", "rejected"}
  /\ result = "listed" => current = Nil /\ Len(entries) <= maxEntries

Init ==
  /\ scope \in Scopes
  /\ file = <<>>
  /\ current = Nil
  /\ inPackages = FALSE
  /\ resolutionPending = FALSE
  /\ resolvedPending = FALSE
  /\ entries = <<>>
  /\ result = "reading"

here == Len(file) + 1

EntryFor(key) ==
  [line |-> here, name |-> KeyName(key), version |-> KeyVersion(key),
   integrity |-> 0, resolved |-> 0]

flushEntry == IF current = Nil THEN entries ELSE Append(entries, current)

-----------------------------------------------------------------------------
(* What pnpm writes: after "packages:" blocks of a key and its properties   *)
(* with blank lines between them, each property once, and another section.  *)

at == IF file = <<>> THEN "none" ELSE file[Len(file)].word
blockStart == Max({0} \cup {i \in DOMAIN file : file[i].indent < 4})
properties == {i \in blockStart+1 .. Len(file) : file[i].indent = 4}

\* What stands behind the word of a property: its value, and the tarball.
Values(l) ==
  {v \in {"value", "tarball"} : IF v = "value" THEN l.val ELSE l.word = "resolution" /\ l.tarball}

\* The property whose sub-properties come next, if it has any.
openProperty ==
  IF properties = {} \/ Values(file[Max(properties)]) # {}
    THEN "none" ELSE file[Max(properties)].word

PnpmWrites(l) ==
  CASE l.word = "packages" -> "packages" \notin {w.word : w \in Range(file)}
    [] l.word = "blank" -> file # <<>> /\ at # "blank"
    [] l.word = "text" -> at = "blank" \/ file = <<>>
    [] l.word = "key" -> at = "blank" /\ inPackages /\ l.key \notin MalformedKeys
    [] l.indent = 4 -> /\ inPackages /\ at # "blank" /\ at # "packages"
                       /\ l.word = "other" \/ l.word \notin {file[i].word : i \in properties}
                       /\ l.word = "resolved" => l.val
    [] l.indent = 6 -> \/ openProperty = "other"
                       \/ openProperty = "resolution" /\ at = "resolution"
                            /\ l.word = "integrity" /\ l.val
    [] l.indent = 8 -> openProperty = "other" /\ file[Len(file)].indent > 4
    [] OTHER -> FALSE

-----------------------------------------------------------------------------
(* The loop over the lines. *)

Read(l) ==
  /\ result = "reading"
  /\ Len(file) < scope.lines
  /\ l.word = "key" => l.key \in scope.keys
  /\ scope.written => PnpmWrites(l)
  /\ file' = Append(file, l)
  /\ UNCHANGED scope

\* A line that makes the parser give up: one too long for the scanner, an odd
\* indent, a malformed key, a property without an entry, an integrity that is
\* waited for and empty.
Rejected(l) ==
  \/ l.word = "long"
  \/ /\ inPackages
     /\ \/ l.indent = 3
        \/ l.word = "key" /\ ~KeyAccepted(l.key.tokens)
        \/ l.indent \in {4, 6} /\ current = Nil
        \/ l.word = "integrity" /\ ~l.val /\ (resolutionPending \/ resolvedPending)

Reject(l) == Rejected(l) /\ result' = "rejected" /\ UNCHANGED state

\* Blank lines and comments.
Blank(l) ==
  /\ l.word = "blank"
  /\ resolutionPending' = FALSE
  /\ resolvedPending' = FALSE
  /\ UNCHANGED <<current, inPackages, entries, result>>

\* Before "packages:".
Preamble(l) ==
  /\ ~inPackages
  /\ l.word # "blank"
  /\ inPackages' = (l.word = "packages")
  /\ UNCHANGED <<current, resolutionPending, resolvedPending, entries, result>>

\* Mutant: the limit is checked before the last entry is flushed.
FinishCountsEarly ==
  /\ entries' = flushEntry
  /\ current' = Nil
  /\ result' = IF Len(entries) > maxEntries THEN "rejected" ELSE "listed"
  /\ UNCHANGED <<inPackages, resolutionPending, resolvedPending>>

\* Both ends of the section: a line without indent, and the end of the file.
Finish ==
  /\ entries' = flushEntry
  /\ current' = Nil
  /\ result' = IF Len(flushEntry) > maxEntries THEN "rejected" ELSE "listed"
  /\ UNCHANGED <<inPackages, resolutionPending, resolvedPending>>

SectionEnds(l) ==
  /\ inPackages
  /\ l.word \in {"packages", "text"}
  /\ Finish

\* Mutant: only an entry with an integrity is flushed.
KeyFlushesHashed(l) ==
  /\ inPackages
  /\ l.word = "key"
  /\ entries' = IF current # Nil /\ current.integrity = 0 THEN entries ELSE flushEntry
  /\ current' = EntryFor(l.key.tokens)
  /\ resolutionPending' = FALSE
  /\ resolvedPending' = FALSE
  /\ UNCHANGED <<inPackages, result>>

Key(l) ==
  /\ inPackages
  /\ l.word = "key"
  /\ entries' = flushEntry
  /\ current' = EntryFor(l.key.tokens)
  /\ resolutionPending' = FALSE
  /\ resolvedPending' = FALSE
  /\ UNCHANGED <<inPackages, result>>

\* extractInlineIntegrity: all that stands from the integrity to the closing
\* brace, and nothing if no integrity does.
extractInlineIntegrity(l) == IF l.val THEN Values(l) ELSE {}

\* What handleProperty takes from the line of a property.
Extracted(l) ==
  IF l.word = "resolution" THEN extractInlineIntegrity(l) ELSE Values(l)

Given(l, old) == IF Extracted(l) # {} THEN here ELSE old

\* Mutant: another property does not end what was waited for.
PropertyKeepsPending(l) ==
  /\ inPackages
  /\ l.indent = 4
  /\ current' = CASE l.word = "resolution" -> [current EXCEPT !.integrity = Given(l, @)]
                  [] l.word = "resolved" -> [current EXCEPT !.resolved = Given(l, @)]
                  [] OTHER -> current
  /\ resolutionPending' = (IF l.word = "resolution" THEN Extracted(l) = {} ELSE resolutionPending)
  /\ resolvedPending' = (IF l.word = "resolved" THEN Extracted(l) = {} ELSE resolvedPending)
  /\ UNCHANGED <<inPackages, entries, result>>

\* handleProperty.
Property(l) ==
  /\ inPackages
  /\ l.indent = 4
  /\ CASE l.word = "resolution" ->
            /\ current' = [current EXCEPT !.integrity = Given(l, @)]
            /\ resolutionPending' = (Extracted(l) = {})
            /\ UNCHANGED resolvedPending
       [] l.word = "resolved" ->
            /\ current' = [current EXCEPT !.resolved = Given(l, @)]
            /\ resolvedPending' = (Extracted(l) = {})
            /\ UNCHANGED resolutionPending
       [] l.word = "other" ->
            /\ resolutionPending' = FALSE
            /\ resolvedPending' = FALSE
            /\ UNCHANGED current
  /\ UNCHANGED <<inPackages, entries, result>>

\* handleSubProperty: an integrity that either of them waited for.
SubProperty(l) ==
  /\ inPackages
  /\ l.indent = 6
  /\ IF l.word = "integrity" /\ (resolutionPending \/ resolvedPending)
       THEN /\ current' = [current EXCEPT !.integrity = here]
            /\ resolutionPending' = FALSE
            /\ resolvedPending' = (resolvedPending /\ resolutionPending)
       ELSE UNCHANGED <<current, resolutionPending, resolvedPending>>
  /\ UNCHANGED <<inPackages, entries, result>>

\* Deeper lines, and lines at the indent of keys that are none.
Skipped(l) ==
  /\ inPackages
  /\ l.indent = 8 \/ l.word = "line"
  /\ UNCHANGED <<state, result>>

ReadLine(l) ==
  /\ Read(l)
  /\ \/ Reject(l)
     \/ /\ ~Rejected(l)
        /\ \/ Blank(l) \/ Preamble(l) \/ SectionEnds(l)
           \/ Key(l) \/ Property(l) \/ SubProperty(l) \/ Skipped(l)

EndOfFile ==
  /\ result = "reading"
  /\ Finish
  /\ UNCHANGED <<scope, file>>

Next == (\E l \in Line : ReadLine(l)) \/ EndOfFile

Spec == Init /\ [][Next]_vars

-----------------------------------------------------------------------------
(* Properties. *)

\* What the file itself says: the keys of the section, and what stands between
\* each and the next one.
PackageLines ==
  {i \in DOMAIN file :
     /\ file[i].word = "key"
     /\ "packages" \in {file[j].word : j \in 1..i}}
Block(i) ==
  LET ends == {j \in i+1..Len(file) : file[j].word \in {"key", "text"}}
  IN  i+1 .. Min(ends \cup {Len(file) + 1}) - 1

\* The line that states the integrity of i's block: its resolution, or the line
\* of its own that follows; one with nothing but a tarball states none.
StatedIntegrity(i) ==
  LET props == {j \in Block(i) : file[j].word = "resolution"}
      lines == {j \in props : file[j].val}
                 \cup {j \in Block(i) : file[j].word = "integrity" /\ j - 1 \in props}
  IN  IF lines = {} THEN 0 ELSE Min(lines)
StatedResolved(i) ==
  LET lines == {j \in Block(i) : file[j].word = "resolved"}
  IN  IF lines = {} THEN 0 ELSE Min(lines)
StatedEntry(i) ==
  LET key == file[i].key
  IN  [line |-> i,
       name |-> IF key \in ListedKeys THEN key.name ELSE KeyName(key.tokens),
       version |-> IF key \in ListedKeys THEN <<"v">> ELSE KeyVersion(key.tokens),
       integrity |-> StatedIntegrity(i),
       resolved |-> StatedResolved(i)]

\* The list is in the order of the lines, and has none twice.
InOrder == \A i, j \in DOMAIN entries : i < j => entries[i].line < entries[j].line

\* What e has for an integrity, as text: what was taken from its line.
IntegrityText(e) ==
  CASE e.integrity = 0 -> {}
    [] e.integrity # 0 /\ file[e.integrity].word = "resolution" ->
         extractInlineIntegrity(file[e.integrity])
    [] OTHER -> {"value"}

\* Of a file that pnpm wrote, the list has every package once, in order, with
\* the name and version of its key (ScopedKey excepted, which is taken as it is
\* cut, in the middle of its name), the integrity that its block states and the
\* address of its "resolved:".  That integrity is the stated one and no more,
\* except where the address of a tarball stands behind it: then the text has
\* both.  A tarball is in no entry otherwise.
ListsWhatIsWritten ==
  scope.written /\ result = "listed" =>
    /\ Range(entries) = {StatedEntry(i) : i \in PackageLines}
    /\ InOrder
    /\ \A e \in Range(entries) :
         e.integrity # 0 =>
           IntegrityText(e) =
             IF file[e.integrity].word = "resolution" /\ file[e.integrity].tarball
               THEN {"value", "tarball"} ELSE {"value"}

\* Of any file the parser accepts, every key is listed, in order, and the values
\* of an entry come from lines between its key and the next.
EveryKeyListed ==
  /\ result = "listed" => {e.line : e \in Range(entries)} = PackageLines /\ InOrder
  /\ \A e \in Range(flushEntry) :
       {e.integrity, e.resolved} \subseteq {0} \cup Block(e.line)

\* A key of a form that parseLockfileKey lists (adapter.go:435-441) gives the
\* name and the version of its package, and is no reason to reject a file.
ListedKeysUnderstood ==
  /\ \A e \in Range(flushEntry) :
       file[e.line].key \in ListedKeys =>
         e.name = file[e.line].key.name /\ e.version = <<"v">>
  /\ result = "rejected" /\ Len(entries) <= maxEntries /\ at = "key" =>
       file[Len(file)].key \notin ListedKeys

\* "/-prefix with @-separator: /name@version or /@scope/name@version"
\* (adapter.go:464): the latter gives name and version, too.
ScopedKeyUnderstood ==
  \A e \in Range(flushEntry) :
    file[e.line].key = ScopedKey => e.name = scoped /\ e.version = <<"v">>

\* "extractInlineIntegrity extracts integrity from an inline resolution block"
\* (adapter.go:499), so that what an entry has for an integrity is one.
IntegrityExtracted ==
  \A e \in Range(flushEntry) : IntegrityText(e) \subseteq {"value"}

\* "The parser validates structure at every step and aborts with an error on
\* unexpected input" (adapter.go:232-233): it accepts no file with a line at the
\* indent of the keys that is not one.
AbortsOnUnexpected ==
  result = "listed" =>
    \A i \in DOMAIN file :
      file[i].word = "line" => \A j \in 1..i : file[j].word # "packages"
=============================================================================
