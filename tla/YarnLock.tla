------------------------------ MODULE YarnLock -------------------------------
(***************************************************************************)
(* parseYarnLockYAML: the line-by-line parser of yarn.lock, whose list of  *)
(* packages scalp install and scalp ci evaluate.  It is not a YAML parser: *)
(* it remembers the entry it is in and which value it still waits for.     *)
(*                                                                         *)
(* A line is its indent, the word it begins with and whether a value       *)
(* follows; a value is known by the number of the line that states it.  A  *)
(* key is the sequence of its tokens.                                      *)
(***************************************************************************)
EXTENDS Naturals, Sequences, FiniteSetsExt, SequencesExt

CONSTANTS
  Scopes,      \* the files to read: those that yarn writes or any, with a bound
  maxEntries,  \* maxYarnEntries
  Nil          \* no current entry

Tokens == {"name", "@npm:", "@patch:", "range", ", "}

\* Entries, by the lines that their values may come from.
Entries(lines) == [line : lines, name : Seq(Tokens), version : lines,
                   integrity : lines, resolved : lines]

\* What the constants are assumed to be, where the parser is instantiated.
ParserAssumption ==
  /\ Scopes \subseteq [written : BOOLEAN, lines : Nat]
  /\ maxEntries \in Nat
  /\ Nil \notin Entries(Nat)

VARIABLES
  scope,              \* which files this one is out of
  file,               \* the lines read
  current,            \* the entry that is being read, or Nil
  inPackages,         \* past the preamble
  checksumPending,    \* "checksum:" had no value
  resolutionPending,  \* "resolution:" had no value
  entries,            \* the entries read
  result              \* "reading", "listed" or "rejected"

state == <<current, inPackages, checksumPending, resolutionPending, entries>>
vars == <<scope, file, current, inPackages, checksumPending, resolutionPending, entries, result>>

\* name@npm:range, the same for two ranges, name@patch:..., and something else.
Keys == {<<"name", "@npm:", "range">>,
         <<"name", "@npm:", "range", ", ", "name", "@npm:", "range">>,
         <<"name", "@patch:", "range">>,
         <<"name">>}

Line ==
  [indent : {0}, word : {"blank", "__metadata", "packages", "text", "long"}, val : {FALSE}]
    \cup [indent : {0}, word : {"key"}, key : Keys]
    \cup [indent : {1}, word : {"other"}, val : {FALSE}]
    \cup [indent : {2}, word : {"version", "resolution", "checksum"}, val : BOOLEAN]
    \cup [indent : {2}, word : {"other"}, val : {FALSE}]
    \cup [indent : {4}, word : {"tarball", "other"}, val : BOOLEAN]

Place == 0..scope.lines
Entry == Entries(Place)

TypeOK ==
  /\ scope \in Scopes
  /\ file \in Seq(Line)
  /\ Len(file) <= scope.lines
  /\ current \in Entry \cup {Nil}
  /\ inPackages \in BOOLEAN
  /\ checksumPending \in BOOLEAN
  /\ resolutionPending \in BOOLEAN
  /\ entries \in Seq(Entry)
  /\ result \in {"reading", "listed", "rejected"}
  /\ result = "listed" => current = Nil /\ Len(entries) <= maxEntries

Init ==
  /\ scope \in Scopes
  /\ file = <<>>
  /\ current = Nil
  /\ inPackages = FALSE
  /\ checksumPending = FALSE
  /\ resolutionPending = FALSE
  /\ entries = <<>>
  /\ result = "reading"

-----------------------------------------------------------------------------
(* startEntry. *)

LastAt(key, token) == Max({0} \cup {i \in DOMAIN key : key[i] = token})

\* virtual: and patch: are looked for before npm:.
Skipped(key) == LastAt(key, "@patch:") > 1
Recognized(key) == LastAt(key, "@npm:") > 1

\* The name is what comes before the last protocol.
EntryFor(key) ==
  [line |-> Len(file) + 1, name |-> SubSeq(key, 1, LastAt(key, "@npm:") - 1),
   version |-> 0, integrity |-> 0, resolved |-> 0]

flushEntry == IF current = Nil THEN entries ELSE Append(entries, current)

here == Len(file) + 1

-----------------------------------------------------------------------------
(* What yarn writes: blocks of a key and its properties with blank lines   *)
(* between them, every property once.                                      *)

blockStart == Max({0} \cup {i \in DOMAIN file : file[i].indent = 0})
inBlock == {file[i].word : i \in {j \in DOMAIN file : j > blockStart /\ file[j].indent = 2}}

\* The property that the sub-properties after the last line belong to.
openProperty ==
  LET props == {i \in DOMAIN file : i > blockStart /\ file[i].indent = 2}
  IN  IF props = {} THEN "none"
      ELSE IF file[Max(props)].val = TRUE THEN "none" ELSE file[Max(props)].word

\* The last line is a property whose value is still to come.
valueExpected ==
  /\ file # <<>>
  /\ file[Len(file)].word \in {"resolution", "checksum", "version"}
  /\ ~file[Len(file)].val

YarnWrites(l) ==
  LET at == IF file = <<>> THEN "blank" ELSE file[Len(file)].word
  IN  CASE l.word \in {"packages", "text", "long"} \/ l.indent = 1 -> FALSE
        [] l.word = "blank" -> at # "blank" /\ ~valueExpected
        [] l.word = "__metadata" -> file = <<>>
        [] l.word = "key" -> at = "blank" /\ (Recognized(l.key) \/ Skipped(l.key))
        [] l.indent = 2 -> /\ at # "blank"
                           /\ ~valueExpected
                           /\ l.word = "other" \/ l.word \notin inBlock
                           /\ l.word = "version" => l.val
        [] l.indent = 4 -> \/ openProperty = "other"
                           \/ openProperty = "resolution" /\ l.val
                           \/ openProperty = "checksum" /\ valueExpected
                                /\ l.word = "other" /\ l.val
        [] OTHER -> FALSE

-----------------------------------------------------------------------------
(* The loop over the lines. *)

Read(l) ==
  /\ result = "reading"
  /\ Len(file) < scope.lines
  /\ scope.written => YarnWrites(l)
  /\ file' = Append(file, l)
  /\ UNCHANGED scope

\* A line that makes the parser give up: that of yarn 1, one too long for the
\* scanner, a key of no known form, an odd indent.
Rejected(l) ==
  \/ l.word \in {"packages", "long"}
  \/ l.word = "key" /\ ~Recognized(l.key) /\ ~Skipped(l.key)
  \/ l.indent = 1 /\ inPackages

Reject(l) == Rejected(l) /\ result' = "rejected" /\ UNCHANGED state

\* Blank lines and comments.
Blank(l) ==
  /\ l.word = "blank"
  /\ checksumPending' = FALSE
  /\ resolutionPending' = FALSE
  /\ UNCHANGED <<current, inPackages, entries, result>>

\* Mutants: the entry before a key is not flushed; a skipped key leaves the
\* entry that is there.
KeyWithoutFlush(l) ==
  /\ l.word = "key"
  /\ current' = IF Skipped(l.key) THEN Nil ELSE EntryFor(l.key)
  /\ inPackages' = TRUE
  /\ checksumPending' = (checksumPending /\ ~inPackages)
  /\ resolutionPending' = (resolutionPending /\ ~inPackages)
  /\ UNCHANGED <<entries, result>>

KeySkippedKeepsEntry(l) ==
  /\ l.word = "key"
  /\ entries' = IF inPackages THEN flushEntry ELSE entries
  /\ current' = IF ~Skipped(l.key) THEN EntryFor(l.key)
               ELSE IF inPackages THEN Nil ELSE current
  /\ inPackages' = TRUE
  /\ checksumPending' = (checksumPending /\ ~inPackages)
  /\ resolutionPending' = (resolutionPending /\ ~inPackages)
  /\ UNCHANGED result

\* A key starts an entry or skips one.  The entry before it is kept, and what
\* it still waited for forgotten, if the parser was in the packages.
Key(l) ==
  /\ l.word = "key"
  /\ entries' = IF inPackages THEN flushEntry ELSE entries
  /\ current' = IF Skipped(l.key) THEN Nil ELSE EntryFor(l.key)
  /\ inPackages' = TRUE
  /\ checksumPending' = (checksumPending /\ ~inPackages)
  /\ resolutionPending' = (resolutionPending /\ ~inPackages)
  /\ UNCHANGED result

Metadata(l) ==
  /\ l.word = "__metadata"
  /\ IF inPackages THEN entries' = flushEntry /\ current' = Nil
                   ELSE UNCHANGED <<entries, current>>
  /\ inPackages' = FALSE
  /\ UNCHANGED <<checksumPending, resolutionPending, result>>

\* Any other line without indent leaves the packages, with the entry as it is.
Text(l) ==
  /\ l.word = "text"
  /\ inPackages' = FALSE
  /\ UNCHANGED <<current, checksumPending, resolutionPending, entries, result>>

\* Properties before the packages, or of a skipped one.
Ignored(l) ==
  /\ l.indent > 0
  /\ ~inPackages \/ current = Nil
  /\ UNCHANGED <<state, result>>

Given(l, old) == IF l.val THEN here ELSE old

\* Mutant: another property does not end what was waited for.
PropertyKeepsPending(l) ==
  /\ l.indent = 2
  /\ inPackages /\ current # Nil
  /\ current' = CASE l.word = "version" -> [current EXCEPT !.version = Given(l, @)]
                  [] l.word = "resolution" -> [current EXCEPT !.resolved = Given(l, @)]
                  [] l.word = "checksum" -> [current EXCEPT !.integrity = Given(l, @)]
                  [] OTHER -> current
  /\ resolutionPending' = (IF l.word = "resolution" THEN ~l.val ELSE resolutionPending)
  /\ checksumPending' = (IF l.word = "checksum" THEN ~l.val ELSE checksumPending)
  /\ UNCHANGED <<inPackages, entries, result>>

\* handleProperty.
Property(l) ==
  /\ l.indent = 2
  /\ inPackages /\ current # Nil
  /\ CASE l.word = "version" ->
            /\ current' = [current EXCEPT !.version = Given(l, @)]
            /\ UNCHANGED <<checksumPending, resolutionPending>>
       [] l.word = "resolution" ->
            /\ current' = [current EXCEPT !.resolved = Given(l, @)]
            /\ resolutionPending' = ~l.val
            /\ UNCHANGED checksumPending
       [] l.word = "checksum" ->
            /\ current' = [current EXCEPT !.integrity = Given(l, @)]
            /\ checksumPending' = ~l.val
            /\ UNCHANGED resolutionPending
       [] l.word = "other" ->
            /\ checksumPending' = FALSE
            /\ resolutionPending' = FALSE
            /\ UNCHANGED current
  /\ UNCHANGED <<inPackages, entries, result>>

\* handleSubProperty: a tarball or url goes to a resolution that waits for it,
\* anything else to a checksum that does.
SubProperty(l) ==
  /\ l.indent = 4
  /\ inPackages /\ current # Nil
  /\ CASE resolutionPending /\ l.word = "tarball" ->
            /\ current' = [current EXCEPT !.resolved = Given(l, @)]
            /\ resolutionPending' = FALSE
            /\ UNCHANGED checksumPending
       [] checksumPending /\ ~(resolutionPending /\ l.word = "tarball") ->
            /\ current' = [current EXCEPT !.integrity = Given(l, @)]
            /\ checksumPending' = FALSE
            /\ UNCHANGED resolutionPending
       [] OTHER -> UNCHANGED <<current, checksumPending, resolutionPending>>
  /\ UNCHANGED <<inPackages, entries, result>>

ReadLine(l) ==
  /\ Read(l)
  /\ \/ Reject(l)
     \/ /\ ~Rejected(l)
        /\ \/ Blank(l) \/ Key(l) \/ Metadata(l) \/ Text(l)
           \/ Ignored(l) \/ Property(l) \/ SubProperty(l)

\* Mutant: the limit is checked before the last entry is flushed.
EndOfFileCountsEarly ==
  /\ result = "reading"
  /\ scope.written => ~valueExpected
  /\ entries' = flushEntry
  /\ current' = Nil
  /\ result' = IF Len(entries) > maxEntries THEN "rejected" ELSE "listed"
  /\ UNCHANGED <<scope, file, inPackages, checksumPending, resolutionPending>>

\* The end of the file.  Files that yarn writes end between two values.
EndOfFile ==
  /\ result = "reading"
  /\ scope.written => ~valueExpected
  /\ entries' = flushEntry
  /\ current' = Nil
  /\ result' = IF Len(flushEntry) > maxEntries THEN "rejected" ELSE "listed"
  /\ UNCHANGED <<scope, file, inPackages, checksumPending, resolutionPending>>

Next == (\E l \in Line : ReadLine(l)) \/ EndOfFile

Spec == Init /\ [][Next]_vars

-----------------------------------------------------------------------------
(* Properties. *)

\* What the file itself says: its packages are its keys that are not skipped,
\* and what belongs to one stands between its key and the next block.
KeyLines == {i \in DOMAIN file : file[i].word = "key"}
PackageLines == {i \in KeyLines : ~Skipped(file[i].key)}
Block(i) ==
  LET ends == {j \in i+1..Len(file) : file[j].word \in {"key", "__metadata"}}
  IN  i+1 .. Min(ends \cup {Len(file) + 1}) - 1

\* The line of i's block that states the value of a property: the property
\* itself, or the first of the sub-properties that follow it.
Stated(i, word, sub) ==
  LET props == {j \in Block(i) : file[j].indent = 2 /\ file[j].word = word}
      under(j) == {m \in j+1..Len(file) : /\ \A n \in j+1..m : file[n].indent = 4
                                          /\ file[m].word = sub}
      lines == {j \in props : file[j].val}
                 \cup {Min(under(j)) : j \in {n \in props : under(n) # {}}}
  IN  IF lines = {} THEN 0 ELSE Min(lines)

StatedEntry(i) ==
  [line |-> i,
   version |-> Stated(i, "version", "none"),
   integrity |-> Stated(i, "checksum", "other"),
   resolved |-> Stated(i, "resolution", "tarball")]

Content(e) ==
  [line |-> e.line, version |-> e.version, integrity |-> e.integrity,
   resolved |-> e.resolved]

\* The list is in the order of the lines, and has none twice.
InOrder == \A i, j \in DOMAIN entries : i < j => entries[i].line < entries[j].line

\* Of a file that yarn wrote, the list has every package once, in order, with
\* the version, the checksum and the resolution that its block states.
ListsWhatIsWritten ==
  scope.written /\ result = "listed" =>
    /\ {Content(e) : e \in Range(entries)} = {StatedEntry(i) : i \in PackageLines}
    /\ InOrder

\* Of any file the parser accepts, the values of an entry come from lines of
\* its own block.
FieldsAreOwn ==
  \A e \in Range(flushEntry) :
    {e.version, e.integrity, e.resolved} \subseteq {0} \cup Block(e.line)

\* The entries are packages of the file in its order, and one is missing only
\* where a line of no known form follows it.
LostOnlyAtText ==
  /\ \A i \in DOMAIN entries : entries[i].line \in PackageLines
  /\ InOrder
  /\ result = "listed" =>
       \A i \in PackageLines \ {e.line : e \in Range(entries)} :
         \E j \in Block(i) : file[j].word = "text"

\* scalp ci "Parses the lockfile and evaluates every package" (scalp-ci.md:19):
\* the name it evaluates is that of the package.
NamesArePackages ==
  result = "listed" => \A e \in Range(entries) : e.name = <<"name">>
=============================================================================
