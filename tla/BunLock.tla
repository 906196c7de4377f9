------------------------------- MODULE BunLock -------------------------------
(***************************************************************************)
(* ParseBunLockfile: the packages that scalp install and scalp ci evaluate *)
(* when the package manager is bun.  A bun.lock is JSON with commas that   *)
(* JSON does not allow, or an older text that is read line by line.        *)
(*                                                                         *)
(* As in YarnLock a line is its indent, the word it begins with and        *)
(* whether a value follows, and a value is known by the number of its      *)
(* line.  An entry of the JSON is read like a line: a map has no order, so *)
(* the order in which entries are read is any.                             *)
(***************************************************************************)
EXTENDS Naturals, Sequences, FiniteSetsExt, SequencesExt

CONSTANTS
  Scopes,      \* the files to read: their format, a bound on their lines,
               \* entries or bytes, and the keys in them
  maxEntries,  \* maxBunEntries
  Nil          \* no current entry

VARIABLES
  scope,    \* which files this one is out of
  file,     \* what is read of it
  current,  \* the entry of the text that is being read, or Nil
  entries,  \* the entries read
  result    \* "reading", "listed" or "rejected"

vars == <<scope, file, current, entries, result>>

-----------------------------------------------------------------------------
(* sanitizeBunJSON: commas before a closing brace or bracket are left out,  *)
(* but not those in strings.                                               *)

Bytes == {"quote", "backslash", "comma", "blank", "close", "other"}

\* The next byte that is no blank closes.
Closes(data, i) ==
  LET next == {j \in i+1..Len(data) : data[j] # "blank"}
  IN  next # {} /\ data[Min(next)] = "close"

\* Mutant: a quote after a backslash ends the string.
sanitizeNoEscape(data) ==
  LET step(at, i) ==
        LET b == data[i]
        IN  CASE b = "quote" ->
                   [at EXCEPT !.inString = ~@, !.out = Append(@, b)]
              [] ~at.inString /\ b = "comma" /\ Closes(data, i) -> at
              [] OTHER -> [at EXCEPT !.out = Append(@, b)]
  IN  FoldLeftDomain(step, [inString |-> FALSE, escape |-> FALSE, out |-> <<>>], data).out

sanitizeBunJSON(data) ==
  LET step(at, i) ==
        LET b == data[i]
        IN  CASE at.escape -> [at EXCEPT !.escape = FALSE, !.out = Append(@, b)]
              [] ~at.escape /\ b = "backslash" /\ at.inString ->
                   [at EXCEPT !.escape = TRUE, !.out = Append(@, b)]
              [] ~at.escape /\ b = "quote" ->
                   [at EXCEPT !.inString = ~@, !.out = Append(@, b)]
              [] ~at.escape /\ ~at.inString /\ b = "comma" /\ Closes(data, i) -> at
              [] OTHER -> [at EXCEPT !.out = Append(@, b)]
  IN  FoldLeftDomain(step, [inString |-> FALSE, escape |-> FALSE, out |-> <<>>], data).out

-----------------------------------------------------------------------------
(* Keys, as the sequences of their tokens.  All but the last two name a     *)
(* package: with and without scope or version, and from a git repository,   *)
(* whose address has an @.                                                 *)

PackageKeys ==
  {[tokens |-> n \o v, name |-> n] : n \in {<<"n">>, <<"@", "s", "/", "n">>},
                                     v \in {<<"@", "v">>, <<>>}}
GitKey == [tokens |-> <<"n", "@", "git:", "/", "/", "git", "@", "v">>, name |-> <<"n">>]
OtherKeys == {[tokens |-> t, name |-> <<>>] : t \in {<<>>, <<"/", "n", "@", "v">>}}
AllKeys == PackageKeys \cup {GitKey} \cup OtherKeys

Tokens == {"n", "@", "s", "/", "v", "git:", "git"}

\* Entries, by the lines that their values may come from.
Entries(lines) == [line : lines, name : Seq(Tokens), keyVersion : Seq(Tokens),
                   version : lines, integrity : lines, resolved : lines]

\* What the constants are assumed to be, where the parser is instantiated.
ParserAssumption ==
  /\ Scopes \subseteq [format : {"text", "json", "bytes"}, lines : Nat, keys : SUBSET AllKeys]
  /\ maxEntries \in Nat
  /\ Nil \notin Entries(Nat)

LastAt(s, token) == Max({0} \cup {i \in DOMAIN s : s[i] = token})

\* SanitizePackageName: not empty, and no part between slashes is.
SanitizePackageName(name) ==
  /\ name # <<>>
  /\ \A i \in DOMAIN name : name[i] = "/" => /\ i - 1 \in DOMAIN name /\ name[i - 1] # "/"
                                             /\ i + 1 \in DOMAIN name

\* Mutant: the @ of a scope is taken for that of a version.
bunSplitAnywhere(s) ==
  LET at == LastAt(s, "@")
  IN  IF s # <<>> /\ at > 0 THEN at ELSE Len(s) + 1

\* bunSplitNameVersion cuts at the last @ that does not begin a scope.
bunSplitAt(s) ==
  LET at == LastAt(s, "@")
  IN  IF s # <<>> /\ at > 1 THEN at ELSE Len(s) + 1

bunName(s) == SubSeq(s, 1, bunSplitAt(s) - 1)
bunVersion(s) == SubSeq(s, bunSplitAt(s) + 1, Len(s))

-----------------------------------------------------------------------------

\* An entry of the JSON: its first field is a string or not, and so are the
\* second and the fourth, if they are there.
JsonEntry == [word : {"entry"}, key : scope.keys, readable : BOOLEAN,
              resolved : BOOLEAN, integrity : BOOLEAN]

TextLine ==
  [indent : {0}, word : {"blank", "text", "long"}, val : {FALSE}]
    \cup [indent : {0}, word : {"key"}, key : scope.keys]
    \cup [indent : {1}, word : {"other"}, val : {FALSE}]
    \cup [indent : {2}, word : {"version", "resolution", "integrity"}, val : BOOLEAN]
    \cup [indent : {2, 4}, word : {"other"}, val : {FALSE}]

Line == CASE scope.format = "text" -> TextLine
          [] scope.format = "json" -> JsonEntry
          [] scope.format = "bytes" -> Bytes

Place == 0..scope.lines
Entry == Entries(Place)

TypeOK ==
  /\ scope \in Scopes
  /\ file \in Seq(Line)
  /\ Len(file) <= scope.lines
  /\ current \in Entry \cup {Nil}
  /\ entries \in Seq(Entry)
  /\ result \in {"reading", "listed", "rejected"}
  /\ result = "listed" => current = Nil /\ Len(entries) <= maxEntries

Init ==
  /\ scope \in Scopes
  /\ file = <<>>
  /\ current = Nil
  /\ entries = <<>>
  /\ result = "reading"

here == Len(file) + 1

EntryFor(key) ==
  [line |-> here, name |-> bunName(key), keyVersion |-> bunVersion(key), version |-> 0,
   integrity |-> 0, resolved |-> 0]

flushEntry == IF current = Nil THEN entries ELSE Append(entries, current)

-----------------------------------------------------------------------------
(* parseBunLockText: the loop over the lines.                              *)

Read(l) ==
  /\ result = "reading"
  /\ Len(file) < scope.lines
  /\ file' = Append(file, l)
  /\ UNCHANGED scope

\* startEntry takes a key without version as it is, and refuses one with a
\* second @ or with a name that is not valid.
KeyRejected(key) ==
  /\ LastAt(key, "@") > 1
  /\ \/ "@" \in Range(Tail(bunName(key)))
     \/ ~SanitizePackageName(bunName(key))

Rejected(l) ==
  \/ l.word = "long"
  \/ l.indent = 1
  \/ l.word = "key" /\ KeyRejected(l.key.tokens)

Reject(l) == Rejected(l) /\ result' = "rejected" /\ UNCHANGED <<current, entries>>

\* Blank lines and comments do not end an entry.
Blank(l) == l.word = "blank" /\ UNCHANGED <<current, entries, result>>

\* Mutant: the entry before a key is forgotten.
KeyWithoutFlush(l) ==
  /\ l.word = "key"
  /\ current' = IF l.key.tokens = <<>> THEN Nil ELSE EntryFor(l.key.tokens)
  /\ UNCHANGED <<entries, result>>

Key(l) ==
  /\ l.word = "key"
  /\ entries' = flushEntry
  /\ current' = IF l.key.tokens = <<>> THEN Nil ELSE EntryFor(l.key.tokens)
  /\ UNCHANGED result

\* Mutant: a line that is no key does not end the entry before it.
TextKeepsEntry(l) == l.word = "text" /\ UNCHANGED <<current, entries, result>>

\* Any other line without indent.
Text(l) ==
  /\ l.word = "text"
  /\ entries' = flushEntry
  /\ current' = Nil
  /\ UNCHANGED result

\* handleProperty: of two lines with one property the last one with a value
\* counts.  Deeper lines, and all lines without an entry, say nothing.
Property(l) ==
  /\ l.indent > 1
  /\ current' = IF current = Nil \/ l.indent # 2 \/ ~l.val THEN current
                ELSE CASE l.word = "version" -> [current EXCEPT !.version = here]
                       [] l.word = "resolution" -> [current EXCEPT !.resolved = here]
                       [] l.word = "integrity" -> [current EXCEPT !.integrity = here]
  /\ UNCHANGED <<entries, result>>

ReadLine(l) ==
  /\ scope.format = "text"
  /\ Read(l)
  /\ \/ Reject(l)
     \/ ~Rejected(l) /\ (Blank(l) \/ Key(l) \/ Text(l) \/ Property(l))

\* Mutant: the limit is checked before the last entry is flushed.
EndOfTextCountsEarly ==
  /\ scope.format = "text"
  /\ result = "reading"
  /\ entries' = flushEntry
  /\ current' = Nil
  /\ result' = IF Len(entries) > maxEntries THEN "rejected" ELSE "listed"
  /\ UNCHANGED <<scope, file>>

EndOfText ==
  /\ scope.format = "text"
  /\ result = "reading"
  /\ entries' = flushEntry
  /\ current' = Nil
  /\ result' = IF Len(flushEntry) > maxEntries THEN "rejected" ELSE "listed"
  /\ UNCHANGED <<scope, file>>

-----------------------------------------------------------------------------
(* parseBunLockJSON: the loop over the entries.                            *)

\* Not JSON, or a package that is not an array.
NotJson ==
  /\ scope.format = "json"
  /\ result = "reading"
  /\ file = <<>>
  /\ result' = "rejected"
  /\ UNCHANGED <<scope, file, current, entries>>

JsonNode(l) ==
  [EntryFor(l.key.tokens) EXCEPT
     !.resolved = IF l.resolved THEN here ELSE 0,
     !.integrity = IF l.integrity THEN here ELSE 0]

\* An entry without a readable name is left out, one with a name that is not
\* valid rejects the file, and so does one more than the limit.
ReadEntry(l) ==
  /\ scope.format = "json"
  /\ Read(l)
  /\ UNCHANGED current
  /\ CASE ~l.readable \/ bunName(l.key.tokens) = <<>> -> UNCHANGED <<entries, result>>
       [] l.readable /\ bunName(l.key.tokens) # <<>>
            /\ ~SanitizePackageName(bunName(l.key.tokens)) ->
            UNCHANGED entries /\ result' = "rejected"
       [] OTHER ->
            /\ entries' = Append(entries, JsonNode(l))
            /\ result' = IF Len(entries') > maxEntries THEN "rejected" ELSE result

EndOfJson ==
  /\ scope.format = "json"
  /\ result = "reading"
  /\ result' = "listed"
  /\ UNCHANGED <<scope, file, current, entries>>

\* The bytes that sanitizeBunJSON is given.
ReadByte(b) == scope.format = "bytes" /\ Read(b) /\ UNCHANGED <<current, entries, result>>

Next ==
  \/ \E l \in Line : ReadLine(l) \/ ReadEntry(l) \/ ReadByte(l)
  \/ EndOfText \/ NotJson \/ EndOfJson

Spec == Init /\ [][Next]_vars

-----------------------------------------------------------------------------
(* Properties. *)

PackageLines ==
  {i \in DOMAIN file : /\ file[i].word \in {"key", "entry"}
                       /\ file[i].key.tokens # <<>>
                       /\ file[i].word = "entry" => file[i].readable}
Block(i) ==
  LET ends == {j \in i+1..Len(file) : file[j].word \in {"key", "text"}}
  IN  i+1 .. Min(ends \cup {Len(file) + 1}) - 1

\* The last line of i's block that gives a property a value.
Stated(i, word) ==
  Max({0} \cup {j \in Block(i) : file[j].indent = 2 /\ file[j].word = word /\ file[j].val})

\* The list is in the order of the lines, and has none twice.
InOrder == \A i, j \in DOMAIN entries : i < j => entries[i].line < entries[j].line

\* Of any file that is accepted, the list has every package once and in order,
\* each with the version, the resolution and the integrity that its own block
\* or entry states last, and none has a name with an empty part unless its key
\* is without version.
EveryPackageOfFile ==
  result = "listed" =>
    /\ {e.line : e \in Range(entries)} = PackageLines /\ InOrder
    /\ \A e \in Range(entries) :
         /\ scope.format = "text" => /\ e.version = Stated(e.line, "version")
                                     /\ e.resolved = Stated(e.line, "resolution")
                                     /\ e.integrity = Stated(e.line, "integrity")
         /\ scope.format = "json" => {e.resolved, e.integrity} \subseteq {0, e.line}
         /\ SanitizePackageName(e.name) \/ e.keyVersion = <<>>

\* A package has its own name and the version that its key gives; no lockfile
\* is refused for a key that names a package of the registry.
PackageKeysUnderstood ==
  /\ \A e \in Range(flushEntry) :
       file[e.line].key \in PackageKeys =>
         /\ e.name = file[e.line].key.name
         /\ e.keyVersion = <<"v">> <=> e.keyVersion # <<>>
         /\ e.keyVersion # <<>> <=> "v" \in Range(file[e.line].key.tokens)
  /\ result = "rejected" /\ file # <<>> /\ Len(entries) <= maxEntries
       /\ file[Len(file)].word \in {"key", "entry"}
     => file[Len(file)].key \notin PackageKeys

\* The quotes that begin or end a string: all but those in a string that come
\* after an odd number of backslashes.
Even(S) == Cardinality(S) % 2 = 0
Quotes == {i \in DOMAIN file : file[i] = "quote"}
Delimiters ==
  CHOOSE D \in SUBSET Quotes :
    \A i \in Quotes :
      LET before == {d \in D : d < i}
          backslashes == {j \in Max({0} \cup before)+1..i-1 :
                            \A k \in j..i-1 : file[k] = "backslash"}
      IN  i \in D <=> Even(before) \/ Even(backslashes)

\* The JSON that is parsed is the file without its trailing commas: those
\* outside strings with nothing but blanks between them and what closes.
OnlyTrailingCommasGo ==
  scope.format = "bytes" =>
    LET trailing == {i \in DOMAIN file : /\ file[i] = "comma"
                                         /\ Even({d \in Delimiters : d < i})
                                         /\ Closes(file, i)}
    IN  sanitizeBunJSON(file) = [i \in 1..Len(file) - Cardinality(trailing) |->
                                   file[SetToSortSeq(DOMAIN file \ trailing, <)[i]]]
=============================================================================
