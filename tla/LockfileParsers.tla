--------------------------- MODULE LockfileParsers ---------------------------
(***************************************************************************)
(* pkgmanager.Detect and the parser that it chooses: what a guarded        *)
(* install and scalp ci read before anything is installed.                 *)
(***************************************************************************)
EXTENDS Naturals, Sequences, FiniteSets

CONSTANTS
  YarnScopes, PnpmScopes, BunScopes, NpmScopes,  \* the files each parser is given
  maxEntries,                                    \* the limit on their packages
  Nil                                            \* no current entry

VARIABLES
  present,  \* the lockfiles in the working directory
  pm,       \* the package manager that was detected, or "none"
  scope, file, current, entries, result,
  inPackages, checksumPending, resolutionPending, resolvedPending

detected == <<present, pm>>
textOnly == <<current, inPackages, resolutionPending, checksumPending, resolvedPending>>
vars == <<detected, scope, file, entries, result, textOnly>>

Npm == INSTANCE NpmLock WITH Scopes <- NpmScopes
Yarn == INSTANCE YarnLock WITH Scopes <- YarnScopes
Pnpm == INSTANCE PnpmLock WITH Scopes <- PnpmScopes
Bun == INSTANCE BunLock WITH Scopes <- BunScopes

ASSUME ParsersAssumption ==
  Npm!ParserAssumption /\ Yarn!ParserAssumption /\ Pnpm!ParserAssumption /\ Bun!ParserAssumption

Lockfiles == {"package-lock.json", "pnpm-lock.yaml", "yarn.lock", "bun.lock", "bun.lockb"}

Manager ==
  [f \in Lockfiles |->
     CASE f = "package-lock.json" -> "npm"
       [] f = "pnpm-lock.yaml" -> "pnpm"
       [] f = "yarn.lock" -> "yarn"
       [] f \in {"bun.lock", "bun.lockb"} -> "bun"]

\* Mutant: the first lockfile that is found decides.
DetectFirst(files) ==
  CASE "package-lock.json" \in files -> "npm"
    [] "package-lock.json" \notin files /\ "pnpm-lock.yaml" \in files -> "pnpm"
    [] files \cap {"package-lock.json", "pnpm-lock.yaml"} = {} /\ "yarn.lock" \in files -> "yarn"
    [] files # {} /\ files \subseteq {"bun.lock", "bun.lockb"} -> "bun"
    [] files = {} -> "none"

\* Lockfiles of one package manager name it; both lockfiles of bun are one.
Detect(files) ==
  LET found == {Manager[f] : f \in files}
  IN  IF Cardinality(found) = 1 THEN CHOOSE m \in found : TRUE ELSE "none"

\* What only some of the parsers remember.
Idle == current = Nil /\ inPackages = FALSE /\ resolutionPending = FALSE

\* A directory with no lockfile or with several; and bun.lockb, which is
\* detected but which no parser reads.
Unread == pm = "none" \/ (pm = "bun" /\ "bun.lock" \notin present)

Init ==
  /\ present \in SUBSET Lockfiles
  /\ pm = Detect(present)
  /\ pm # "yarn" => checksumPending = FALSE
  /\ pm # "pnpm" => resolvedPending = FALSE
  /\ \/ Unread /\ scope = Nil /\ file = <<>> /\ entries = <<>> /\ Idle /\ result = "rejected"
     \/ pm = "npm" /\ Npm!Init /\ Idle
     \/ pm = "pnpm" /\ Pnpm!Init
     \/ pm = "yarn" /\ Yarn!Init
     \/ pm = "bun" /\ ~Unread /\ Bun!Init /\ inPackages = FALSE /\ resolutionPending = FALSE

ParseNpm == pm = "npm" /\ Npm!Next /\ UNCHANGED <<detected, textOnly>>
ParsePnpm == pm = "pnpm" /\ Pnpm!Next /\ UNCHANGED <<detected, checksumPending>>
ParseYarn == pm = "yarn" /\ Yarn!Next /\ UNCHANGED <<detected, resolvedPending>>
ParseBun ==
  /\ pm = "bun" /\ ~Unread
  /\ Bun!Next
  /\ UNCHANGED <<detected, inPackages, resolutionPending, checksumPending, resolvedPending>>

Next == ParseNpm \/ ParsePnpm \/ ParseYarn \/ ParseBun

Spec == Init /\ [][Next]_vars

-----------------------------------------------------------------------------
(* Properties: those of the parser that was chosen. *)

\* The parser keeps to its types; it was chosen because the directory has a
\* lockfile of its package manager and of no other.
TypeOK ==
  /\ present \in SUBSET Lockfiles
  /\ result # "rejected" => {Manager[f] : f \in present} = {pm}
  /\ pm = "npm" => Npm!TypeOK
  /\ pm = "pnpm" => Pnpm!TypeOK
  /\ pm = "yarn" => Yarn!TypeOK
  /\ pm = "bun" /\ ~Unread => Bun!TypeOK

\* Of any file that is accepted, what is evaluated is what it says: its
\* packages are listed once, in order, and what is said of one comes from its
\* own block.  Of yarn one is lost where a line of no known form follows it.
AcceptedIsListed ==
  /\ pm = "npm" => Npm!ProjectPackagesListed
  /\ pm = "pnpm" => Pnpm!EveryKeyListed
  /\ pm = "yarn" => Yarn!FieldsAreOwn /\ Yarn!LostOnlyAtText
  /\ pm = "bun" /\ ~Unread => Bun!EveryPackageOfFile

\* Of a file that pnpm or yarn wrote, every package is listed with the version,
\* the integrity and the address that its block states; but of pnpm an integrity
\* that has the address of a tarball behind it is listed with that address.
ListsWhatIsWritten ==
  /\ pm = "pnpm" => Pnpm!ListsWhatIsWritten
  /\ pm = "yarn" => Yarn!ListsWhatIsWritten

\* A key of a form that the parsers know gives the name and the version of its
\* package, and no lockfile is refused for one.
KeysUnderstood ==
  /\ pm = "pnpm" => Pnpm!ListedKeysUnderstood
  /\ pm = "bun" /\ ~Unread => Bun!PackageKeysUnderstood

\* The JSON of bun is parsed without its trailing commas, and with all else.
OnlyTrailingCommasGo == pm = "bun" /\ ~Unread => Bun!OnlyTrailingCommasGo

\* scalp ci "Parses the lockfile and evaluates every package" (scalp-ci.md:19):
\* those that npm installs in the node_modules of a workspace, too.
WorkspacesListed == pm = "npm" => Npm!EveryPackageListed

\* The same of yarn: under their own names.
NamesArePackages == pm = "yarn" => Yarn!NamesArePackages

\* The comments on the parser of pnpm say that it understands /@scope/name@version
\* (adapter.go:464) and aborts on unexpected input (adapter.go:232).
ScopedKeyUnderstood == pm = "pnpm" => Pnpm!ScopedKeyUnderstood
AbortsOnUnexpected == pm = "pnpm" => Pnpm!AbortsOnUnexpected

\* "extractInlineIntegrity extracts integrity from an inline resolution block"
\* (pnpm/adapter.go:499), and nothing that stands behind it.
IntegrityExtracted == pm = "pnpm" => Pnpm!IntegrityExtracted
=============================================================================
