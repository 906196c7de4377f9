-------------------------- MODULE MCLockfileParsers --------------------------
(* Instances of LockfileParsers for TLC. *)
EXTENDS LockfileParsers

\* The keys of the three formats, from instances without files.
NpmKeys == INSTANCE NpmLock WITH Scopes <- {}
PnpmKeys == INSTANCE PnpmLock WITH Scopes <- {}
BunKeys == INSTANCE BunLock WITH Scopes <- {}

\* yarn: any file of four lines, and those of seven that yarn writes.
SomeYarn == {[written |-> FALSE, lines |-> 4], [written |-> TRUE, lines |-> 7]}

\* pnpm: any file of five lines and those of eight that pnpm writes, with a key
\* that the parser accepts and one that it does not, and any file of three
\* lines with every form of key.
FewPnpmKeys == {k \in PnpmKeys!AllKeys : k.tokens \in {<<"n", "@", "v">>, <<"n">>}}
SomePnpm ==
  {[written |-> FALSE, lines |-> 5, keys |-> FewPnpmKeys],
   [written |-> TRUE, lines |-> 8, keys |-> FewPnpmKeys],
   [written |-> FALSE, lines |-> 3, keys |-> PnpmKeys!AllKeys]}

\* bun: four lines of text or three entries of JSON with a key and an empty one,
\* two with every form of key, and five bytes of JSON.
FewBunKeys == {k \in BunKeys!AllKeys : k.tokens \in {<<"n", "@", "v">>, <<>>}}
SomeBun ==
  {[format |-> "text", lines |-> 4, keys |-> FewBunKeys],
   [format |-> "json", lines |-> 3, keys |-> FewBunKeys],
   [format |-> "bytes", lines |-> 5, keys |-> {}]}
    \cup {[format |-> f, lines |-> 2, keys |-> BunKeys!AllKeys] : f \in {"text", "json"}}

\* npm: any four paths.
SomeNpm == {[lines |-> 4, keys |-> NpmKeys!AllPaths]}
=============================================================================
