----------------------------- MODULE MCCommands -----------------------------
(* TLC instances of Commands. *)
EXTENDS Commands, TLC

CONSTANTS a, b

\* The policy rejects a and the scorer b, or the scorer a alone; a run that meets
\* one package only finds what is said of that one.
MCVerdicts == {<<{a}, {b}>>, <<{}, {a}>>}

\* The trust settings: audit-only, none, a minimum, and required hashes with it.
AuditOnly == <<TRUE, TRUE, TRUE>>
NoTrust == <<FALSE, FALSE, FALSE>>
MinScore == <<FALSE, TRUE, FALSE>>
MinScoreAndHash == <<FALSE, TRUE, TRUE>>

Config(c, g, e, s, f, k) ==
  [cmd |-> c, guarded |-> g, enforcement |-> e, auditOnly |-> s[1],
   minScore |-> s[2], requireHash |-> s[3], fork |-> f, checksum |-> k]

\* What is not guarded evaluates nothing, so that its settings do not matter.
InstallConfigs ==
  {Config("install", TRUE, e, s, FALSE, "none") :
     e \in {"block", "warn"}, s \in {AuditOnly, NoTrust, MinScore, MinScoreAndHash}}
    \cup {Config("install", FALSE, "block", MinScoreAndHash, FALSE, "none")}

\* With and without fork context, which requires hashes, and a checksum.
CiConfigs ==
  {Config("ci", FALSE, e, s, f, IF f THEN "differs" ELSE "none") :
     e \in {"block", "warn"}, s \in {AuditOnly, NoTrust, MinScore}, f \in BOOLEAN}

AuditConfigs ==
  {Config("audit", FALSE, e, s, FALSE, "none") :
     e \in {"block", "warn"}, s \in {AuditOnly, NoTrust, MinScoreAndHash}}

MCConfigs == InstallConfigs \cup CiConfigs \cup AuditConfigs
=============================================================================
