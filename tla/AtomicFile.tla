----------------------------- MODULE AtomicFile -----------------------------
(***************************************************************************)
(* What ioutil.WriteFileAtomic promises its callers (lockfile.Save and     *)
(* TrustCache.Save): the file at the target path is a register.  A call    *)
(* that returns nil has replaced the value in one step, a call that        *)
(* returns an error or dies half way has not touched it, and a reader      *)
(* never sees anything but a value the file really held.                   *)
(***************************************************************************)
CONSTANTS
  Proc,     \* processes that may call WriteFileAtomic
  Reader,   \* processes that load the file
  Data,     \* the values written
  Absent    \* the value of a file that does not exist

VARIABLES
  file,     \* the value of the target file
  status,   \* outcome of each process's last call, or "pending"
  arg,      \* the data each process is writing
  seen      \* what each reader got from its last read

vars == <<file, status, arg, seen>>

Init ==
  /\ file = Absent
  /\ status = [p \in Proc |-> "idle"]
  /\ arg = [p \in Proc |-> Absent]
  /\ seen = [r \in Reader |-> Absent]

Begin(p, d) ==
  /\ status[p] # "pending"
  /\ status' = [status EXCEPT ![p] = "pending"]
  /\ arg' = [arg EXCEPT ![p] = d]
  /\ UNCHANGED <<file, seen>>

Commit(p) ==
  /\ status[p] = "pending"
  /\ file' = arg[p]
  /\ status' = [status EXCEPT ![p] = "ok"]
  /\ UNCHANGED <<arg, seen>>

Abort(p) ==
  /\ status[p] = "pending"
  /\ \E s \in {"error", "idle"} : status' = [status EXCEPT ![p] = s]
  /\ UNCHANGED <<file, arg, seen>>

Read(r) ==
  /\ seen' = [seen EXCEPT ![r] = file]
  /\ UNCHANGED <<file, status, arg>>

Next ==
  \/ \E p \in Proc : (\E d \in Data : Begin(p, d)) \/ Commit(p) \/ Abort(p)
  \/ \E r \in Reader : Read(r)

Spec == Init /\ [][Next]_vars
=============================================================================
