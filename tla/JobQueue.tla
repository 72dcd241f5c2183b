------------------------------ MODULE JobQueue ------------------------------
(***************************************************************************)
(* What those who submit a job to the spool directory are told of it: it   *)
(* waits, one spooler takes it, and then it is done with, or it waits      *)
(* again.  A job whose spooler dies while it has it is stuck.  BatchSpool  *)
(* implements this with files and renames.                                 *)
(***************************************************************************)
CONSTANTS Procs, Jobs

VARIABLES state,   \* of each job
          worker   \* the spoolers that have it

vars == <<state, worker>>

Init ==
    /\ state = [j \in Jobs |-> "new"]
    /\ worker = [j \in Jobs |-> {}]

Submit(j) ==
    /\ state[j] = "new"
    /\ state' = [state EXCEPT ![j] = "waiting"]
    /\ UNCHANGED worker

\* One job at a time, and a job for one spooler.
Take(j, p) ==
    /\ state[j] = "waiting"
    /\ \A i \in Jobs : p \notin worker[i]
    /\ state' = [state EXCEPT ![j] = "taken"]
    /\ worker' = [worker EXCEPT ![j] = {p}]

\* The spooler that took it finishes it, puts it back, or dies.
LetGo(j) ==
    /\ state[j] = "taken"
    /\ \E s \in {"done", "waiting", "stuck"} : state' = [state EXCEPT ![j] = s]
    /\ worker' = [worker EXCEPT ![j] = {}]

Next == \E j \in Jobs : Submit(j) \/ LetGo(j) \/ \E p \in Procs : Take(j, p)

Spec == Init /\ [][Next]_vars
=============================================================================
