------------------------------- MODULE TaskRuns -------------------------------
(***************************************************************************)
(* What the task scheduler promises about runs, with no word of loops,      *)
(* registrations, callers or mutexes: a task has one slot, a run takes it   *)
(* when it starts and gives it back when it is over, and only a run in its  *)
(* slot writes its own log, up to a final outcome that stays.               *)
(***************************************************************************)
CONSTANTS Tasks, Runs, Nil

VARIABLES
  slot,   \* task -> the run in flight, or Nil
  phase,  \* run -> "new", "running", "over"
  log     \* run -> the status on disk, "none" when absent

Final == {"success", "error", "cancelled"}
AbsVars == <<slot, phase, log>>

AbsInit ==
  /\ slot = [t \in Tasks |-> Nil]
  /\ phase = [k \in Runs |-> "new"]
  /\ log = [k \in Runs |-> "none"]

Begin(t, k) ==
  /\ slot[t] = Nil /\ phase[k] = "new"
  /\ slot' = [slot EXCEPT ![t] = k]
  /\ phase' = [phase EXCEPT ![k] = "running"]
  /\ UNCHANGED log

\* The run never starts: the slot is taken, or the run is skipped, with a log or not.
Refuse(k) ==
  /\ phase[k] = "new"
  /\ log[k] \notin Final
  /\ phase' = [phase EXCEPT ![k] = "over"]
  /\ log' \in {log, [log EXCEPT ![k] = "skipped"]}
  /\ UNCHANGED slot

\* A skipped run's log may come later than the decision.
Skipped(k) ==
  /\ phase[k] = "over"
  /\ log[k] \notin Final
  /\ log' = [log EXCEPT ![k] = "skipped"]
  /\ UNCHANGED <<slot, phase>>

Write(k, s) ==
  /\ phase[k] = "running"
  /\ log[k] \notin Final
  /\ log' = [log EXCEPT ![k] = s]
  /\ UNCHANGED <<slot, phase>>

End(t, k) ==
  /\ slot[t] = k /\ phase[k] = "running"
  /\ slot' = [slot EXCEPT ![t] = Nil]
  /\ phase' = [phase EXCEPT ![k] = "over"]
  /\ UNCHANGED log

\* Logs go with their task.
Erase(S) ==
  /\ log' = [k \in Runs |-> IF k \in S THEN "none" ELSE log[k]]
  /\ UNCHANGED <<slot, phase>>

\* The process dies: no slot is held, what had begun is over.
Die(S) ==
  /\ \A k \in Runs : phase[k] = "running" => k \in S
  /\ slot' = [t \in Tasks |-> Nil]
  /\ phase' = [k \in Runs |-> IF k \in S THEN "over" ELSE phase[k]]
  /\ UNCHANGED log

AbsNext ==
  \/ \E t \in Tasks, k \in Runs : Begin(t, k) \/ End(t, k)
  \/ \E k \in Runs : Refuse(k) \/ Skipped(k)
                     \/ \E s \in Final \cup {"running"} : Write(k, s)
  \/ \E S \in SUBSET Runs : Erase(S) \/ Die(S)

AbsSpec == AbsInit /\ [][AbsNext]_AbsVars
=============================================================================
