----------------------------- MODULE SchedulePlan -----------------------------
(***************************************************************************)
(* When a timer loop fires (core/bridge/tasks/schedule_plan.go): how the     *)
(* next instant is computed, kept in the task's NextRunAt, persisted by the  *)
(* loop and by the runs, and taken up again after a restart or an update.    *)
(*                                                                           *)
(* One task and its registration.  The clock counts ticks from 1 and does    *)
(* not go back; 0 is Go's zero time.  A plan is [every, at]: the task's      *)
(* IntervalSeconds, or 0 and the instants its cron expression denotes.       *)
(***************************************************************************)
EXTENDS Integers

CONSTANTS
  Intervals,    \* the values of IntervalSeconds
  Crons,        \* the cron schedules, each a set of instants
  Second,       \* ticks in a time.Second
  Half,         \* a time.Duration is in -Half .. Half - 1 (2^63 in the code)
  Reschedules,  \* TRUE: Update may give the task another schedule
  Horizon,      \* bound on the clock
  MaxRequests,  \* bound on Update and RunNow requests
  MaxCrashes    \* bound on crashes

ASSUME PlansAssumption ==
  /\ Intervals \subseteq Nat \ {0}
  /\ Crons \subseteq SUBSET (Nat \ {0})
  /\ Second \in Nat \ {0} /\ Half \in Nat \ {0}
ASSUME LimitsAssumption ==
  /\ Horizon \in Nat \ {0} /\ MaxRequests \in Nat /\ MaxCrashes \in Nat
  /\ Reschedules \in BOOLEAN

VARIABLES
  now,       \* the clock
  file,      \* the stored task: its plan, Enabled and NextRunAt
  loop,      \* "down": process not started; "off": no loop; or where the loop is
  plan,      \* the loop's taskSchedulePlan
  next,      \* the loop's next instant
  fired,     \* the instant of the last timer run, 0 before the first
  mem,       \* the registration's task
  busy,      \* a run is under way
  loopCopy,  \* what the loop is about to save, in a set of at most one
  runCopy,   \* what the run is about to save
  req,       \* a client's request and the task it loaded
  requests, crashes

vars == <<now, file, loop, plan, next, fired, mem, busy, loopCopy, runCopy, req,
          requests, crashes>>

-----------------------------------------------------------------------------
(* schedule_plan.go *)

Zero == 0
Plans == {[every |-> n, at |-> {}] : n \in Intervals}
           \cup {[every |-> 0, at |-> S] : S \in Crons}

\* time.Duration(IntervalSeconds) * time.Second, in the width of a Duration.
Duration(n) == ((n * Second + Half) % (2 * Half)) - Half

\* Mutant of CronNext: the first instant not before t.
CronNext_Inclusive(S, t) ==
  LET later == {u \in S : u >= t}
  IN  IF later = {} THEN Zero ELSE CHOOSE u \in later : \A v \in later : u <= v

\* cron's Schedule.Next: the first instant after t, the zero time if there is none.
CronNext(S, t) ==
  LET later == {u \in S : u > t}
  IN  IF later = {} THEN Zero ELSE CHOOSE u \in later : \A v \in later : u <= v

After(p, t) == IF p.every # 0 THEN t + Duration(p.every) ELSE CronNext(p.at, t)

\* Mutants of InitialNext: a stored instant is taken up although it has passed, or
\* counted from.
InitialNext_Passed(p, stored, t) == IF stored # Zero THEN stored ELSE After(p, t)
InitialNext_Counts(p, stored, t) ==
  IF stored > t THEN After(p, stored) ELSE After(p, t)

\* initialNext: the stored instant while it lies ahead.
InitialNext(p, stored, t) == IF stored > t THEN stored ELSE After(p, t)

\* Mutant of NextAfter: missed instants are made up for.
NextAfter_NoSkip(p, previous, t) == After(p, previous)

\* nextAfter: instants that have passed are skipped.
NextAfter(p, previous, t) ==
  IF After(p, previous) > t THEN After(p, previous) ELSE After(p, t)

\* The loop has its next instant, or has yet to compute it.
Ready == {"persist", "save", "wait"}
Running == Ready \cup {"init", "fired"}

Task(p, on, at) == [plan |-> p, on |-> on, next |-> at]

\* refreshNextRunAt, on task f whose schedule and Enabled become p and on.
Refreshed(f, p, on, changed, t) ==
  Task(p, on,
       IF ~on THEN Zero
       ELSE IF ~changed /\ f.on /\ f.next # Zero THEN f.next
       ELSE InitialNext(p, f.next, t))

-----------------------------------------------------------------------------
NoRequest(f) == [op |-> "none", task |-> f]

\* A task as it was created, and the process not started yet.
Init ==
  /\ now = 1
  /\ \E p \in Plans : file \in {Task(p, FALSE, Zero), Task(p, TRUE, After(p, 1))}
  /\ loop = "down" /\ plan = file.plan /\ next = Zero /\ fired = Zero
  /\ mem = file /\ busy = FALSE /\ loopCopy = {} /\ runCopy = {}
  /\ req = NoRequest(file) /\ requests = 0 /\ crashes = 0

Tick ==
  /\ now < Horizon
  /\ now' = now + 1
  /\ UNCHANGED <<file, loop, plan, next, fired, mem, busy, loopCopy, runCopy, req,
                 requests, crashes>>

\* A registration of task f, with a loop of its own; none if f is disabled.
Register(f) ==
  /\ IF f.on THEN plan' = f.plan /\ mem' = f /\ loop' = "init"
             ELSE loop' = "off" /\ UNCHANGED <<plan, mem>>
  /\ UNCHANGED <<next, loopCopy>>

\* Start registers the stored task.
Start ==
  /\ loop = "down"
  /\ Register(file)
  /\ UNCHANGED <<now, file, fired, busy, runCopy, req, requests, crashes>>

Crash ==
  /\ loop # "down"
  /\ crashes < MaxCrashes
  /\ crashes' = crashes + 1
  /\ loop' = "down" /\ busy' = FALSE /\ loopCopy' = {} /\ runCopy' = {}
  /\ req' = NoRequest(file)
  /\ UNCHANGED <<now, file, plan, next, fired, mem, requests>>

\* The loop's first instant, from the registration's task.
Begin ==
  /\ loop = "init"
  /\ next' = InitialNext(plan, mem.next, now)
  /\ loop' = "persist"
  /\ UNCHANGED <<now, file, plan, fired, mem, busy, loopCopy, runCopy, req, requests,
                 crashes>>

\* The timer goes off, perhaps late, for instant next; a run begins unless one is
\* under way.
Fire ==
  /\ loop = "wait"
  /\ next <= now
  /\ fired' = next
  /\ busy' = TRUE
  /\ loop' = "fired"
  /\ UNCHANGED <<now, file, plan, next, mem, loopCopy, runCopy, req, requests, crashes>>

\* nextAfter, once fireTask has returned.
Advance ==
  /\ loop = "fired"
  /\ next' = NextAfter(plan, next, now)
  /\ loop' = "persist"
  /\ UNCHANGED <<now, file, plan, fired, mem, busy, loopCopy, runCopy, req, requests,
                 crashes>>

\* persistNextRun, under r.mu; the task is left to the run under way, if any.
PersistNext ==
  /\ loop = "persist"
  /\ mem' = [mem EXCEPT !.next = next]
  /\ loop' = IF busy THEN "wait" ELSE "save"
  /\ loopCopy' = IF busy THEN {} ELSE {mem'}
  /\ UNCHANGED <<now, file, plan, next, fired, busy, runCopy, req, requests, crashes>>

\* persistNextRun's SaveTask; a failure is only logged.
SaveNext ==
  /\ loop = "save"
  /\ file' \in loopCopy \cup {file}
  /\ loopCopy' = {}
  /\ loop' = "wait"
  /\ UNCHANGED <<now, plan, next, fired, mem, busy, runCopy, req, requests, crashes>>

\* persistFinishedRun: the task is copied, then saved, if that works.
CopyResult ==
  /\ busy /\ runCopy = {}
  /\ runCopy' = {mem}
  /\ UNCHANGED <<now, file, loop, plan, next, fired, mem, busy, loopCopy, req,
                 requests, crashes>>
SaveResult ==
  /\ runCopy # {}
  /\ file' \in runCopy \cup {file}
  /\ runCopy' = {} /\ busy' = FALSE
  /\ UNCHANGED <<now, loop, plan, next, fired, mem, loopCopy, req, requests, crashes>>

\* The run does not start: its slot is taken, or its running log fails.
RunFails ==
  /\ busy /\ runCopy = {}
  /\ busy' = FALSE
  /\ UNCHANGED <<now, file, loop, plan, next, fired, mem, loopCopy, runCopy, req,
                 requests, crashes>>

\* A request loads the task ...
Request(op, f) ==
  /\ loop # "down"
  /\ req.op = "none"
  /\ requests < MaxRequests
  /\ requests' = requests + 1
  /\ req' = [op |-> op, task |-> f]
  /\ UNCHANGED <<now, file, loop, plan, next, fired, mem, busy, loopCopy, runCopy, crashes>>
LoadToRun == Request("run", file)
\* ... and Update computes the new one at once (ApplyUpdate).
LoadToUpdate ==
  \E p \in Plans, on \in BOOLEAN, changed \in BOOLEAN :
    /\ Reschedules \/ p = file.plan
    /\ p # file.plan => changed
    /\ Request("update", Refreshed(file, p, on, changed, now))

\* RunNow: beginRun makes the loaded task the registration's, and begins a run
\* unless one is under way.
RunNow ==
  /\ req.op = "run"
  /\ loop \in Running
  /\ mem' = req.task
  /\ busy' = TRUE
  /\ req' = NoRequest(req.task)
  /\ UNCHANGED <<now, file, loop, plan, next, fired, loopCopy, runCopy, requests, crashes>>

\* RunNow of a disabled task runs outside the registration (TaskScheduler).
RunAdHoc ==
  /\ req.op = "run" /\ loop = "off"
  /\ req' = NoRequest(req.task)
  /\ UNCHANGED <<now, file, loop, plan, next, fired, mem, busy, loopCopy, runCopy,
                 requests, crashes>>

\* Update: Unregister has waited for the loop and its run, the new task is saved
\* and registered.
Update ==
  /\ req.op = "update"
  /\ loop \in {"wait", "fired", "off"} /\ ~busy
  /\ file' = req.task
  /\ Register(req.task)
  /\ req' = NoRequest(req.task)
  /\ UNCHANGED <<now, fired, busy, runCopy, requests, crashes>>

Next ==
  \/ Tick \/ Start \/ Crash
  \/ Begin \/ Fire \/ Advance \/ PersistNext \/ SaveNext
  \/ CopyResult \/ SaveResult \/ RunFails
  \/ LoadToRun \/ LoadToUpdate \/ RunNow \/ RunAdHoc \/ Update

Spec == Init /\ [][Next]_vars

-----------------------------------------------------------------------------
(* Properties *)

TaskType == [plan : Plans, on : BOOLEAN, next : Int]

\* Every variable keeps its type.
PlanTypeOK ==
  /\ now \in 1..Horizon
  /\ file \in TaskType /\ mem \in TaskType /\ plan \in Plans
  /\ loop \in Running \cup {"down", "off"}
  /\ next \in Int /\ fired \in Int
  /\ busy \in BOOLEAN
  /\ loopCopy \subseteq TaskType /\ runCopy \subseteq TaskType
  /\ req \in [op : {"none", "run", "update"}, task : TaskType]
  /\ requests \in Nat /\ crashes \in Nat

\* A loop's instant lies after the last one that fired; between the timer and
\* nextAfter it is that one.  With the types, this is inductive.
Ahead ==
  /\ fired \in Nat /\ fired <= now
  /\ loop \in Ready => next > fired
  /\ loop = "fired" => next = fired
PlanInv == PlanTypeOK /\ Ahead

\* No instant gets two timer runs: every time the timer goes off it is for an instant
\* after the last one that fired, whatever a crash, a restart, a late timer or a stale
\* NextRunAt in the file makes the loop start from.
FiresOnce == [][loop = "wait" /\ loop' = "fired" => fired' > fired]_vars

\* An enabled task's loop waits for an instant of its own plan: the cron schedule
\* has it, or it is at most one interval away.  A stale NextRunAt saved by a run
\* never delays a task by more.
OwnInstant(p, at) == IF p.every # 0 THEN at <= now + Duration(p.every) ELSE at \in p.at
WaitsForItsPlan == loop \in Ready => OwnInstant(plan, next)

\* A loop that has just fired, or just started, does not fire again at once: the
\* instants it slept through are skipped.
NoBurst ==
  [][(loop \in {"init", "fired"} /\ loop' \in Ready) => next' > now]_vars
=============================================================================
