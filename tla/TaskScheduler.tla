---------------------------- MODULE TaskScheduler ----------------------------
(***************************************************************************)
(* The bridge's task scheduler (core/bridge/tasks): timer loops, manual     *)
(* runs, the registry of active runs and the task store they all write.     *)
(*                                                                          *)
(* Processes: one loop per registration, one goroutine per run, and the     *)
(* callers of the scheduler's API.  A step is what the code does under one  *)
(* mutex (s.mu, r.mu, the registry's or the store's), or between two        *)
(* observable points of one goroutine.                                      *)
(*                                                                          *)
(* A task file is [def, last]: its definition and the run its LastRunAt and *)
(* LastError come from.  Definitions in EnabledDefs have Enabled = true.    *)
(* The clock is left to SchedulePlan: a timer may go off whenever its loop  *)
(* waits.                                                                   *)
(***************************************************************************)
EXTENDS Naturals, FiniteSets

CONSTANTS
  Tasks,        \* task identifiers
  Callers,      \* goroutines that call the API
  Regs,         \* identities for taskRegistration objects
  Runs,         \* run identifiers (NewRunID)
  Defs,         \* task definitions
  EnabledDefs,  \* those with Enabled = true
  UntimedDefs,  \* those of a relay with execution_timeout_ms = 0
  Ops,          \* the operations callers may use in this instance
  Mutators,     \* the callers that may unregister or upsert
  StoreFaults,  \* TRUE: SaveTask, AppendRunLog, PrepareRunSession may fail
  MaxCalls,     \* bound on API calls
  MaxFires,     \* bound on timer expirations
  MaxCrashes,   \* bound on process crashes
  Nil

ASSUME NilAssumption ==
  /\ Nil \notin Tasks /\ Nil \notin Regs /\ Nil \notin Runs /\ Nil \notin Defs
  /\ Nil \notin [def : Defs, last : Runs \cup {Nil}]
ASSUME DefsAssumption ==
  EnabledDefs \subseteq Defs /\ UntimedDefs \subseteq Defs /\ Mutators \subseteq Callers
ASSUME BoundsAssumption ==
  /\ MaxCalls \in Nat /\ MaxFires \in Nat /\ MaxCrashes \in Nat
  /\ StoreFaults \in BOOLEAN

VARIABLES
  running,  \* s.running
  life,     \* s.lifecycleCtx: "none" before Start, "live", "cancelled"
  tasks,    \* s.tasks: task -> registration or Nil
  reg,      \* the taskRegistration objects
  run,      \* the run goroutines and their activeRunHandle
  active,   \* s.activeRuns.byTaskID: task -> run or Nil
  file,     \* the task files: task -> [def, last] or Nil
  logs,     \* the run log files: run -> status, "none" when absent
  cl,       \* the callers
  calls, fires, crashes

vars == <<running, life, tasks, reg, run, active, file, logs, cl,
          calls, fires, crashes>>

-----------------------------------------------------------------------------
(* Values *)

TaskVal == [def : Defs, last : Runs \cup {Nil}]
FinalStatus == {"success", "error", "cancelled"}
Status == FinalStatus \cup {"none", "running", "skipped"}

LoopPc == {"none", "init", "save", "wait", "fired", "next", "exited"}
RunPc == {"unused", "skip", "begun", "active", "executing", "saving",
          "logging", "finishing", "releasing", "done", "lost"}
CallerPc == {"idle", "replacing", "draining", "stopping", "begin", "skip",
             "run", "start", "cancel", "await", "ret"}

OpNames == {"unregister", "upsert", "stop", "run_now", "start_now", "stop_run"}
Results == FinalStatus \cup {"none", "ok", "stopped", "skipped", "running",
                             "not_running", "timeout"}

FreeReg == [task |-> Nil, val |-> Nil, retired |-> FALSE, ctxDone |-> FALSE,
            run |-> Nil, loop |-> "none", tmp |-> Nil]
FreeRun == [pc |-> "unused", task |-> Nil, reg |-> Nil, cancelled |-> FALSE,
            timed |-> TRUE, started |-> FALSE, failed |-> FALSE,
            status |-> "none", upd |-> Nil, final |-> "none"]
IdleCaller == [pc |-> "idle", op |-> Nil, task |-> Nil, arg |-> Nil,
               reg |-> Nil, drain |-> {}, run |-> Nil, res |-> "none"]

(* Contexts, registrations and runs *)

\* A registration's loopCtx is done: cancelled by stop(), or with its parent.
CtxDone(r) == reg[r].ctxDone \/ life = "cancelled"

\* The run's context is cancelled, by StopRun or with its parent.
Cancelled(k) == run[k].cancelled \/ CtxDone(run[k].reg)

\* Mutant of CanBegin: the retired flag is not looked at.
CanBegin_IgnoresRetired(r) == reg[r].run = Nil

\* beginRun succeeds: not retired and no run under way.
CanBegin(r) == ~reg[r].retired /\ reg[r].run = Nil

\* Mutants of Idle: the wait leaves out the runs, or the loop.
Idle_LoopOnly(r) == reg[r].loop \in {"none", "exited"}
Idle_RunOnly(r) == reg[r].run = Nil

\* waitIdle would return: the loop is closed (an ad-hoc registration has none)
\* and runWG is zero.
Idle(r) == reg[r].loop \in {"none", "exited"} /\ reg[r].run = Nil

\* stop() on every registration of S: retire it, cancel its loop and its run.
\* The run's context is a child of loopCtx, so ctxDone stands for both cancels.
Retire(S) ==
  [r \in Regs |-> IF r \in S
                  THEN [reg[r] EXCEPT !.retired = TRUE, !.ctxDone = TRUE]
                  ELSE reg[r]]

Registered(t) == {tasks[t]} \ {Nil}
\* s.tasks without t.
Dropped(t) == [tasks EXCEPT ![t] = Nil]

\* Unused identities.  Which one an object gets means nothing, so one is chosen.
FreshRegs == {r \in Regs : reg[r].task = Nil}
FreshRuns == {k \in Runs : run[k].pc = "unused"}
OneOf(S) == IF S = {} THEN {} ELSE {CHOOSE x \in S : TRUE}
NextReg == OneOf(FreshRegs)
NextRun == OneOf(FreshRuns)
\* One registration for each task of S, all different.
Assignments(S) ==
  OneOf({f \in [S -> FreshRegs] : \A t, u \in S : f[t] = f[u] => t = u})
\* A run of task t, whose context gets a deadline unless its definition has none.
NewRun(t, v, r, pc) ==
  [FreeRun EXCEPT !.pc = pc, !.task = t, !.reg = r, !.timed = v.def \notin UntimedDefs]

\* register(): the object whose loop is about to start.
LoopReg(t, v) == [FreeReg EXCEPT !.task = t, !.val = v, !.loop = "init"]
\* Mutant of AdHocReg: the registration does not count its run.
AdHocReg_NoRun(t, v, done, k) ==
  [FreeReg EXCEPT !.task = t, !.val = v, !.ctxDone = done]

\* RunNow on a task without a usable registration: no loop, a given parent context.
AdHocReg(t, v, done, k) ==
  [FreeReg EXCEPT !.task = t, !.val = v, !.ctxDone = done, !.run = k]

Enabled(v) == v.def \in EnabledDefs

\* Mutant of SlotFree: the registry admits every run.
SlotFree_Always(t) == TRUE

\* The registry holds no other run of the task: activeRunRegistry.register.
SlotFree(t) == active[t] = Nil

\* A store write takes old to new, or may fail where the instance lets it.
Attempt(old, new) == {new} \cup (IF StoreFaults THEN {old} ELSE {})

-----------------------------------------------------------------------------
Init ==
  /\ running = FALSE
  /\ life = "none"
  /\ tasks = [t \in Tasks |-> Nil]
  /\ reg = [r \in Regs |-> FreeReg]
  /\ run = [k \in Runs |-> FreeRun]
  /\ active = [t \in Tasks |-> Nil]
  /\ file \in [Tasks -> [def : Defs, last : {Nil}] \cup {Nil}]
  /\ logs = [k \in Runs |-> "none"]
  /\ cl = [c \in Callers |-> IdleCaller]
  /\ calls = 0 /\ fires = 0 /\ crashes = 0

-----------------------------------------------------------------------------
(* Process lifecycle *)

\* Start: no API call is served before it returns (serviceruntime/state.go), so
\* it is one step; it registers every enabled task found in the store.
Start ==
  /\ life = "none"
  /\ \E f \in Assignments({t \in Tasks : file[t] # Nil /\ Enabled(file[t])}) :
       /\ tasks' = [t \in Tasks |-> IF t \in DOMAIN f THEN f[t] ELSE Nil]
       /\ reg' = [r \in Regs |->
                    IF \E t \in DOMAIN f : f[t] = r
                    THEN LET t == CHOOSE u \in DOMAIN f : f[u] = r
                         IN  LoopReg(t, file[t])
                    ELSE reg[r]]
  /\ running' = TRUE
  /\ life' = "live"
  /\ UNCHANGED <<run, active, file, logs, cl, calls, fires, crashes>>

\* The process dies at any point: what is on disk stays, a run in flight is lost.
Crash ==
  /\ life # "none"
  /\ crashes < MaxCrashes
  /\ crashes' = crashes + 1
  /\ running' = FALSE
  /\ life' = "none"
  /\ tasks' = [t \in Tasks |-> Nil]
  /\ reg' = [r \in Regs |-> FreeReg]
  /\ run' = [k \in Runs |-> IF run[k].pc = "unused" THEN run[k]
                            ELSE [FreeRun EXCEPT !.pc = "lost", !.task = run[k].task]]
  /\ active' = [t \in Tasks |-> Nil]
  /\ cl' = [c \in Callers |-> IdleCaller]
  /\ UNCHANGED <<file, logs, calls, fires>>

-----------------------------------------------------------------------------
(* Callers *)

\* An idle caller issues operation op, within the bound on calls.
Issue(c, op) ==
  /\ cl[c].pc = "idle"
  /\ life # "none"
  /\ op \in Ops
  /\ calls < MaxCalls
  /\ calls' = calls + 1

\* The call is about to return res.
Returns(c, res) == cl' = [cl EXCEPT ![c] = [@ EXCEPT !.pc = "ret", !.res = res]]

\* LoadTask: the caller now holds the stored task.
Load(c, t) ==
  /\ cl[c].pc = "idle" /\ life # "none"
  /\ file[t] # Nil
  /\ cl' = [cl EXCEPT ![c] = [@ EXCEPT !.task = t, !.arg = file[t]]]
  /\ UNCHANGED <<running, life, tasks, reg, run, active, file, logs,
                 calls, fires, crashes>>

\* What a caller may save: a new task, or another definition for the one it holds.
Drafts(c, t) ==
  {v \in TaskVal : /\ v.last = Nil
                   /\ file[t] = Nil}
    \cup {v \in TaskVal : /\ cl[c].task = t
                          /\ v.last = cl[c].arg.last}

\* SaveTask by a caller, which then holds what it saved.
Save(c, t, v) ==
  /\ Issue(c, "save")
  /\ file' = [file EXCEPT ![t] = v]
  /\ cl' = [cl EXCEPT ![c] = [@ EXCEPT !.task = t, !.arg = v]]
  /\ UNCHANGED <<running, life, tasks, reg, run, active, logs, fires, crashes>>

\* The logs without those of task t.
Erased(t) == [k \in Runs |-> IF run[k].task = t THEN "none" ELSE logs[k]]

\* DeleteTask: the file, then the task's log directory, which may fail.
Delete(c, t) ==
  /\ Issue(c, "delete")
  /\ file[t] # Nil
  /\ file' = [file EXCEPT ![t] = Nil]
  /\ logs' \in Attempt(logs, Erased(t))
  /\ UNCHANGED <<running, life, tasks, reg, run, active, cl, fires, crashes>>

\* Every operation on a scheduler that does not run fails at once; a second Stop
\* finds nothing to do.
Refused(c, op) ==
  /\ Issue(c, op)
  /\ op \in {"unregister", "upsert", "run_now", "start_now"} => cl[c].task # Nil
  /\ op \in {"unregister", "upsert"} => c \in Mutators
  /\ ~running
  /\ cl' = [cl EXCEPT ![c] = [@ EXCEPT !.op = op, !.pc = "ret", !.res = "stopped"]]
  /\ UNCHANGED <<running, life, tasks, reg, run, active, file, logs,
                 fires, crashes>>

\* The s.mu section of Unregister and of prepareRegistration: retire and remove
\* the task's registration, if any, and wait for it at pc.
Detach(c, op, pc) ==
  /\ c \in Mutators
  /\ Issue(c, op)
  /\ cl[c].task # Nil
  /\ running
  /\ reg' = Retire(Registered(cl[c].task))
  /\ tasks' = Dropped(cl[c].task)
  /\ cl' = [cl EXCEPT ![c] = [@ EXCEPT !.op = op, !.pc = pc,
                                       !.drain = Registered(cl[c].task)]]
  /\ UNCHANGED <<running, life, run, active, file, logs, fires, crashes>>

Unregister(c) == Detach(c, "unregister", "draining")

\* Upsert: a disabled definition only unregisters.
Upsert(c) ==
  \/ Detach(c, "upsert", "replacing") /\ Enabled(cl[c].arg)
  \/ Detach(c, "upsert", "draining") /\ ~Enabled(cl[c].arg)

\* waitIdle has returned, then commitRegistration: the new registration goes in,
\* over whatever s.tasks holds by now.
Commit(c) ==
  /\ cl[c].pc = "replacing"
  /\ \A r \in cl[c].drain : Idle(r)
  /\ running
  /\ \E r \in NextReg :
       /\ reg' = [reg EXCEPT ![r] = LoopReg(cl[c].task, cl[c].arg)]
       /\ tasks' = [tasks EXCEPT ![cl[c].task] = r]
  /\ Returns(c, "ok")
  /\ UNCHANGED <<running, life, run, active, file, logs, calls, fires, crashes>>

\* The scheduler was stopped during the wait.
CommitRefused(c) ==
  /\ cl[c].pc = "replacing"
  /\ \A r \in cl[c].drain : Idle(r)
  /\ ~running
  /\ Returns(c, "stopped")
  /\ UNCHANGED <<running, life, tasks, reg, run, active, file, logs,
                 calls, fires, crashes>>

\* waitIdle of Unregister and Stop.
Drained(c) ==
  /\ cl[c].pc = "draining"
  /\ \A r \in cl[c].drain : Idle(r)
  /\ Returns(c, "ok")
  /\ UNCHANGED <<running, life, tasks, reg, run, active, file, logs,
                 calls, fires, crashes>>

\* Stop, under s.mu: every registration is retired and removed.
Stop(c) ==
  /\ Issue(c, "stop")
  /\ running
  /\ reg' = Retire({tasks[t] : t \in Tasks} \ {Nil})
  /\ cl' = [cl EXCEPT ![c] = [@ EXCEPT !.op = "stop", !.pc = "stopping",
                                       !.drain = {tasks[t] : t \in Tasks} \ {Nil}]]
  /\ tasks' = [t \in Tasks |-> Nil]
  /\ running' = FALSE
  /\ UNCHANGED <<life, run, active, file, logs, fires, crashes>>

\* Stop, after s.mu: the lifecycle context is cancelled, then it waits.
CancelLifecycle(c) ==
  /\ cl[c].pc = "stopping"
  /\ life' = "cancelled"
  /\ cl' = [cl EXCEPT ![c].pc = "draining"]
  /\ UNCHANGED <<running, tasks, reg, run, active, file, logs,
                 calls, fires, crashes>>

\* RunNow and StartNow up to runningTask: the registration is read under s.mu
\* and used after it.
Manual(c, op) ==
  /\ Issue(c, op)
  /\ op \in {"run_now", "start_now"}
  /\ cl[c].task # Nil
  /\ running
  /\ cl' = [cl EXCEPT ![c] = [@ EXCEPT !.op = op, !.pc = "begin",
                                       !.reg = tasks[cl[c].task]]]
  /\ UNCHANGED <<running, life, tasks, reg, run, active, file, logs,
                 fires, crashes>>

ManualWait(op) == IF op = "run_now" THEN "run" ELSE "start"

\* beginManualRun on the registration read before, if it can begin a run.
BeginManual(c, k) ==
  /\ cl[c].pc = "begin"
  /\ cl[c].reg # Nil
  /\ CanBegin(cl[c].reg)
  /\ reg' = [reg EXCEPT ![cl[c].reg] = [@ EXCEPT !.val = cl[c].arg, !.run = k]]
  /\ run' = [run EXCEPT ![k] = NewRun(cl[c].task, cl[c].arg, cl[c].reg, "begun")]
  /\ cl' = [cl EXCEPT ![c] = [@ EXCEPT !.pc = ManualWait(cl[c].op), !.run = k]]
  /\ UNCHANGED <<running, life, tasks, active, file, logs, calls, fires, crashes>>

\* beginManualRun without a registration, or on one retired meanwhile: an ad-hoc
\* registration whose parent is the lifecycle context, or the retired
\* registration's own, cancelled, loopCtx.
BeginAdHoc(c, k) ==
  /\ cl[c].pc = "begin"
  /\ cl[c].reg # Nil => reg[cl[c].reg].retired
  /\ \E r \in NextReg :
       /\ reg' = [reg EXCEPT ![r] =
                    AdHocReg(cl[c].task, cl[c].arg,
                             IF cl[c].reg = Nil THEN FALSE
                             ELSE reg[cl[c].reg].ctxDone, k)]
       /\ run' = [run EXCEPT ![k] = NewRun(cl[c].task, cl[c].arg, r, "begun")]
  /\ cl' = [cl EXCEPT ![c] = [@ EXCEPT !.pc = ManualWait(cl[c].op), !.run = k]]
  /\ UNCHANGED <<running, life, tasks, active, file, logs, calls, fires, crashes>>

\* beginManualRun finds a run under way: beginRun has still replaced r.task, and
\* a skipped log will be written under a new run id.
BeginSkipped(c, k) ==
  /\ cl[c].pc = "begin"
  /\ cl[c].reg # Nil
  /\ ~reg[cl[c].reg].retired /\ reg[cl[c].reg].run # Nil
  /\ reg' = [reg EXCEPT ![cl[c].reg].val = cl[c].arg]
  /\ run' = [run EXCEPT ![k] = NewRun(cl[c].task, cl[c].arg, Nil, "skip")]
  /\ cl' = [cl EXCEPT ![c] = [@ EXCEPT !.pc = "skip", !.run = k]]
  /\ UNCHANGED <<running, life, tasks, active, file, logs, calls, fires, crashes>>

\* AppendRunLog of a manual run's skipped log.
AppendSkipped(c) ==
  /\ cl[c].pc = "skip"
  /\ logs' \in Attempt(logs, [logs EXCEPT ![cl[c].run] = "skipped"])
  /\ Returns(c, IF logs'[cl[c].run] = "skipped" THEN "skipped" ELSE "error")
  /\ run' = [run EXCEPT ![cl[c].run].pc = "done"]
  /\ UNCHANGED <<running, life, tasks, reg, active, file, calls, fires, crashes>>

\* RunNow returns with its run; the caller's goroutine ran it.
RunNowDone(c) ==
  /\ cl[c].pc = "run"
  /\ run[cl[c].run].pc = "done"
  /\ Returns(c, IF run[cl[c].run].failed THEN "error" ELSE run[cl[c].run].final)
  /\ UNCHANGED <<running, life, tasks, reg, run, active, file, logs,
                 calls, fires, crashes>>

\* StartNow returns the running log once it is written; the rest of the run
\* goes on in a goroutine of its own.
StartNowDone(c) ==
  /\ cl[c].pc = "start"
  /\ run[cl[c].run].started \/ run[cl[c].run].pc = "done"
  /\ Returns(c, IF run[cl[c].run].started THEN "running" ELSE "error")
  /\ UNCHANGED <<running, life, tasks, reg, run, active, file, logs,
                 calls, fires, crashes>>

\* StopRun looks the run up by task and run id.
StopRun(c, k) ==
  /\ Issue(c, "stop_run")
  /\ logs[k] # "none"
  /\ active[run[k].task] = k
  /\ cl' = [cl EXCEPT ![c] = [@ EXCEPT !.op = "stop_run", !.pc = "cancel", !.run = k]]
  /\ UNCHANGED <<running, life, tasks, reg, run, active, file, logs,
                 fires, crashes>>

\* ErrTaskRunNotRunning.
StopRunMisses(c, k) ==
  /\ Issue(c, "stop_run")
  /\ logs[k] # "none"
  /\ active[run[k].task] # k
  /\ cl' = [cl EXCEPT ![c] = [@ EXCEPT !.op = "stop_run", !.pc = "ret", !.run = k,
                                       !.res = "not_running"]]
  /\ UNCHANGED <<running, life, tasks, reg, run, active, file, logs,
                 fires, crashes>>

\* handle.cancel().
CancelRun(c) ==
  /\ cl[c].pc = "cancel"
  /\ run' = [run EXCEPT ![cl[c].run].cancelled = TRUE]
  /\ cl' = [cl EXCEPT ![c].pc = "await"]
  /\ UNCHANGED <<running, life, tasks, reg, active, file, logs,
                 calls, fires, crashes>>

\* Mutants of HandleDone: done is closed before the slot is freed, or only for a
\* run that the cancellation stopped.
HandleDone_Early(k) == run[k].pc \in {"finishing", "releasing", "done"}
HandleDone_Cancelled(k) == run[k].pc = "done" /\ run[k].final = "cancelled"

\* handle.wait and finalRun: the run's final log, or not_running if it left none;
\* or the caller's own context ends the wait.
HandleDone(k) == run[k].pc \in {"releasing", "done"}
StopRunDone(c) ==
  /\ cl[c].pc = "await"
  /\ HandleDone(cl[c].run)
  /\ Returns(c, LET res == run[cl[c].run].final
                IN  IF res = "none" THEN "not_running" ELSE res)
  /\ UNCHANGED <<running, life, tasks, reg, run, active, file, logs,
                 calls, fires, crashes>>

StopRunTimeout(c) ==
  /\ cl[c].pc = "await"
  /\ Returns(c, "timeout")
  /\ UNCHANGED <<running, life, tasks, reg, run, active, file, logs,
                 calls, fires, crashes>>

\* The call returns to the client, which keeps the task it holds.
Return(c) ==
  /\ cl[c].pc = "ret"
  /\ cl' = [cl EXCEPT ![c] = [IdleCaller EXCEPT !.task = cl[c].task,
                                                !.arg = cl[c].arg]]
  /\ UNCHANGED <<running, life, tasks, reg, run, active, file, logs,
                 calls, fires, crashes>>

-----------------------------------------------------------------------------
(* Timer loops: runTaskLoop *)

\* Mutant of MayPersist: a loop cancelled before its first persist stays there.
MayPersist_Alive(r) == reg[r].loop \in {"init", "next"} /\ ~CtxDone(r)

\* runTaskLoop persists the next run first, and after a timer if loopCtx is alive.
MayPersist(r) ==
  \/ reg[r].loop = "init"
  \/ reg[r].loop = "next" /\ ~CtxDone(r)

\* persistNextRun's r.mu section: r.task is copied, to be saved outside r.mu ...
Persist(r) ==
  /\ MayPersist(r)
  /\ reg[r].run = Nil
  /\ reg' = [reg EXCEPT ![r] = [@ EXCEPT !.loop = "save", !.tmp = reg[r].val]]
  /\ UNCHANGED <<running, life, tasks, run, active, file, logs, cl,
                 calls, fires, crashes>>

\* ... but not while a run is under way, which will save the task itself.
PersistLater(r) ==
  /\ MayPersist(r)
  /\ reg[r].run # Nil
  /\ reg' = [reg EXCEPT ![r].loop = "wait"]
  /\ UNCHANGED <<running, life, tasks, run, active, file, logs, cl,
                 calls, fires, crashes>>

\* SaveTask of that copy; a failure is only logged.
PersistSave(r) ==
  /\ reg[r].loop = "save"
  /\ file' \in Attempt(file, [file EXCEPT ![reg[r].task] = reg[r].tmp])
  /\ reg' = [reg EXCEPT ![r] = [@ EXCEPT !.loop = "wait", !.tmp = Nil]]
  /\ UNCHANGED <<running, life, tasks, run, active, logs, cl,
                 calls, fires, crashes>>

\* The timer goes off (also when loopCtx is done: select picks either), and
\* fireTask takes its snapshot.
Fire(r) ==
  /\ reg[r].loop = "wait"
  /\ fires < MaxFires
  /\ fires' = fires + 1
  /\ reg' = [reg EXCEPT ![r] = [@ EXCEPT !.loop = "fired", !.tmp = reg[r].val]]
  /\ UNCHANGED <<running, life, tasks, run, active, file, logs, cl,
                 calls, crashes>>

\* fireTask's beginRun: the snapshot becomes r.task and a run goroutine starts.
FireBegin(r, k) ==
  /\ reg[r].loop = "fired"
  /\ CanBegin(r)
  /\ reg' = [reg EXCEPT ![r] = [@ EXCEPT !.loop = "next", !.val = reg[r].tmp,
                                         !.tmp = Nil, !.run = k]]
  /\ run' = [run EXCEPT ![k] = NewRun(reg[r].task, reg[r].tmp, r, "begun")]
  /\ UNCHANGED <<running, life, tasks, active, file, logs, cl,
                 calls, fires, crashes>>

\* A run is under way: r.task is replaced all the same, and a skipped log is
\* appended (no other step reads it in between, so it is part of this one).
FireSkipped(r, k) ==
  /\ reg[r].loop = "fired"
  /\ ~reg[r].retired /\ reg[r].run # Nil
  /\ reg' = [reg EXCEPT ![r] = [@ EXCEPT !.loop = "next", !.val = reg[r].tmp,
                                         !.tmp = Nil]]
  /\ run' = [run EXCEPT ![k] = NewRun(reg[r].task, reg[r].tmp, Nil, "done")]
  /\ logs' \in Attempt(logs, [logs EXCEPT ![k] = "skipped"])
  /\ UNCHANGED <<running, life, tasks, active, file, cl, calls, fires, crashes>>

\* A retired registration skips without a trace.
FireRetired(r) ==
  /\ reg[r].loop = "fired"
  /\ reg[r].retired
  /\ reg' = [reg EXCEPT ![r] = [@ EXCEPT !.loop = "next", !.tmp = Nil]]
  /\ UNCHANGED <<running, life, tasks, run, active, file, logs, cl,
                 calls, fires, crashes>>

LoopExit(r) ==
  /\ reg[r].loop \in {"wait", "next"}
  /\ CtxDone(r)
  /\ reg' = [reg EXCEPT ![r].loop = "exited"]
  /\ UNCHANGED <<running, life, tasks, run, active, file, logs, cl,
                 calls, fires, crashes>>

-----------------------------------------------------------------------------
(* Run goroutines: executeRun, or startPreparedManualRun and then            *)
(* executeStartedManualRun, which take the same steps.                       *)

\* startActiveRun takes the task's slot.
RegisterActive(k) ==
  /\ run[k].pc = "begun"
  /\ SlotFree(run[k].task)
  /\ active' = [active EXCEPT ![run[k].task] = k]
  /\ run' = [run EXCEPT ![k].pc = "active"]
  /\ UNCHANGED <<running, life, tasks, reg, file, logs, cl, calls, fires, crashes>>

\* The task has an active run: this one ends with an error and leaves no log.
RejectActive(k) ==
  /\ run[k].pc = "begun"
  /\ ~SlotFree(run[k].task)
  /\ run' = [run EXCEPT ![k] = [@ EXCEPT !.pc = "releasing", !.failed = TRUE]]
  /\ UNCHANGED <<running, life, tasks, reg, active, file, logs, cl,
                 calls, fires, crashes>>

\* Mutant of Unslot: the slot is never given back.
Unslot_Never(k) == active

\* The registry forgets a handle only if it is the current one.
Unslot(k) ==
  IF active[run[k].task] = k THEN [active EXCEPT ![run[k].task] = Nil] ELSE active

\* appendRunningRunLog: prepare the session and write the running log, ...
StartLog(k) ==
  /\ run[k].pc = "active"
  /\ logs' = [logs EXCEPT ![k] = "running"]
  /\ run' = [run EXCEPT ![k] = [@ EXCEPT !.pc = "executing", !.started = TRUE]]
  /\ UNCHANGED <<running, life, tasks, reg, active, file, cl, calls, fires, crashes>>

\* ... or discard the active run.
StartLogFails(k) ==
  /\ StoreFaults
  /\ run[k].pc = "active"
  /\ active' = Unslot(k)
  /\ run' = [run EXCEPT ![k] = [@ EXCEPT !.pc = "releasing", !.failed = TRUE]]
  /\ UNCHANGED <<running, life, tasks, reg, file, logs, cl, calls, fires, crashes>>

\* Mutant of MayReport: a progress report may still be on its way at the end.
MayReport_Late(k) == run[k].pc \in {"executing", "saving", "logging", "finishing"}

\* WriteRunningRunLog by the executor's run cards: the running log is rewritten.
MayReport(k) == run[k].pc = "executing"
Progress(k) ==
  /\ MayReport(k)
  /\ logs' = [logs EXCEPT ![k] = "running"]
  /\ UNCHANGED <<running, life, tasks, reg, run, active, file, cl,
                 calls, fires, crashes>>

\* Mutants of FinalOutcome: the deadline gets a status of its own, or leaves the
\* run's status as it was.
FinalOutcome_Timeout(k, st, late) == IF late THEN "timeout" ELSE st
FinalOutcome_Unchanged(k, st, late) == IF late THEN "running" ELSE st

\* finalizeExecutionResult: the context's error overrides the executor's status.
\* late: the deadline came first, before any cancellation.
FinalOutcome(k, st, late) ==
  IF late THEN "error" ELSE IF Cancelled(k) THEN "cancelled" ELSE st

\* The executor returns st, and persistFinishedRun records the run in r.task and
\* copies it under r.mu.
ExecReturn(k, st, late) ==
  /\ run[k].pc = "executing"
  /\ late => run[k].timed
  /\ LET r == run[k].reg
         v == [reg[r].val EXCEPT !.last = k]
     IN  /\ reg' = [reg EXCEPT ![r] = [@ EXCEPT !.val = v]]
         /\ run' = [run EXCEPT ![k] = [@ EXCEPT !.pc = "saving", !.upd = v,
                                                !.status = FinalOutcome(k, st, late)]]
  /\ UNCHANGED <<running, life, tasks, active, file, logs, cl,
                 calls, fires, crashes>>

\* SaveTask of the copy.
SaveResult(k) ==
  /\ run[k].pc = "saving"
  /\ file' = [file EXCEPT ![run[k].task] = run[k].upd]
  /\ run' = [run EXCEPT ![k] = [@ EXCEPT !.pc = "logging", !.upd = Nil]]
  /\ UNCHANGED <<running, life, tasks, reg, active, logs, cl, calls, fires, crashes>>

\* It fails: the run ends with no final log.
SaveResultFails(k) ==
  /\ StoreFaults
  /\ run[k].pc = "saving"
  /\ run' = [run EXCEPT ![k] = [@ EXCEPT !.pc = "finishing", !.upd = Nil,
                                         !.failed = TRUE]]
  /\ UNCHANGED <<running, life, tasks, reg, active, file, logs, cl,
                 calls, fires, crashes>>

\* AppendRunLog of the final log; the run is final even if this write fails.
LogResult(k) ==
  /\ run[k].pc = "logging"
  /\ logs' \in Attempt(logs, [logs EXCEPT ![k] = run[k].status])
  /\ run' = [run EXCEPT ![k] = [@ EXCEPT !.pc = "finishing",
                                         !.final = run[k].status,
                                         !.failed = logs'[k] # run[k].status]]
  /\ UNCHANGED <<running, life, tasks, reg, active, file, cl, calls, fires, crashes>>

\* finishActiveRun: the final log is published, the slot freed, done closed.
FinishActive(k) ==
  /\ run[k].pc = "finishing"
  /\ active' = Unslot(k)
  /\ run' = [run EXCEPT ![k].pc = "releasing"]
  /\ UNCHANGED <<running, life, tasks, reg, file, logs, cl, calls, fires, crashes>>

\* Mutant of Release: the registration still counts its run.
Release_KeepsRun(k) ==
  /\ run[k].pc = "releasing"
  /\ run' = [run EXCEPT ![k].pc = "done"]
  /\ UNCHANGED <<running, life, tasks, reg, active, file, logs, cl,
                 calls, fires, crashes>>

\* finishRun: the registration can begin another run, and runWG drops.
Release(k) ==
  /\ run[k].pc = "releasing"
  /\ reg' = [reg EXCEPT ![run[k].reg].run = Nil]
  /\ run' = [run EXCEPT ![k].pc = "done"]
  /\ UNCHANGED <<running, life, tasks, active, file, logs, cl, calls, fires, crashes>>

-----------------------------------------------------------------------------
(* The specification *)

CallStep(c) ==
  \/ \E t \in Tasks : Load(c, t) \/ Delete(c, t)
  \/ \E t \in Tasks : \E v \in Drafts(c, t) : Save(c, t, v)
  \/ Unregister(c) \/ Upsert(c) \/ Stop(c)
  \/ \E op \in {"run_now", "start_now"} : Manual(c, op)
  \/ \E op \in {"unregister", "upsert", "stop", "run_now", "start_now"} : Refused(c, op)
  \/ \E k \in Runs : StopRun(c, k) \/ StopRunMisses(c, k)

\* What a call does once issued.  Waiting for the client's own deadline
\* (StopRunTimeout) is not something a call is bound to do.
Resume(c) ==
  \/ Commit(c) \/ CommitRefused(c) \/ Drained(c) \/ CancelLifecycle(c)
  \/ \E k \in NextRun : BeginManual(c, k) \/ BeginAdHoc(c, k) \/ BeginSkipped(c, k)
  \/ AppendSkipped(c) \/ RunNowDone(c) \/ StartNowDone(c)
  \/ CancelRun(c) \/ StopRunDone(c) \/ Return(c)

LoopStep(r) ==
  \/ Persist(r) \/ PersistLater(r) \/ PersistSave(r) \/ FireRetired(r) \/ LoopExit(r)
  \/ \E k \in NextRun : FireBegin(r, k) \/ FireSkipped(r, k)

\* What an executor may return.
Outcomes == {"success", "error"}
RunStep(k) ==
  \/ RegisterActive(k) \/ RejectActive(k) \/ StartLog(k) \/ StartLogFails(k)
  \/ SaveResult(k) \/ SaveResultFails(k) \/ LogResult(k)
  \/ FinishActive(k) \/ Release(k)
  \/ \E st \in Outcomes, late \in BOOLEAN : ExecReturn(k, st, late)

Next ==
  \/ Start \/ Crash
  \/ \E c \in Callers : CallStep(c) \/ Resume(c) \/ StopRunTimeout(c)
  \/ \E r \in Regs : LoopStep(r) \/ Fire(r)
  \/ \E k \in Runs : RunStep(k) \/ Progress(k)

Spec == Init /\ [][Next]_vars

\* Nothing ends this run: its context has no deadline, and nobody has cancelled it.
Endless(k) == run[k].pc = "executing" /\ ~run[k].timed /\ ~Cancelled(k)

\* A goroutine that can move does.  An executor returns once its context is done, so
\* it does if the context has a deadline (beginRun) or is cancelled.
Fairness ==
  /\ \A c \in Callers : WF_vars(Resume(c))
  /\ \A r \in Regs : WF_vars(LoopStep(r))
  /\ \A k \in Runs : WF_vars(~Endless(k) /\ RunStep(k))

FairSpec == Spec /\ Fairness

-----------------------------------------------------------------------------
(* Properties *)

RegRec == [task : Tasks \cup {Nil}, val : TaskVal \cup {Nil}, retired : BOOLEAN,
           ctxDone : BOOLEAN, run : Runs \cup {Nil}, loop : LoopPc,
           tmp : TaskVal \cup {Nil}]
RunRec == [pc : RunPc, task : Tasks \cup {Nil}, reg : Regs \cup {Nil},
           cancelled : BOOLEAN, timed : BOOLEAN, started : BOOLEAN,
           failed : BOOLEAN, status : FinalStatus \cup {"none"},
           upd : TaskVal \cup {Nil}, final : FinalStatus \cup {"none"}]
CallerRec == [pc : CallerPc,
              op : OpNames \cup {Nil},
              task : Tasks \cup {Nil}, arg : TaskVal \cup {Nil},
              reg : Regs \cup {Nil}, drain : SUBSET Regs,
              run : Runs \cup {Nil}, res : Results]

\* Every variable keeps its type.
TypeOK ==
  /\ running \in BOOLEAN
  /\ life \in {"none", "live", "cancelled"}
  /\ tasks \in [Tasks -> Regs \cup {Nil}]
  /\ reg \in [Regs -> RegRec]
  /\ run \in [Runs -> RunRec]
  /\ active \in [Tasks -> Runs \cup {Nil}]
  /\ file \in [Tasks -> TaskVal \cup {Nil}]
  /\ logs \in [Runs -> Status]
  /\ cl \in [Callers -> CallerRec]
  /\ calls \in Nat /\ fires \in Nat /\ crashes \in Nat

\* The run holds the task's slot in the active-run registry.
InFlight(k) == run[k].pc \in {"active", "executing", "saving", "logging", "finishing"}
\* The run's goroutine still has steps to take on behalf of its registration.
Unfinished(k) == InFlight(k) \/ run[k].pc \in {"begun", "releasing"}

\* However many registrations, loops and ad-hoc runs a task has had, its executor
\* never runs twice at once: the registry admits one run until that run's final
\* log is written and published (active_runs.go, run_executor.go:22).
SingleFlight ==
  \A j, k \in Runs :
    InFlight(j) /\ InFlight(k) /\ run[j].task = run[k].task => j = k

\* s.tasks never leads to a retired registration, nor to another task's: only a
\* pointer read earlier can (RunNow's fallback, scheduler_manual.go:13).
TasksAreLive ==
  \A t \in Tasks : tasks[t] # Nil =>
    /\ running
    /\ reg[tasks[t]].task = t
    /\ ~reg[tasks[t]].retired
    /\ reg[tasks[t]].loop # "none"

\* When Unregister, Upsert or Stop has waited for a registration, no goroutine
\* works for it any more: its loop is closed and all its runs have finished
\* their last store write (waitIdle, registration.go:34).
BarrierHolds ==
  \A c \in Callers : cl[c].pc = "ret" =>
    \A r \in cl[c].drain :
      /\ reg[r].retired
      /\ reg[r].loop = "exited"
      /\ \A k \in Runs : run[k].reg = r => ~Unfinished(k)

\* ... and none ever will again: a caller that still holds the pointer cannot
\* start a run on it, so nothing it remembered of the task is written later.
RetiredStaysQuiet ==
  [][\A r \in Regs :
       reg[r].retired /\ Idle(r) /\ life' # "none" => reg'[r] = reg[r]]_vars

\* Once Unregister has returned, alone, the task has no loop that can still fire.  Two
\* Upserts that overlap leave one behind: Commit overwrites the first registration.
UnregisterSilences ==
  \A c \in Callers :
    /\ cl[c].pc = "ret" /\ cl[c].op = "unregister" /\ cl[c].res = "ok"
    /\ tasks[cl[c].task] = Nil
    /\ \A d \in Callers \ {c} : cl[d].pc = "idle"
    => \A r \in Regs :
         reg[r].task = cl[c].task => reg[r].loop \in {"none", "exited"} \/ CtxDone(r)

\* A final run log is never turned back into a running one by a late progress
\* report, nor into another outcome; it can only be deleted with its task.
FinalLogSticks ==
  [][\A k \in Runs :
       logs[k] \in FinalStatus => logs'[k] \in {logs[k], "none"}]_vars

\* A running log on disk belongs to a run in flight (no crash, no store fault:
\* nothing repairs the log of a run that died or could not save its task).
RunningLogIsLive ==
  \A k \in Runs : logs[k] = "running" => InFlight(k)

\* A StopRun that reports a stopped run reports that very run's final outcome,
\* the one on disk, and the task can be run again.
StopRunAnswer ==
  \A c \in Callers :
    cl[c].pc = "ret" /\ cl[c].op = "stop_run" /\ cl[c].res \in FinalStatus =>
      /\ run[cl[c].run].final = cl[c].res
      /\ ~InFlight(cl[c].run)
      /\ active[run[cl[c].run].task] # cl[c].run
      /\ StoreFaults \/ logs[cl[c].run] \in {cl[c].res, "none"}

\* Why the invariants above hold: a registration knows the run that holds it
\* and a run its registration; a retired registration never gets a run back; a
\* caller waits only for retired registrations.
RegOK(r) ==
  /\ reg[r].task = Nil =>
       ~reg[r].retired /\ reg[r].run = Nil /\ reg[r].loop = "none"
  /\ reg[r].task # Nil => reg[r].val \in TaskVal
  /\ reg[r].loop \in {"save", "fired"} => reg[r].tmp \in TaskVal
  /\ reg[r].run # Nil =>
       Unfinished(reg[r].run) /\ run[reg[r].run].reg = r

RunOK(k) ==
  /\ run[k].pc # "unused" => run[k].task \in Tasks
  /\ Unfinished(k) =>
       /\ run[k].reg \in Regs
       /\ reg[run[k].reg].task # Nil
       /\ reg[run[k].reg].run = k
  /\ run[k].pc = "saving" => run[k].upd \in TaskVal
  /\ run[k].pc \in {"saving", "logging"} => run[k].status \in FinalStatus
  /\ InFlight(k) => active[run[k].task] = k
  /\ logs[k] # "none" => run[k].pc # "unused"
  /\ logs[k] \in FinalStatus =>
       run[k].pc \in {"finishing", "releasing", "done", "lost"}

CallerOK(c) ==
  /\ cl[c].task # Nil => cl[c].arg \in TaskVal
  /\ cl[c].pc \in {"replacing", "begin"} => cl[c].task # Nil
  /\ cl[c].pc \in {"skip", "run", "start", "cancel", "await"} =>
       cl[c].run \in Runs /\ run[cl[c].run].pc # "unused"
  /\ cl[c].pc = "skip" => run[cl[c].run].pc = "skip"
  /\ cl[c].reg # Nil => reg[cl[c].reg].task # Nil

DrainOK(c) ==
  /\ cl[c].pc \notin {"replacing", "draining", "stopping", "ret"} => cl[c].drain = {}
  /\ \A r \in cl[c].drain :
       /\ reg[r].retired /\ reg[r].task # Nil /\ reg[r].loop # "none"
       /\ cl[c].pc = "ret" => Idle(r)

\* A skipped log is written by the call that was refused.
OneSkipper ==
  \A c, d \in Callers :
    cl[c].pc = "skip" /\ cl[d].pc = "skip" /\ cl[c].run = cl[d].run => c = d

IInv ==
  /\ TypeOK
  /\ TasksAreLive
  /\ \A r \in Regs : RegOK(r)
  /\ \A k \in Runs : RunOK(k)
  /\ \A c \in Callers : CallerOK(c) /\ DrainOK(c)
  /\ OneSkipper

\* Seen through its slots, phases and logs, the scheduler is TaskRuns.
Phase(k) ==
  IF InFlight(k) THEN "running"
  ELSE IF run[k].pc \in {"unused", "begun"} THEN "new" ELSE "over"

Abs == INSTANCE TaskRuns WITH slot <- active, log <- logs,
                                phase <- [k \in Runs |-> Phase(k)]

\* Every step of the scheduler, crashes and store faults included, is a step of
\* TaskRuns or leaves its view unchanged.
ImplementsTaskRuns == Abs!AbsSpec

\* Every API call returns: no wait for a loop, a run or a handle is for ever, whatever
\* retires, cancels or times out meanwhile.  Only a RunNow may wait for a run without
\* a deadline; Unregister, Upsert, Stop and StopRun cancel what they wait for.
CallsReturn ==
  \A c \in Callers :
    []<>(cl[c].pc = "idle" \/ (cl[c].pc = "run" /\ Endless(cl[c].run)))

\* A running log becomes final (no crash, no store fault), unless its run has no
\* deadline and is never cancelled.
LogsSettle == \A k \in Runs : []<>(logs[k] # "running" \/ Endless(k))

\* Stop ends every loop and run of the process, the ad-hoc runs that it does not
\* wait for included.
StopQuiesces ==
  []<>(life = "cancelled" =>
         (\A r \in Regs : Idle(r)) /\ (\A k \in Runs : ~Unfinished(k)))

=============================================================================
