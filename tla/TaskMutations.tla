----------------------------- MODULE TaskMutations -----------------------------
(***************************************************************************)
(* The task API's MutationRunner (orchestration/internal/app/tasks) over    *)
(* the scheduler and the store: Create, Update and Delete with their        *)
(* rollbacks, RunNow, StartNow and Stop, each a sequence of the calls that  *)
(* TaskScheduler models, with the scheduler's own steps in between.  A      *)
(* mutation reads the task file first and uses what it read until its end.  *)
(***************************************************************************)
EXTENDS TaskScheduler

CONSTANT MaxMutations  \* bound on API requests

ASSUME MutationsAssumption == MaxMutations \in Nat

VARIABLES
  mr,    \* a client's request: which, the next thing it does, the task it loaded
  muts,  \* requests issued so far
  byHand \* history: the tasks a run of which was asked for by hand

mvars == <<vars, mr, muts, byHand>>

NoRequest == [op |-> "none", step |-> "none", prev |-> Nil, def |-> Nil,
              unsaved |-> FALSE]

MInit ==
  /\ Init
  /\ mr = [c \in Callers |-> NoRequest]
  /\ muts = 0
  /\ byHand = {}

At(c, op, step) == mr[c].op = op /\ mr[c].step = step
Go(c, step) == mr' = [mr EXCEPT ![c].step = step] /\ UNCHANGED <<muts, byHand>>
\* To the rollback's Upsert, with the previous task in hand but not saved.
GoUnsaved(c) ==
  mr' = [mr EXCEPT ![c].step = "restore", ![c].unsaved = TRUE] /\ UNCHANGED <<muts, byHand>>
Finish(c) == mr' = [mr EXCEPT ![c] = NoRequest] /\ UNCHANGED <<muts, byHand>>

NewRequest(c, op, step, d) ==
  /\ mr[c] = NoRequest
  /\ muts < MaxMutations
  /\ muts' = muts + 1
  /\ mr' = [mr EXCEPT ![c] = [op |-> op, step |-> step, prev |-> Nil, def |-> d,
                              unsaved |-> FALSE]]
  /\ UNCHANGED byHand

\* The scheduler call of the current step has returned: with "ok", or stopped.
Returned(c, ok) == Return(c) /\ ((cl[c].res = "ok") <=> ok)

CallUpsert(c) == Upsert(c) \/ Refused(c, "upsert")

\* A SaveTask of the request fails: nothing changes but the request.
SaveFails(c) == StoreFaults /\ cl[c].pc = "idle" /\ UNCHANGED vars

\* A DeleteTask that finds no file, or cannot remove it.
DeleteMisses(c) ==
  /\ cl[c].pc = "idle" /\ (StoreFaults \/ file[cl[c].task] = Nil)
  /\ UNCHANGED vars

-----------------------------------------------------------------------------
(* Create: save, register; on failure delete the file. *)

\* newTaskID: no file, registration or run ever had this identifier.
NewId(t) ==
  /\ file[t] = Nil
  /\ \A r \in Regs : reg[r].task # t
  /\ \A k \in Runs : run[k].task # t

\* A task is created disabled.
Create(c, t, d) ==
  /\ NewId(t)
  /\ d \notin EnabledDefs
  /\ Save(c, t, [def |-> d, last |-> Nil])
  /\ c \in Mutators
  /\ NewRequest(c, "create", "upsert", d)
CreateUpsert(c) ==
  At(c, "create", "upsert") /\ CallUpsert(c) /\ Go(c, "upserted")
CreateEnds(c) ==
  At(c, "create", "upserted") /\ Returned(c, TRUE) /\ Finish(c)
CreateFails(c) ==
  At(c, "create", "upserted") /\ Returned(c, FALSE) /\ Go(c, "undo")
\* The error of this DeleteTask is dropped: the task may stay.
CreateUndo(c) ==
  /\ At(c, "create", "undo")
  /\ Delete(c, cl[c].task) \/ DeleteMisses(c)
  /\ Finish(c)

-----------------------------------------------------------------------------
(* Every other request loads the task first; d is Update's new definition. *)

LoadForMutation(c, t, op, d) ==
  /\ op \in {"update", "delete"} => c \in Mutators
  /\ Load(c, t)
  /\ mr[c] = NoRequest
  /\ muts < MaxMutations
  /\ muts' = muts + 1
  /\ mr' = [mr EXCEPT ![c] = [op |-> op, step |-> "loaded",
                              prev |-> file[t], def |-> d, unsaved |-> FALSE]]
  /\ byHand' = IF op \in {"run_now", "start_now"} THEN byHand \cup {t} ELSE byHand

(* Update: unregister, save, register, restoring the previous task on failure. *)
Detaching(c) ==
  /\ mr[c].op \in {"update", "delete"} /\ mr[c].step = "loaded"
  /\ (Unregister(c) \/ Refused(c, "unregister"))
  /\ Go(c, "detached")
\* Unregister fails on a stopped scheduler, and the request with it.
DetachFails(c) ==
  mr[c].step = "detached" /\ Returned(c, FALSE) /\ Finish(c)
Detached(c) ==
  mr[c].step = "detached" /\ Returned(c, TRUE) /\ Go(c, "write")

UpdateSave(c) ==
  /\ At(c, "update", "write")
  /\ Save(c, cl[c].task, [mr[c].prev EXCEPT !.def = mr[c].def])
  /\ Go(c, "saved")
\* Mutant of UpdateSaveFails: what is put back is the new task.
UpdateSaveFails_KeepsNew(c) ==
  /\ At(c, "update", "write")
  /\ StoreFaults /\ cl[c].pc = "idle"
  /\ cl' = [cl EXCEPT ![c].arg = [mr[c].prev EXCEPT !.def = mr[c].def]]
  /\ UNCHANGED <<running, life, tasks, reg, run, active, file, logs,
                 calls, fires, crashes>>
  /\ Go(c, "restore")

UpdateSaveFails(c) ==
  At(c, "update", "write") /\ SaveFails(c) /\ Go(c, "restore")
\* Mutant of UpdateUpsert: the saved task is not registered.
UpdateUpsert_Omitted(c) == At(c, "update", "saved") /\ Finish(c) /\ UNCHANGED vars

UpdateUpsert(c) ==
  At(c, "update", "saved") /\ CallUpsert(c) /\ Go(c, "upserted")
UpdateEnds(c) ==
  At(c, "update", "upserted") /\ Returned(c, TRUE) /\ Finish(c)
UpdateUpsertFails(c) ==
  At(c, "update", "upserted") /\ Returned(c, FALSE) /\ Go(c, "rewrite")

-----------------------------------------------------------------------------
(* Delete: unregister, remove the files, restoring the task on failure. *)

DeleteEnds(c) ==
  /\ At(c, "delete", "write")
  /\ Delete(c, cl[c].task) /\ logs' = Erased(cl[c].task)
  /\ Finish(c)
\* Removing the file fails, or finds none, or the file goes and its logs stay: the
\* task that was loaded is put back.
DeleteFails(c) ==
  /\ At(c, "delete", "write")
  /\ DeleteMisses(c) \/ (StoreFaults /\ Delete(c, cl[c].task) /\ logs' = logs)
  /\ Go(c, "rewrite")

-----------------------------------------------------------------------------
(* The rollbacks: rollbackPersistedTaskUpdate and rollbackTaskDeletion save   *)
(* the previous task and register it whether or not that worked;              *)
(* restoreTaskRegistration only registers it.                                 *)

Rewrite(c) ==
  /\ mr[c].step = "rewrite"
  /\ Save(c, cl[c].task, mr[c].prev)
  /\ Go(c, "restore")
RewriteFails(c) ==
  /\ mr[c].step = "rewrite"
  /\ StoreFaults /\ cl[c].pc = "idle"
  /\ cl' = [cl EXCEPT ![c].arg = mr[c].prev]
  /\ UNCHANGED <<running, life, tasks, reg, run, active, file, logs,
                 calls, fires, crashes>>
  /\ GoUnsaved(c)
Restore(c) ==
  /\ mr[c].step = "restore"
  /\ CallUpsert(c)
  /\ Go(c, "restored")
RestoreEnds(c) == mr[c].step = "restored" /\ Return(c) /\ Finish(c)

-----------------------------------------------------------------------------
(* RunNow, StartNow, Stop *)

RunRequest(c) ==
  /\ mr[c].step = "loaded" /\ mr[c].op \in {"run_now", "start_now"}
  /\ (Manual(c, mr[c].op) \/ Refused(c, mr[c].op))
  /\ Go(c, "ran")
StopRequest(c) ==
  /\ At(c, "stop_run", "loaded")
  /\ \E k \in Runs : run[k].task = cl[c].task /\ (StopRun(c, k) \/ StopRunMisses(c, k))
  /\ Go(c, "ran")
RunEnds(c) == mr[c].step = "ran" /\ Return(c) /\ Finish(c)

\* The process stops at shutdown.
Shutdown(c) ==
  mr[c] = NoRequest /\ (Stop(c) \/ Refused(c, "stop")) /\ NewRequest(c, "stop", "ran", Nil)

-----------------------------------------------------------------------------
MCall(c) ==
  \/ \E t \in Tasks, d \in Defs : Create(c, t, d) \/ LoadForMutation(c, t, "update", d)
  \/ \E t \in Tasks, op \in {"delete", "run_now", "start_now", "stop_run"} \cap Ops :
       LoadForMutation(c, t, op, Nil)
  \/ Shutdown(c)

MResume(c) ==
  \/ CreateUpsert(c) \/ CreateEnds(c) \/ CreateFails(c) \/ CreateUndo(c)
  \/ Detaching(c) \/ DetachFails(c) \/ Detached(c)
  \/ UpdateSave(c) \/ UpdateSaveFails(c) \/ UpdateUpsert(c)
  \/ UpdateEnds(c) \/ UpdateUpsertFails(c)
  \/ DeleteEnds(c) \/ DeleteFails(c)
  \/ Rewrite(c) \/ RewriteFails(c) \/ Restore(c) \/ RestoreEnds(c)
  \/ RunRequest(c) \/ StopRequest(c) \/ RunEnds(c)

\* The scheduler's own steps, with no new call and no return.
Background ==
  \/ Start
  \/ \E c \in Callers : (Resume(c) /\ cl[c].pc # "ret") \/ StopRunTimeout(c)
  \/ \E r \in Regs : LoopStep(r) \/ Fire(r)
  \/ \E k \in Runs : RunStep(k) \/ Progress(k)

\* A crash ends the requests with the process.
MCrash == Crash /\ mr' = [c \in Callers |-> NoRequest] /\ UNCHANGED <<muts, byHand>>

MNext ==
  \/ \E c \in Callers : MCall(c) \/ MResume(c)
  \/ Background /\ UNCHANGED <<mr, muts, byHand>>
  \/ MCrash

MSpec == MInit /\ [][MNext]_mvars

-----------------------------------------------------------------------------
(* Properties *)

\* A run on an ad-hoc registration, which nothing waits for, saves its copy.
AdHocSave ==
  \E k \in Runs : /\ run[k].pc = "saving" /\ run'[k].pc # "saving"
                  /\ reg[run[k].reg].loop = "none"

\* The request has waited for the task's old registration and has not yet put
\* the new one in s.tasks.
PastBarrier(c) ==
  \/ mr[c].step \in {"write", "saved", "rewrite", "restore"}
  \/ mr[c].op \in {"update", "delete"} /\ mr[c].step \in {"upserted", "restored"}
     /\ cl[c].pc \in {"replacing", "draining"}

\* While Update or Delete replaces a task it has unregistered, the file is its
\* own: no timer loop, and no run of the old registration, still writes the task
\* it remembers over the new definition or recreates a deleted file.  Only a run
\* that s.tasks does not hold can (a manual run of a disabled task).
FileIsTheRequests ==
  [][\A c \in Callers :
       PastBarrier(c) /\ file'[cl[c].task] # file[cl[c].task]
       => mr'[c] # mr[c] \/ AdHocSave]_mvars

\* Between requests, what is registered is what is stored: same definition, and
\* nothing registered for a deleted or disabled task.  (One client changes tasks,
\* and no run was asked for by hand, which saves the task it was given; a rollback
\* whose own SaveTask fails leaves a registration without a file.)
RegisteredIsStored ==
  (\A c \in Callers : mr[c] = NoRequest) /\ life = "live" /\ running =>
    \A t \in Tasks \ byHand :
      IF tasks[t] = Nil
      THEN file[t] # Nil => ~Enabled(file[t])
      ELSE IF file[t] = Nil THEN StoreFaults
           ELSE reg[tasks[t]].val.def = file[t].def

\* A request that fails and rolls back leaves the task as it found it: stored with the
\* definition it loaded, or with no file if the rollback's own SaveTask failed after
\* the file was gone; and, unless the scheduler has been stopped, registered with that
\* definition if it is enabled, and not at all if not.  (One client changes tasks.  A
\* run asked for by hand saves the task it was given when it ends, also over what the
\* request has put back.)
RollbackRestores ==
  \A c \in Callers :
    /\ mr[c].step = "restored" /\ cl[c].pc = "ret" /\ cl[c].res = "ok"
    /\ cl[c].task \notin byHand
    =>
      LET t == cl[c].task
      IN  /\ IF file[t] = Nil THEN mr[c].unsaved ELSE file[t].def = mr[c].prev.def
          /\ IF running /\ Enabled(mr[c].prev)
             THEN tasks[t] # Nil /\ reg[tasks[t]].val.def = mr[c].prev.def
             ELSE tasks[t] = Nil
=============================================================================
