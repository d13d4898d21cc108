------------------------ MODULE TaskMutationsProofs ------------------------
(***************************************************************************)
(* What the task API's requests keep true while the scheduler works under   *)
(* them, in four layers, each inductive with those before it.  ReqOK: where *)
(* a request is, and what its client holds.  Bound: whose task a            *)
(* registration and a run are for.  Barrier: which registration of a task   *)
(* still works, and that none does behind a request that has waited.        *)
(* Stored: that what works for a task, and what is stored, is one           *)
(* definition.  The last two are about one client that changes tasks.       *)
(***************************************************************************)
EXTENDS TaskMutations, TaskSchedulerProofs

-----------------------------------------------------------------------------
(* Requests *)

Changes(c) == mr[c].op \in {"create", "update", "delete"}
Replaces(c) == mr[c].op \in {"update", "delete"}

MutationOps == {"none", "create", "update", "delete", "stop", "run_now", "start_now",
                "stop_run"}
MutationSteps == {"none", "loaded", "upsert", "detached", "write", "saved", "upserted",
                  "undo", "rewrite", "restore", "restored", "ran"}
Request == [op : MutationOps, step : MutationSteps, prev : TaskVal \cup {Nil},
            def : Defs \cup {Nil}, unsaved : BOOLEAN]

\* Which steps each request goes through.
StepOfOp(op, step) ==
  \/ op = "none" /\ step = "none"
  \/ op = "create" /\ step \in {"upsert", "upserted", "undo"}
  \/ op = "update" /\ step \in {"loaded", "detached", "write", "saved", "upserted",
                                "rewrite", "restore", "restored"}
  \/ op = "delete" /\ step \in {"loaded", "detached", "write", "rewrite", "restore",
                                "restored"}
  \/ op \in {"run_now", "start_now", "stop_run"} /\ step \in {"loaded", "ran"}
  \/ op = "stop" /\ step = "ran"

\* Where the scheduler call of a step can be.
PcOfStep(step, pc) ==
  \/ step \in MutationSteps \ {"detached", "upserted", "restored", "ran"} /\ pc = "idle"
  \/ step = "detached" /\ pc \in {"draining", "ret"}
  \/ step \in {"upserted", "restored"} /\ pc \in {"replacing", "draining", "ret"}
  \/ step = "ran" /\ pc \in CallerPc \ {"idle", "replacing"}

\* The scheduler call of a request was refused: the scheduler is stopped.
CallRefused(c) == cl[c].pc = "ret" /\ cl[c].res # "ok"

ReqOK(c) ==
  /\ StepOfOp(mr[c].op, mr[c].step)
  /\ PcOfStep(mr[c].step, cl[c].pc)
  /\ mr[c].op = "none" => mr[c] = NoRequest
  /\ Changes(c) => c \in Mutators /\ cl[c].task \in Tasks
  /\ mr[c].op = "create" => cl[c].arg.def \notin EnabledDefs
  /\ mr[c].op = "update" => mr[c].def \in Defs
  /\ Replaces(c) => mr[c].prev \in TaskVal /\ cl[c].arg.last = mr[c].prev.last
  /\ Replaces(c) /\ mr[c].step \notin {"saved", "upserted", "rewrite"} =>
       cl[c].arg = mr[c].prev
  /\ mr[c].step \in {"upserted", "restored"} =>
       /\ cl[c].pc = "replacing" => Enabled(cl[c].arg)
       /\ cl[c].pc = "draining" => ~Enabled(cl[c].arg)
  /\ mr[c].step \in {"detached", "upserted", "restored"} /\ CallRefused(c) => ~running
  /\ mr[c].step = "undo" => ~running
  /\ mr[c].op = "update" /\ mr[c].step = "rewrite" => ~running
  /\ mr[c].step = "ran" /\ cl[c].pc \in {"stopping", "draining"} => ~running
  /\ mr[c].op \in {"run_now", "start_now"} => cl[c].task \in byHand
  /\ cl[c].pc = "begin" => mr[c].op \in {"run_now", "start_now"}
  /\ life = "none" => mr[c] = NoRequest

Requests ==
  /\ mr \in [Callers -> Request]
  /\ \A c \in Callers : ReqOK(c)

\* A step that changes nothing but the task a client holds: its rollback could not
\* save that task.
ArgOnly ==
  \E c \in Callers, v \in TaskVal :
    /\ cl[c].pc = "idle" /\ cl[c].task # Nil
    /\ cl' = [cl EXCEPT ![c].arg = v]
    /\ UNCHANGED <<running, life, tasks, reg, run, active, file, logs,
                   calls, fires, crashes>>

-----------------------------------------------------------------------------
(* Registrations and runs *)

\* A run and its registration are of one task; a manual run was asked for by hand,
\* and so was every run without a loop.
Bound ==
  /\ \A k \in Runs : Unfinished(k) => reg[run[k].reg].task = run[k].task
  /\ \A c \in Callers : cl[c].pc = "begin" /\ cl[c].reg # Nil =>
                          reg[cl[c].reg].task = cl[c].task
  /\ \A r \in Regs : reg[r].task # Nil /\ reg[r].loop = "none" => reg[r].task \in byHand

\* One client changes tasks.
OneMutator == \A c, d \in Mutators : c = d

\* A registration with a loop from which something may still start or be written.
Works(r) == reg[r].loop # "none" /\ ~(reg[r].retired /\ Idle(r))

\* A request that still waits for the registration of its task.
Waits(c, r) ==
  /\ Changes(c)
  /\ cl[c].pc \in {"replacing", "draining"}
  /\ cl[c].task = reg[r].task
  /\ r \in cl[c].drain

\* A task has one registration that works, s.tasks leads to it or a request waits
\* for it; behind the wait of a request, and of a task it creates, there is none.
OneWorks ==
  \A q, r \in Regs : Works(q) /\ Works(r) /\ reg[q].task = reg[r].task => q = r
Accounted ==
  running => \A r \in Regs : Works(r) =>
    tasks[reg[r].task] = r \/ \E c \in Callers : Waits(c, r)

Behind(c) ==
  \/ mr[c].op = "create" \/ PastBarrier(c)
  \/ Replaces(c) /\ mr[c].step \in {"upserted", "restored"} /\ CallRefused(c)
Cleared(c) ==
  /\ Behind(c) =>
       /\ tasks[cl[c].task] = Nil
       /\ \A r \in Regs : reg[r].task = cl[c].task => ~Works(r)
  /\ mr[c].step = "detached" /\ ~CallRefused(c) =>
       /\ tasks[cl[c].task] = Nil
       /\ \A r \in Regs : reg[r].task = cl[c].task /\ Works(r) => r \in cl[c].drain
  /\ mr[c].step \in {"upserted", "restored"} /\ cl[c].pc = "ret" /\ cl[c].res = "ok" =>
       IF Enabled(cl[c].arg) THEN running => tasks[cl[c].task] # Nil
       ELSE tasks[cl[c].task] = Nil

Barrier == OneWorks /\ Accounted /\ \A c \in Callers : Cleared(c)

-----------------------------------------------------------------------------
(* Definitions *)

\* Whatever registration r would write has definition d.
Remembers(r, d) ==
  /\ reg[r].val.def = d
  /\ reg[r].loop \in {"save", "fired"} => reg[r].tmp.def = d
  /\ \A k \in Runs : run[k].reg = r /\ run[k].pc = "saving" => run[k].upd.def = d

\* Task t is, wherever it is stored or remembered, as d defines it.
Agrees(t, d) ==
  /\ file[t] # Nil => file[t].def = d
  /\ \A r \in Regs : reg[r].task = t /\ Works(r) => Remembers(r, d)

\* What a request knows of the task's definition.
Knows(c) ==
  /\ mr[c].op = "create" => Agrees(cl[c].task, cl[c].arg.def)
  /\ Replaces(c) =>
       /\ mr[c].step \in {"loaded", "detached", "write"} =>
            Agrees(cl[c].task, mr[c].prev.def)
       /\ mr[c].step \in {"rewrite", "restore"} =>
            ~running \/ Agrees(cl[c].task, mr[c].prev.def)
       /\ mr[c].step = "saved" => Agrees(cl[c].task, cl[c].arg.def)
       /\ mr[c].step \in {"upserted", "restored"} /\ ~CallRefused(c) =>
            Agrees(cl[c].task, cl[c].arg.def)

\* A task that a request replaces is stored, unless the request's own save of it failed;
\* and if no save can fail, so is every task that is registered.
Filed ==
  /\ ~StoreFaults => \A t \in Tasks : tasks[t] # Nil => file[t] # Nil
  /\ \A c \in Callers :
       /\ mr[c].unsaved => StoreFaults
       /\ Replaces(c) /\ mr[c].step # "rewrite" => mr[c].unsaved \/ file[cl[c].task] # Nil

\* A task that is not registered, and that no request is changing, is disabled.
Idled(t) ==
  /\ running
  /\ tasks[t] = Nil /\ file[t] # Nil
  /\ \A c \in Callers : Changes(c) => cl[c].task # t
  => ~Enabled(file[t])

Stored ==
  /\ \A t \in Tasks \ byHand : (\E d \in Defs \cup {Nil} : Agrees(t, d)) /\ Idled(t)
  /\ \A c \in Callers : cl[c].task \notin byHand => Knows(c)
  /\ Filed

-----------------------------------------------------------------------------
(* What a step does to the requests *)

\* A request goes on to another step, ends, or is issued; the others stand.
LEMMA RequestMoves ==
  ASSUME mr \in [Callers -> Request], NEW c \in Callers
  PROVE  /\ \A step \in MutationSteps : Go(c, step) =>
              /\ mr' \in [Callers -> Request]
              /\ mr'[c].op = mr[c].op /\ mr'[c].step = step
              /\ mr'[c].prev = mr[c].prev /\ mr'[c].def = mr[c].def
              /\ mr'[c].unsaved = mr[c].unsaved
              /\ \A d \in Callers \ {c} : mr'[d] = mr[d]
         /\ GoUnsaved(c) =>
              /\ mr' \in [Callers -> Request]
              /\ mr'[c].op = mr[c].op /\ mr'[c].step = "restore"
              /\ mr'[c].prev = mr[c].prev /\ mr'[c].def = mr[c].def
              /\ mr'[c].unsaved
              /\ \A d \in Callers \ {c} : mr'[d] = mr[d]
         /\ Finish(c) =>
              /\ mr' \in [Callers -> Request] /\ mr'[c] = NoRequest
              /\ \A d \in Callers \ {c} : mr'[d] = mr[d]
         /\ \A op \in MutationOps, step \in MutationSteps, d \in Defs \cup {Nil} :
              NewRequest(c, op, step, d) =>
                /\ mr' \in [Callers -> Request]
                /\ mr'[c] = [op |-> op, step |-> step, prev |-> Nil, def |-> d,
                             unsaved |-> FALSE]
                /\ \A e \in Callers \ {c} : mr'[e] = mr[e]
<1>1. mr[c] \in Request
  OBVIOUS
<1>2. NoRequest \in Request
  BY DEF NoRequest, Request, MutationOps, MutationSteps
<1>3. ASSUME NEW step \in MutationSteps, Go(c, step)
      PROVE  /\ mr' \in [Callers -> Request]
             /\ mr'[c].op = mr[c].op /\ mr'[c].step = step
             /\ mr'[c].prev = mr[c].prev /\ mr'[c].def = mr[c].def
             /\ mr'[c].unsaved = mr[c].unsaved
             /\ \A d \in Callers \ {c} : mr'[d] = mr[d]
  BY <1>1, <1>3 DEF Go, Request
<1>6. ASSUME GoUnsaved(c)
      PROVE  /\ mr' \in [Callers -> Request]
             /\ mr'[c].op = mr[c].op /\ mr'[c].step = "restore"
             /\ mr'[c].prev = mr[c].prev /\ mr'[c].def = mr[c].def
             /\ mr'[c].unsaved
             /\ \A d \in Callers \ {c} : mr'[d] = mr[d]
  BY <1>1, <1>6 DEF GoUnsaved, Request, MutationSteps
<1>4. ASSUME Finish(c)
      PROVE  /\ mr' \in [Callers -> Request] /\ mr'[c] = NoRequest
             /\ \A d \in Callers \ {c} : mr'[d] = mr[d]
  BY <1>2, <1>4 DEF Finish
<1>5. ASSUME NEW op \in MutationOps, NEW step \in MutationSteps, NEW d \in Defs \cup {Nil},
             NewRequest(c, op, step, d)
      PROVE  /\ mr' \in [Callers -> Request]
             /\ mr'[c] = [op |-> op, step |-> step, prev |-> Nil, def |-> d,
                          unsaved |-> FALSE]
             /\ \A e \in Callers \ {c} : mr'[e] = mr[e]
  <2>1. [op |-> op, step |-> step, prev |-> Nil, def |-> d,
         unsaved |-> FALSE] \in Request
    BY DEF Request
  <2> QED BY <1>5, <2>1 DEF NewRequest
<1> QED BY <1>3, <1>4, <1>5, <1>6

\* A call that loads, saves or deletes a task, or detaches its registration.
LEMMA StoreCalls ==
  ASSUME TypeOK, NEW c \in Callers
  PROVE  /\ \A t \in Tasks : Load(c, t) =>
              /\ cl[c].pc = "idle" /\ cl'[c].pc = "idle" /\ cl'[c].task = t
              /\ cl'[c].arg = file[t] /\ file[t] \in TaskVal
              /\ \A d \in Callers \ {c} : cl'[d] = cl[d]
         /\ \A t \in Tasks : \A v \in TaskVal : Save(c, t, v) =>
              /\ cl[c].pc = "idle" /\ cl'[c].pc = "idle" /\ cl'[c].task = t
              /\ cl'[c].arg = v
              /\ \A d \in Callers \ {c} : cl'[d] = cl[d]
<1>1. cl[c] \in CallerRec
  BY DEF TypeOK
<1>2. ASSUME NEW t \in Tasks, Load(c, t)
      PROVE  /\ cl[c].pc = "idle" /\ cl'[c].pc = "idle" /\ cl'[c].task = t
             /\ cl'[c].arg = file[t] /\ file[t] \in TaskVal
             /\ \A d \in Callers \ {c} : cl'[d] = cl[d]
  BY <1>1, <1>2 DEF TypeOK, CallerRec, Load
<1>3. ASSUME NEW t \in Tasks, NEW v \in TaskVal, Save(c, t, v)
      PROVE  /\ cl[c].pc = "idle" /\ cl'[c].pc = "idle" /\ cl'[c].task = t
             /\ cl'[c].arg = v
             /\ \A d \in Callers \ {c} : cl'[d] = cl[d]
  BY <1>1, <1>3 DEF TypeOK, CallerRec, Save, Issue
<1> QED BY <1>2, <1>3

\* A call that detaches the task's registration, or is refused.
LEMMA DetachCalls ==
  ASSUME TypeOK, NEW c \in Callers
  PROVE  /\ \A op, pc : Detach(c, op, pc) =>
              /\ cl[c].pc = "idle" /\ cl'[c].pc = pc
              /\ cl'[c].task = cl[c].task /\ cl'[c].arg = cl[c].arg
              /\ cl'[c].drain = Registered(cl[c].task)
              /\ \A d \in Callers \ {c} : cl'[d] = cl[d]
         /\ \A op : Refused(c, op) =>
              /\ cl[c].pc = "idle" /\ cl'[c].pc = "ret" /\ cl'[c].res = "stopped"
              /\ cl'[c].task = cl[c].task /\ cl'[c].arg = cl[c].arg
              /\ \A d \in Callers \ {c} : cl'[d] = cl[d]
<1>1. cl[c] \in CallerRec
  BY DEF TypeOK
<1>2. ASSUME NEW op, NEW pc, Detach(c, op, pc)
      PROVE  /\ cl[c].pc = "idle" /\ cl'[c].pc = pc
             /\ cl'[c].task = cl[c].task /\ cl'[c].arg = cl[c].arg
             /\ cl'[c].drain = Registered(cl[c].task)
             /\ \A d \in Callers \ {c} : cl'[d] = cl[d]
  BY <1>1, <1>2 DEF TypeOK, CallerRec, Detach, Issue
<1>3. ASSUME NEW op, Refused(c, op)
      PROVE  /\ cl[c].pc = "idle" /\ cl'[c].pc = "ret" /\ cl'[c].res = "stopped"
             /\ cl'[c].task = cl[c].task /\ cl'[c].arg = cl[c].arg
             /\ \A d \in Callers \ {c} : cl'[d] = cl[d]
  BY <1>1, <1>3 DEF TypeOK, CallerRec, Refused, Issue
<1> QED BY <1>2, <1>3

\* The Upsert of a request: it waits for the registration it replaces, or removes,
\* or is refused.
LEMMA UpsertCalls ==
  ASSUME TypeOK, NEW c \in Callers, CallUpsert(c)
  PROVE  /\ cl[c].pc = "idle" /\ life # "none" /\ UNCHANGED <<running, life>>
         /\ cl'[c].task = cl[c].task /\ cl'[c].arg = cl[c].arg
         /\ \A d \in Callers \ {c} : cl'[d] = cl[d]
         /\ \/ cl'[c].pc = "replacing" /\ Enabled(cl[c].arg) /\ running
            \/ cl'[c].pc = "draining" /\ ~Enabled(cl[c].arg) /\ running
            \/ cl'[c].pc = "ret" /\ cl'[c].res # "ok" /\ ~running
<1>1. ASSUME NEW pc, Detach(c, "upsert", pc)
      PROVE  /\ cl[c].pc = "idle" /\ life # "none" /\ UNCHANGED <<running, life>>
             /\ cl'[c].task = cl[c].task /\ cl'[c].arg = cl[c].arg
             /\ \A d \in Callers \ {c} : cl'[d] = cl[d]
             /\ cl'[c].pc = pc /\ running
  <2>1. life # "none" /\ UNCHANGED <<running, life>> /\ running
    BY <1>1 DEF Detach, Issue
  <2> QED BY <1>1, <2>1, DetachCalls
<1>2. CASE Refused(c, "upsert")
  BY <1>2, DetachCalls DEF Refused, Issue
<1> QED BY <1>1, <1>2 DEF CallUpsert, Upsert

\* A call returns to the client, which keeps the task it holds.
LEMMA ReturnCalls ==
  ASSUME TypeOK, NEW c \in Callers, Return(c)
  PROVE  /\ cl[c].pc = "ret" /\ cl'[c].pc = "idle" /\ cl'[c].drain = {}
         /\ cl'[c].task = cl[c].task /\ cl'[c].arg = cl[c].arg
         /\ \A d \in Callers \ {c} : cl'[d] = cl[d]
BY DEF TypeOK, CallerRec, Return, IdleCaller

\* A call that goes on by itself keeps the client's task and moves to its answer.
LEMMA ResumeCalls ==
  ASSUME TypeOK, NEW c \in Callers, (Resume(c) /\ cl[c].pc # "ret") \/ StopRunTimeout(c)
  PROVE  /\ running' = running /\ life' \in {life, "cancelled"}
         /\ cl'[c].task = cl[c].task /\ cl'[c].arg = cl[c].arg
         /\ cl'[c].drain = cl[c].drain
         /\ \A d \in Callers \ {c} : cl'[d] = cl[d]
         /\ \/ cl[c].pc = "replacing" /\ cl'[c].pc = "ret" /\ (cl'[c].res = "ok" \/ ~running)
            \/ cl[c].pc = "draining" /\ cl'[c].pc = "ret" /\ cl'[c].res = "ok"
            \/ cl[c].pc = "stopping" /\ cl'[c].pc = "draining"
            \/ /\ cl[c].pc \in {"begin", "skip", "run", "start", "cancel", "await"}
               /\ cl'[c].pc \in {"skip", "run", "start", "await", "ret"}
<1>1. cl[c] \in CallerRec
  BY DEF TypeOK
<1>2. ASSUME NEW res, Returns(c, res)
      PROVE  /\ cl'[c].task = cl[c].task /\ cl'[c].arg = cl[c].arg
             /\ cl'[c].drain = cl[c].drain
             /\ \A d \in Callers \ {c} : cl'[d] = cl[d]
             /\ cl'[c].pc = "ret" /\ cl'[c].res = res
  BY <1>1, <1>2 DEF TypeOK, Returns, CallerRec
<1>3. CASE Commit(c)
  BY <1>2, <1>3 DEF Commit
<1>4. CASE CommitRefused(c)
  BY <1>2, <1>4 DEF CommitRefused
<1>5. CASE Drained(c)
  BY <1>2, <1>5 DEF Drained
<1>6. CASE CancelLifecycle(c)
  BY <1>1, <1>6 DEF TypeOK, CancelLifecycle, CallerRec
<1>7. CASE AppendSkipped(c) \/ RunNowDone(c) \/ StartNowDone(c) \/ StopRunDone(c)
           \/ StopRunTimeout(c)
  <2>1. /\ \E res : Returns(c, res)
        /\ cl[c].pc \in {"skip", "run", "start", "await"} /\ UNCHANGED <<running, life>>
    BY <1>7 DEF AppendSkipped, RunNowDone, StartNowDone, StopRunDone, StopRunTimeout
  <2> QED BY <1>2, <2>1
<1>8. CASE CancelRun(c)
  BY <1>1, <1>8 DEF TypeOK, CancelRun, CallerRec
<1>9. ASSUME NEW k \in NextRun, BeginManual(c, k) \/ BeginAdHoc(c, k) \/ BeginSkipped(c, k)
      PROVE  /\ running' = running /\ life' = life
             /\ cl'[c].task = cl[c].task /\ cl'[c].arg = cl[c].arg
             /\ cl'[c].drain = cl[c].drain
             /\ \A d \in Callers \ {c} : cl'[d] = cl[d]
             /\ cl[c].pc = "begin" /\ cl'[c].pc \in {"skip", "run", "start"}
  <2>1. PICK pc \in {"skip", "run", "start"} :
          cl' = [cl EXCEPT ![c] = [@ EXCEPT !.pc = pc, !.run = k]]
    BY <1>9 DEF BeginManual, BeginAdHoc, BeginSkipped, ManualWait
  <2>2. UNCHANGED <<running, life>> /\ cl[c].pc = "begin"
    BY <1>9 DEF BeginManual, BeginAdHoc, BeginSkipped
  <2> QED BY <1>1, <2>1, <2>2 DEF TypeOK, CallerRec
<1>10. ~(Return(c) /\ cl[c].pc # "ret")
  BY DEF Return
<1> QED BY <1>3, <1>4, <1>5, <1>6, <1>7, <1>8, <1>9, <1>10 DEF Resume

\* The loops and the runs go on without the callers.
LEMMA WorkersCalls ==
  ASSUME (\E r \in Regs : LoopStep(r) \/ Fire(r)) \/ (\E k \in Runs : RunStep(k) \/ Progress(k))
  PROVE  UNCHANGED <<running, life, tasks, cl>>
<1>1. ASSUME NEW r \in Regs, LoopStep(r) \/ Fire(r)
      PROVE  UNCHANGED <<running, life, tasks, cl>>
  BY <1>1 DEF LoopStep, Persist, PersistLater, PersistSave, Fire, FireBegin, FireSkipped,
              FireRetired, LoopExit
<1>2. ASSUME NEW k \in Runs, RunStep(k) \/ Progress(k)
      PROVE  UNCHANGED <<running, life, tasks, cl>>
  BY <1>2 DEF RunStep, RegisterActive, RejectActive, StartLog, StartLogFails, SaveResult,
              SaveResultFails, LogResult, FinishActive, Release, ExecReturn, Progress
<1> QED BY <1>1, <1>2

-----------------------------------------------------------------------------
(* Requests is an invariant *)

\* A request that nothing of a step is about stays as it is.
LEMMA ReqStands ==
  ASSUME NEW c \in Callers, ReqOK(c), mr'[c] = mr[c], cl'[c] = cl[c],
         byHand \subseteq byHand', running' => running \/ mr[c] = NoRequest,
         life' = "none" => life = "none"
  PROVE  ReqOK(c)'
BY DEF ReqOK, Changes, Replaces, CallRefused, NoRequest, Enabled, PcOfStep, StepOfOp

\* The scheduler call of a request goes on by itself.
LEMMA BackgroundRequests ==
  ASSUME IInv, Requests, Background, UNCHANGED <<mr, muts, byHand>>
  PROVE  Requests'
<1>1. TypeOK
  BY DEF IInv
<1>2. CASE Start
  <2>1. life = "none" /\ life' # "none" /\ cl' = cl
    BY <1>2 DEF Start
  <2> QED BY <2>1, ReqStands DEF Requests, ReqOK
<1>3. ASSUME NEW c \in Callers, (Resume(c) /\ cl[c].pc # "ret") \/ StopRunTimeout(c)
      PROVE  Requests'
  <2>1. /\ running' = running /\ life' \in {life, "cancelled"}
        /\ cl'[c].task = cl[c].task /\ cl'[c].arg = cl[c].arg
        /\ \A d \in Callers \ {c} : cl'[d] = cl[d]
        /\ \/ cl[c].pc = "replacing" /\ cl'[c].pc = "ret" /\ (cl'[c].res = "ok" \/ ~running)
           \/ cl[c].pc = "draining" /\ cl'[c].pc = "ret" /\ cl'[c].res = "ok"
           \/ cl[c].pc = "stopping" /\ cl'[c].pc = "draining"
           \/ /\ cl[c].pc \in {"begin", "skip", "run", "start", "cancel", "await"}
              /\ cl'[c].pc \in {"skip", "run", "start", "await", "ret"}
    BY <1>1, <1>3, ResumeCalls
  <2>2. \A d \in Callers \ {c} : ReqOK(d)'
    BY <2>1, ReqStands DEF Requests
  <2>3. ReqOK(c) /\ life # "none"
    BY <2>1 DEF Requests, ReqOK, NoRequest, PcOfStep, MutationSteps
  <2>4. ReqOK(c)'
    BY <2>1, <2>3 DEF ReqOK, Changes, Replaces, CallRefused, Enabled, PcOfStep, CallerPc,
                      MutationSteps
  <2> QED BY <2>2, <2>4 DEF Requests
<1>4. CASE (\E r \in Regs : LoopStep(r) \/ Fire(r))
           \/ (\E k \in Runs : RunStep(k) \/ Progress(k))
  BY <1>4, WorkersCalls, ReqStands DEF Requests
<1> QED BY <1>2, <1>3, <1>4 DEF Background

\* A step of one client's request: it keeps that request in order and leaves the
\* others, and no request starts the scheduler.
OwnMove(c) ==
  /\ mr' \in [Callers -> Request] /\ ReqOK(c)'
  /\ \A d \in Callers \ {c} : mr'[d] = mr[d] /\ cl'[d] = cl[d]
  /\ byHand \subseteq byHand' /\ (running' => running) /\ life' = life

LEMMA OwnFinish ==
  ASSUME Requests, NEW c \in Callers, Finish(c), cl'[c].pc = "idle",
         \A d \in Callers \ {c} : cl'[d] = cl[d], UNCHANGED <<running, life>>
  PROVE  OwnMove(c)
<1>1. /\ mr' \in [Callers -> Request] /\ mr'[c] = NoRequest
      /\ \A d \in Callers \ {c} : mr'[d] = mr[d]
  BY RequestMoves DEF Requests
<1>2. ReqOK(c)'
  BY <1>1 DEF ReqOK, NoRequest, Changes, Replaces, StepOfOp, PcOfStep, MutationSteps
<1> QED BY <1>1, <1>2 DEF OwnMove, Finish

LEMMA OwnReturn ==
  ASSUME TypeOK, Requests, NEW c \in Callers, Return(c), Finish(c)
  PROVE  OwnMove(c)
BY ReturnCalls, OwnFinish DEF Return

LEMMA OwnUpsert ==
  ASSUME TypeOK, Requests, NEW c \in Callers, CallUpsert(c),
         \/ mr[c].step \in {"upsert", "saved"} /\ Go(c, "upserted")
         \/ mr[c].step = "restore" /\ Go(c, "restored")
  PROVE  OwnMove(c)
<1>1. PICK step \in {"upserted", "restored"} :
        /\ Go(c, step)
        /\ step = "upserted" => mr[c].step \in {"upsert", "saved"}
        /\ step = "restored" => mr[c].step = "restore"
  OBVIOUS
<1>2. /\ mr' \in [Callers -> Request]
      /\ mr'[c].op = mr[c].op /\ mr'[c].step = step
      /\ mr'[c].prev = mr[c].prev /\ mr'[c].def = mr[c].def
      /\ \A d \in Callers \ {c} : mr'[d] = mr[d]
  BY <1>1, RequestMoves DEF Requests, MutationSteps
<1>3. ReqOK(c)'
  BY <1>1, <1>2, UpsertCalls
     DEF Requests, ReqOK, Changes, Replaces, StepOfOp, PcOfStep, MutationSteps,
         CallRefused, Enabled, Go
<1> QED BY <1>1, <1>2, <1>3, UpsertCalls DEF OwnMove, Go

LEMMA OwnCreate ==
  ASSUME TypeOK, Requests, NEW c \in Callers, NEW t \in Tasks, NEW d \in Defs,
         Create(c, t, d)
  PROVE  OwnMove(c)
<1> DEFINE v == [def |-> d, last |-> Nil]
<1>1. v \in TaskVal
  BY DEF TaskVal
<1>2. /\ cl'[c].pc = "idle" /\ cl'[c].task = t /\ cl'[c].arg = v
      /\ \A e \in Callers \ {c} : cl'[e] = cl[e]
  BY <1>1, StoreCalls DEF Create
<1>3. /\ mr' \in [Callers -> Request]
      /\ mr'[c] = [op |-> "create", step |-> "upsert", prev |-> Nil, def |-> d,
                   unsaved |-> FALSE]
      /\ \A e \in Callers \ {c} : mr'[e] = mr[e]
  BY RequestMoves DEF Requests, Create, MutationOps, MutationSteps
<1>4. life # "none" /\ life' = life /\ running' = running /\ c \in Mutators
      /\ d \notin EnabledDefs /\ byHand' = byHand
  BY DEF Create, Save, Issue, NewRequest
<1>5. ReqOK(c)'
  BY <1>2, <1>3, <1>4
     DEF ReqOK, Changes, Replaces, StepOfOp, PcOfStep, MutationSteps, NoRequest
<1> QED BY <1>2, <1>3, <1>4, <1>5 DEF OwnMove

LEMMA OwnLoad ==
  ASSUME TypeOK, Requests, NEW c \in Callers, NEW t \in Tasks, NEW d \in Defs \cup {Nil},
         NEW op \in {"update", "delete", "run_now", "start_now", "stop_run"},
         op = "update" => d \in Defs, LoadForMutation(c, t, op, d)
  PROVE  OwnMove(c)
<1>1. /\ cl'[c].pc = "idle" /\ cl'[c].task = t /\ cl'[c].arg = file[t]
      /\ file[t] \in TaskVal
      /\ \A e \in Callers \ {c} : cl'[e] = cl[e]
  BY StoreCalls DEF LoadForMutation
<1>2. [op |-> op, step |-> "loaded", prev |-> file[t], def |-> d,
       unsaved |-> FALSE] \in Request
  BY <1>1 DEF Request, MutationOps, MutationSteps
<1>3. /\ mr' \in [Callers -> Request]
      /\ mr'[c] = [op |-> op, step |-> "loaded", prev |-> file[t], def |-> d,
                   unsaved |-> FALSE]
      /\ \A e \in Callers \ {c} : mr'[e] = mr[e]
  BY <1>2 DEF Requests, LoadForMutation
<1>4. /\ life # "none" /\ life' = life /\ running' = running
      /\ op \in {"update", "delete"} => c \in Mutators
      /\ byHand \subseteq byHand' /\ (op \in {"run_now", "start_now"} => t \in byHand')
  BY DEF LoadForMutation, Load
<1>5. ReqOK(c)'
  BY <1>1, <1>3, <1>4
     DEF ReqOK, Changes, Replaces, StepOfOp, PcOfStep, MutationSteps, NoRequest
<1> QED BY <1>1, <1>3, <1>4, <1>5 DEF OwnMove

LEMMA OwnShutdown ==
  ASSUME TypeOK, Requests, NEW c \in Callers, Shutdown(c)
  PROVE  OwnMove(c)
<1>1. /\ mr' \in [Callers -> Request]
      /\ mr'[c] = [op |-> "stop", step |-> "ran", prev |-> Nil, def |-> Nil,
                   unsaved |-> FALSE]
      /\ \A e \in Callers \ {c} : mr'[e] = mr[e]
  BY RequestMoves DEF Requests, Shutdown, MutationOps, MutationSteps
<1>2. cl[c] \in CallerRec
  BY DEF TypeOK
<1>3. /\ life # "none" /\ life' = life /\ ~running' /\ byHand' = byHand
      /\ cl'[c].pc \in {"stopping", "ret"}
      /\ \A e \in Callers \ {c} : cl'[e] = cl[e]
  <2>1. CASE Stop(c)
    BY <1>2, <2>1 DEF TypeOK, CallerRec, Stop, Issue, Shutdown, NewRequest
  <2>2. CASE Refused(c, "stop")
    BY <2>2, DetachCalls DEF Refused, Issue, Shutdown, NewRequest
  <2> QED BY <2>1, <2>2 DEF Shutdown
<1>4. ReqOK(c)'
  BY <1>1, <1>3
     DEF ReqOK, Changes, Replaces, StepOfOp, PcOfStep, CallerPc, CallRefused, NoRequest
<1> QED BY <1>1, <1>3, <1>4 DEF OwnMove

\* A request goes on in the same call of its client, or has a call return.
LEMMA OwnGo ==
  ASSUME Requests, NEW c \in Callers, NEW step \in MutationSteps,
         Go(c, step) \/ (GoUnsaved(c) /\ step = "restore"),
         mr[c].step # "none", UNCHANGED <<running, life>>,
         cl'[c].task = cl[c].task,
         StepOfOp(mr[c].op, step), PcOfStep(step, cl'[c].pc), cl'[c].pc # "begin",
         mr[c].op = "create" => cl'[c].arg.def \notin EnabledDefs,
         Replaces(c) => cl'[c].arg.last = mr[c].prev.last,
         Replaces(c) /\ step \notin {"saved", "upserted", "rewrite"} => cl'[c].arg = mr[c].prev,
         step \in {"upserted", "restored", "ran", "undo"} => ~running,
         step = "detached" /\ CallRefused(c)' => ~running,
         mr[c].op = "update" /\ step = "rewrite" => ~running,
         step = "upserted" \/ step = "restored" => cl'[c].pc = "ret",
         \A d \in Callers \ {c} : cl'[d] = cl[d]
  PROVE  OwnMove(c)
<1>1. /\ mr' \in [Callers -> Request]
      /\ mr'[c].op = mr[c].op /\ mr'[c].step = step
      /\ mr'[c].prev = mr[c].prev /\ mr'[c].def = mr[c].def
      /\ \A d \in Callers \ {c} : mr'[d] = mr[d]
  BY RequestMoves DEF Requests
<1>2. mr[c].op # "none" /\ life # "none" /\ ReqOK(c)
  BY DEF Requests, ReqOK, NoRequest
<1>3. ReqOK(c)'
  BY <1>1, <1>2 DEF ReqOK, Changes, Replaces, CallRefused, Go, GoUnsaved
<1> QED BY <1>1, <1>3 DEF OwnMove, Go, GoUnsaved

LEMMA OwnReturned ==
  ASSUME TypeOK, Requests, NEW c \in Callers, Return(c),
         \/ mr[c].op = "create" /\ mr[c].step = "upserted" /\ CallRefused(c) /\ Go(c, "undo")
         \/ mr[c].op = "update" /\ mr[c].step = "upserted" /\ CallRefused(c)
            /\ Go(c, "rewrite")
         \/ mr[c].step = "detached" /\ Go(c, "write")
  PROVE  OwnMove(c)
<1>1. ReqOK(c)
  BY DEF Requests
<1>2. PICK step \in {"undo", "rewrite", "write"} :
        /\ Go(c, step)
        /\ step = "undo" => mr[c].op = "create" /\ mr[c].step = "upserted" /\ CallRefused(c)
        /\ step = "rewrite" => mr[c].op = "update" /\ mr[c].step = "upserted" /\ CallRefused(c)
        /\ step = "write" => mr[c].step = "detached"
  OBVIOUS
<1>3. UNCHANGED <<running, life>>
  BY DEF Return
<1>4. /\ StepOfOp(mr[c].op, step) /\ PcOfStep(step, "idle") /\ mr[c].step # "none"
      /\ mr[c].op = "create" => cl[c].arg.def \notin EnabledDefs
      /\ Replaces(c) => cl[c].arg.last = mr[c].prev.last
      /\ Replaces(c) /\ step \notin {"saved", "upserted", "rewrite"} => cl[c].arg = mr[c].prev
      /\ step = "undo" => ~running
      /\ mr[c].op = "update" /\ step = "rewrite" => ~running
  BY <1>1, <1>2 DEF ReqOK, StepOfOp, PcOfStep, MutationSteps, Replaces
<1>5. step \in MutationSteps
  BY DEF MutationSteps
<1> HIDE DEF Replaces
<1> QED BY <1>2, <1>3, <1>4, <1>5, ReturnCalls, OwnGo

LEMMA OwnDetaching ==
  ASSUME TypeOK, Requests, NEW c \in Callers, Detaching(c)
  PROVE  OwnMove(c)
<1>1. ReqOK(c) /\ Go(c, "detached") /\ mr[c].step = "loaded" /\ Replaces(c)
  BY DEF Requests, Detaching, Replaces
<1>2. /\ UNCHANGED <<running, life>>
      /\ cl'[c].task = cl[c].task /\ cl'[c].arg = cl[c].arg
      /\ \A d \in Callers \ {c} : cl'[d] = cl[d]
      /\ cl'[c].pc = "draining" \/ (cl'[c].pc = "ret" /\ ~running)
  <2>1. CASE Unregister(c)
    <3>1. Detach(c, "unregister", "draining") /\ UNCHANGED <<running, life>>
      BY <2>1 DEF Unregister, Detach
    <3> QED BY <3>1, DetachCalls
  <2>2. CASE Refused(c, "unregister")
    BY <2>2, DetachCalls DEF Refused
  <2> QED BY <2>1, <2>2 DEF Detaching
<1>3. /\ StepOfOp(mr[c].op, "detached") /\ PcOfStep("detached", cl'[c].pc)
      /\ mr[c].op # "create" /\ cl[c].arg = mr[c].prev /\ "detached" \in MutationSteps
  BY <1>1, <1>2 DEF ReqOK, StepOfOp, PcOfStep, MutationSteps, Replaces
<1> QED BY <1>1, <1>2, <1>3, OwnGo DEF CallRefused

LEMMA OwnWrite ==
  ASSUME TypeOK, Requests, NEW c \in Callers,
         UpdateSave(c) \/ UpdateSaveFails(c) \/ DeleteFails(c) \/ Rewrite(c) \/ RewriteFails(c)
  PROVE  OwnMove(c)
<1>1. ReqOK(c) /\ cl[c] \in CallerRec
  BY DEF Requests, TypeOK
<1>2. CASE UpdateSave(c)
  <2> DEFINE v == [mr[c].prev EXCEPT !.def = mr[c].def]
  <2>1. /\ mr[c].op = "update" /\ Replaces(c) /\ cl[c].task \in Tasks
        /\ mr[c].prev \in TaskVal /\ mr[c].def \in Defs
    BY <1>1, <1>2 DEF UpdateSave, At, ReqOK, Replaces, Changes
  <2>2. v \in TaskVal /\ v.last = mr[c].prev.last
    BY <2>1 DEF TaskVal
  <2>3. Save(c, cl[c].task, v) /\ Go(c, "saved") /\ mr[c].step = "write"
    BY <1>2 DEF UpdateSave, At
  <2> HIDE DEF v
  <2>4. /\ cl'[c].pc = "idle" /\ cl'[c].task = cl[c].task /\ cl'[c].arg = v
        /\ \A d \in Callers \ {c} : cl'[d] = cl[d]
    BY <2>1, <2>2, <2>3, StoreCalls
  <2>5. UNCHANGED <<running, life>>
    BY <2>3 DEF Save
  <2>6. StepOfOp("update", "saved") /\ PcOfStep("saved", "idle") /\ "saved" \in MutationSteps
    BY DEF StepOfOp, PcOfStep, MutationSteps
  <2> QED BY <2>1, <2>2, <2>3, <2>4, <2>5, <2>6, OwnGo
<1>3. CASE UpdateSaveFails(c)
  <2>1. /\ mr[c].op = "update" /\ Replaces(c) /\ mr[c].step = "write"
        /\ Go(c, "restore") /\ UNCHANGED vars /\ cl[c].pc = "idle"
    BY <1>3 DEF UpdateSaveFails, At, Replaces, SaveFails
  <2>2. UNCHANGED <<running, life, cl>> /\ cl[c].arg = mr[c].prev
    BY <1>1, <2>1 DEF vars, ReqOK
  <2>3. StepOfOp("update", "restore") /\ PcOfStep("restore", "idle")
        /\ "restore" \in MutationSteps
    BY DEF StepOfOp, PcOfStep, MutationSteps
  <2> QED BY <2>1, <2>2, <2>3, OwnGo
<1>4. CASE DeleteFails(c)
  <2>1. /\ mr[c].op = "delete" /\ Replaces(c) /\ mr[c].step = "write" /\ Go(c, "rewrite")
        /\ UNCHANGED <<running, life, cl>>
    BY <1>4 DEF DeleteFails, At, Replaces, DeleteMisses, Delete, vars
  <2>2. cl[c].pc = "idle" /\ cl[c].arg = mr[c].prev
    BY <1>1, <2>1 DEF ReqOK, PcOfStep
  <2>3. StepOfOp("delete", "rewrite") /\ PcOfStep("rewrite", "idle")
        /\ "rewrite" \in MutationSteps
    BY DEF StepOfOp, PcOfStep, MutationSteps
  <2> QED BY <2>1, <2>2, <2>3, OwnGo
<1>5. CASE Rewrite(c) \/ RewriteFails(c)
  <2>1. /\ Go(c, "restore") \/ GoUnsaved(c)
        /\ mr[c].step = "rewrite" /\ Replaces(c)
        /\ cl[c].task \in Tasks /\ mr[c].prev \in TaskVal /\ mr[c].op # "create"
    BY <1>1, <1>5 DEF Rewrite, RewriteFails, ReqOK, StepOfOp, Replaces, Changes
  <2>2. /\ cl'[c].pc = "idle" /\ cl'[c].task = cl[c].task /\ cl'[c].arg = mr[c].prev
        /\ \A d \in Callers \ {c} : cl'[d] = cl[d]
        /\ UNCHANGED <<running, life>>
    <3>1. CASE Rewrite(c)
      BY <2>1, <3>1, StoreCalls, ZenonT(60) DEF Rewrite, Save
    <3>2. CASE RewriteFails(c)
      BY <1>1, <3>2 DEF RewriteFails, TypeOK, CallerRec
    <3> QED BY <1>5, <3>1, <3>2
  <2>3. StepOfOp(mr[c].op, "restore") /\ PcOfStep("restore", "idle")
        /\ "restore" \in MutationSteps
    BY <2>1 DEF Replaces, StepOfOp, PcOfStep, MutationSteps
  <2> QED BY <2>1, <2>2, <2>3, OwnGo
<1> QED BY <1>2, <1>3, <1>4, <1>5

\* A run asked for by hand, a StopRun, and the end of a request that has only to
\* write or to remove a file.
LEMMA OwnRun ==
  ASSUME TypeOK, Requests, NEW c \in Callers, RunRequest(c) \/ StopRequest(c)
  PROVE  OwnMove(c)
<1>1. ReqOK(c) /\ cl[c] \in CallerRec /\ Go(c, "ran") /\ mr[c].step = "loaded"
  BY DEF Requests, TypeOK, RunRequest, StopRequest, At
<1>2. /\ mr' \in [Callers -> Request]
      /\ mr'[c].op = mr[c].op /\ mr'[c].step = "ran"
      /\ \A d \in Callers \ {c} : mr'[d] = mr[d]
  BY <1>1, RequestMoves DEF Requests, MutationSteps
<1>3. life # "none"
  BY <1>1 DEF ReqOK, NoRequest
<1>4. /\ mr[c].op \in {"run_now", "start_now", "stop_run"}
      /\ cl'[c].pc \in {"begin", "cancel", "ret"}
      /\ cl'[c].pc = "begin" => mr[c].op \in {"run_now", "start_now"}
      /\ cl'[c].task = cl[c].task
      /\ \A d \in Callers \ {c} : cl'[d] = cl[d]
      /\ UNCHANGED <<running, life>>
  <2>1. ASSUME NEW op, Manual(c, op), mr[c].op \in {"run_now", "start_now"}
        PROVE  /\ cl'[c].pc = "begin" /\ cl'[c].task = cl[c].task
               /\ \A d \in Callers \ {c} : cl'[d] = cl[d]
               /\ UNCHANGED <<running, life>>
    BY <1>1, <2>1 DEF TypeOK, CallerRec, Manual
  <2>2. ASSUME NEW op, Refused(c, op)
        PROVE  /\ cl'[c].pc = "ret" /\ cl'[c].task = cl[c].task
               /\ \A d \in Callers \ {c} : cl'[d] = cl[d]
               /\ UNCHANGED <<running, life>>
    BY <2>2, DetachCalls DEF Refused
  <2>3. ASSUME NEW k, StopRun(c, k) \/ StopRunMisses(c, k)
        PROVE  /\ cl'[c].pc \in {"cancel", "ret"} /\ cl'[c].task = cl[c].task
               /\ \A d \in Callers \ {c} : cl'[d] = cl[d]
               /\ UNCHANGED <<running, life>>
    <3>1. CASE StopRun(c, k)
      BY <1>1, <3>1 DEF TypeOK, CallerRec, StopRun
    <3>2. CASE StopRunMisses(c, k)
      BY <1>1, <3>2 DEF TypeOK, CallerRec, StopRunMisses
    <3> QED BY <2>3, <3>1, <3>2
  <2>4. CASE RunRequest(c)
    BY <2>1, <2>2, <2>4 DEF RunRequest
  <2>5. CASE StopRequest(c)
    BY <2>3, <2>5 DEF StopRequest, At
  <2> QED BY <2>4, <2>5
<1>5. ReqOK(c)'
  BY <1>1, <1>2, <1>3, <1>4
     DEF ReqOK, Changes, Replaces, StepOfOp, PcOfStep, CallerPc, CallRefused, Go
<1> QED BY <1>1, <1>2, <1>4, <1>5 DEF OwnMove, Go

LEMMA OwnRemoval ==
  ASSUME TypeOK, Requests, NEW c \in Callers, CreateUndo(c) \/ DeleteEnds(c)
  PROVE  OwnMove(c)
<1>1. Finish(c) /\ UNCHANGED <<running, life, cl>> /\ mr[c].step \in {"undo", "write"}
  BY DEF CreateUndo, DeleteEnds, Delete, DeleteMisses, vars, At
<1>2. cl[c].pc = "idle"
  BY <1>1 DEF Requests, ReqOK, PcOfStep
<1> QED BY <1>1, <1>2, OwnFinish

\* Every step of a request.
LEMMA OwnRequests ==
  ASSUME IInv, Requests, NEW c \in Callers, MCall(c) \/ MResume(c)
  PROVE  OwnMove(c)
<1>1. TypeOK
  BY DEF IInv
<1>2. CASE MCall(c)
  <2>1. ASSUME NEW t \in Tasks, NEW d \in Defs,
               Create(c, t, d) \/ LoadForMutation(c, t, "update", d)
        PROVE  OwnMove(c)
    BY <1>1, <2>1, OwnCreate, OwnLoad
  <2>2. ASSUME NEW t \in Tasks, NEW op \in {"delete", "run_now", "start_now", "stop_run"},
               LoadForMutation(c, t, op, Nil)
        PROVE  OwnMove(c)
    BY <1>1, <2>2, OwnLoad
  <2> QED BY <1>1, <1>2, <2>1, <2>2, OwnShutdown DEF MCall
<1>3. CASE MResume(c)
  <2>1. CASE CreateUpsert(c) \/ UpdateUpsert(c) \/ Restore(c)
    BY <1>1, <2>1, OwnUpsert DEF CreateUpsert, UpdateUpsert, Restore, At
  <2>2. CASE CreateEnds(c) \/ DetachFails(c) \/ UpdateEnds(c) \/ RestoreEnds(c) \/ RunEnds(c)
    BY <1>1, <2>2, OwnReturn
       DEF CreateEnds, DetachFails, UpdateEnds, RestoreEnds, RunEnds, Returned
  <2>3. CASE CreateFails(c) \/ UpdateUpsertFails(c) \/ Detached(c)
    <3>1. /\ Return(c)
          /\ \/ mr[c].op = "create" /\ mr[c].step = "upserted" /\ CallRefused(c)
                /\ Go(c, "undo")
             \/ mr[c].op = "update" /\ mr[c].step = "upserted" /\ CallRefused(c)
                /\ Go(c, "rewrite")
             \/ mr[c].step = "detached" /\ Go(c, "write")
      BY <2>3 DEF CreateFails, UpdateUpsertFails, Detached, Returned, Return, At, CallRefused
    <3> QED BY <1>1, <3>1, OwnReturned
  <2> QED BY <1>1, <1>3, <2>1, <2>2, <2>3, OwnRemoval, OwnDetaching, OwnWrite, OwnRun
          DEF MResume
<1> QED BY <1>2, <1>3

\* A request is where its client is.
LEMMA RequestsStep ==
  ASSUME IInv, Requests, [MNext]_mvars
  PROVE  Requests'
<1>1. ASSUME NEW c \in Callers, MCall(c) \/ MResume(c)
      PROVE  Requests'
  <2>1. OwnMove(c)
    BY <1>1, OwnRequests
  <2> QED BY <2>1, ReqStands DEF Requests, OwnMove
<1>2. CASE MCrash
  <2>1. mr' = [c \in Callers |-> NoRequest] /\ \A c \in Callers : cl'[c].pc = "idle"
    BY <1>2 DEF MCrash, Crash, IdleCaller
  <2>2. NoRequest \in Request
    BY DEF NoRequest, Request, MutationOps, MutationSteps
  <2> QED BY <2>1, <2>2
          DEF Requests, ReqOK, NoRequest, Changes, Replaces, StepOfOp, PcOfStep, MutationSteps
<1>3. CASE UNCHANGED mvars
  BY <1>3, ReqStands DEF mvars, vars, Requests
<1> QED BY <1>1, <1>2, <1>3, BackgroundRequests DEF MNext

-----------------------------------------------------------------------------
(* Every step is one of the scheduler's, but for the task a client holds. *)

LEMMA OwnSteps ==
  ASSUME Requests, NEW c \in Callers, MCall(c) \/ MResume(c)
  PROVE  CallStep(c) \/ Resume(c) \/ ArgOnly \/ UNCHANGED vars
<1>1. ReqOK(c)
  BY DEF Requests
<1>2. ASSUME NEW t \in Tasks, NEW v \in TaskVal, Save(c, t, v),
             (v.last = Nil /\ file[t] = Nil) \/ (cl[c].task = t /\ v.last = cl[c].arg.last)
      PROVE  CallStep(c)
  <2>1. v \in Drafts(c, t)
    BY <1>2 DEF Drafts
  <2> QED BY <1>2, <2>1 DEF CallStep
<1>3. ASSUME NEW t, Changes(c), t = cl[c].task, Delete(c, t)
      PROVE  CallStep(c)
  <2>1. t \in Tasks
    BY <1>1, <1>3 DEF ReqOK
  <2> QED BY <1>3, <2>1 DEF CallStep
<1>4. CASE MCall(c)
  <2>1. ASSUME NEW t \in Tasks, NEW d \in Defs, Create(c, t, d)
        PROVE  CallStep(c)
    <3>1. [def |-> d, last |-> Nil] \in TaskVal
      BY DEF TaskVal
    <3> QED BY <1>2, <2>1, <3>1 DEF Create, NewId
  <2>2. ASSUME NEW t \in Tasks, NEW op, NEW d, LoadForMutation(c, t, op, d)
        PROVE  CallStep(c)
    BY <2>2 DEF LoadForMutation, CallStep
  <2>3. CASE Shutdown(c)
    BY <2>3 DEF Shutdown, CallStep
  <2> QED BY <1>4, <2>1, <2>2, <2>3 DEF MCall
<1>5. CASE MResume(c)
  <2>1. CASE CreateUpsert(c) \/ UpdateUpsert(c) \/ Restore(c)
    BY <2>1 DEF CreateUpsert, UpdateUpsert, Restore, CallUpsert, CallStep
  <2>2. CASE CreateEnds(c) \/ DetachFails(c) \/ UpdateEnds(c) \/ RestoreEnds(c)
             \/ RunEnds(c) \/ CreateFails(c) \/ UpdateUpsertFails(c) \/ Detached(c)
    BY <2>2 DEF CreateEnds, DetachFails, UpdateEnds, RestoreEnds, RunEnds, CreateFails,
                UpdateUpsertFails, Detached, Returned, Resume
  <2>3. CASE CreateUndo(c) \/ DeleteEnds(c) \/ DeleteFails(c)
    <3>1. Changes(c)
      BY <2>3 DEF CreateUndo, DeleteEnds, DeleteFails, At, Changes
    <3> QED BY <1>3, <2>3, <3>1 DEF CreateUndo, DeleteEnds, DeleteFails, DeleteMisses
  <2>4. CASE UpdateSave(c)
    <3> DEFINE v == [mr[c].prev EXCEPT !.def = mr[c].def]
    <3>1. /\ cl[c].task \in Tasks /\ mr[c].prev \in TaskVal /\ mr[c].def \in Defs
          /\ cl[c].arg.last = mr[c].prev.last
      BY <1>1, <2>4 DEF UpdateSave, At, ReqOK, Changes, Replaces
    <3>2. v \in TaskVal /\ v.last = cl[c].arg.last
      BY <3>1 DEF TaskVal
    <3>3. Save(c, cl[c].task, v)
      BY <2>4 DEF UpdateSave
    <3> HIDE DEF v
    <3> QED BY <1>2, <3>1, <3>2, <3>3
  <2>5. CASE Rewrite(c) \/ RewriteFails(c)
    <3>1. /\ cl[c].task \in Tasks /\ mr[c].prev \in TaskVal
          /\ cl[c].arg.last = mr[c].prev.last
      BY <1>1, <2>5 DEF Rewrite, RewriteFails, ReqOK, StepOfOp, Changes, Replaces
    <3>2. CASE Rewrite(c)
      BY <1>2, <3>1, <3>2 DEF Rewrite
    <3>3. CASE RewriteFails(c)
      BY <3>1, <3>3, NilAssumption DEF RewriteFails, ArgOnly
    <3> QED BY <2>5, <3>2, <3>3
  <2>6. CASE UpdateSaveFails(c)
    BY <2>6 DEF UpdateSaveFails, SaveFails
  <2>7. CASE Detaching(c) \/ RunRequest(c) \/ StopRequest(c)
    BY <2>7 DEF Detaching, RunRequest, StopRequest, CallStep
  <2> QED BY <1>5, <2>1, <2>2, <2>3, <2>4, <2>5, <2>6, <2>7 DEF MResume
<1> QED BY <1>4, <1>5

LEMMA SchedulerSteps ==
  ASSUME Requests, [MNext]_mvars
  PROVE  [Next]_vars \/ ArgOnly
<1>1. ASSUME NEW c \in Callers, MCall(c) \/ MResume(c)
      PROVE  [Next]_vars \/ ArgOnly
  BY <1>1, OwnSteps DEF Next
<1>2. CASE Background
  BY <1>2 DEF Background, Next
<1> QED BY <1>1, <1>2 DEF MNext, MCrash, Next, mvars

\* A client's own copy of the task is no matter of the scheduler's.
LEMMA ArgKeeps ==
  ASSUME IInv, ArgOnly
  PROVE  /\ IInv' /\ (Settled => Settled') /\ (Looped => Looped')
         /\ UNCHANGED <<active, run, logs>>
<1>1. PICK c \in Callers, v \in TaskVal :
        /\ cl[c].pc = "idle" /\ cl[c].task # Nil
        /\ cl' = [cl EXCEPT ![c].arg = v]
        /\ UNCHANGED <<running, life, tasks, reg, run, active, file, logs,
                       calls, fires, crashes>>
  BY DEF ArgOnly
<1>2. TypeOK /\ cl[c] \in CallerRec /\ CallerOK(c) /\ DrainOK(c)
  BY DEF IInv, TypeOK
<1>3. /\ cl'[c].pc = "idle" /\ cl'[c].task = cl[c].task /\ cl'[c].arg = v
      /\ cl'[c].reg = cl[c].reg /\ cl'[c].drain = cl[c].drain
      /\ cl' \in [Callers -> CallerRec]
      /\ \A d \in Callers \ {c} : cl'[d] = cl[d]
  BY <1>1, <1>2 DEF TypeOK, CallerRec
<1>4. TypeOK'
  BY <1>1, <1>2, <1>3 DEF TypeOK
<1>5. CallerOK(c)' /\ DrainOK(c)'
  BY <1>1, <1>2, <1>3 DEF CallerOK, DrainOK
<1>6. IInv'
  BY <1>1, <1>3, <1>4, <1>5, CallerMoves
<1>7. Settled => Settled'
  BY <1>1, <1>3 DEF Settled, LogOK, SlotOK, AnswerOK, InFlight, HandleDone
<1>8. Looped => Looped'
  BY <1>1, <1>2, <1>3 DEF Looped, DeadOK, CanFire, CtxDone
<1> QED BY <1>1, <1>6, <1>7, <1>8

-----------------------------------------------------------------------------
(* What a step does to the registrations and the runs *)

\* A registration keeps its task for the life of the process; a loop comes from
\* commitRegistration or Start, and what a manual run registers has none.
Kept(r) ==
  /\ reg'[r].task = reg[r].task
  /\ reg'[r].loop = "none" <=> reg[r].loop = "none"

Registers(r) ==
  \E c \in Callers :
    \/ /\ Commit(c) /\ reg' = [reg EXCEPT ![r] = LoopReg(cl[c].task, cl[c].arg)]
       /\ tasks' = [tasks EXCEPT ![cl[c].task] = r]
    \/ /\ cl[c].pc = "begin" /\ reg'[r].task = cl[c].task /\ reg'[r].loop = "none"
       /\ UNCHANGED <<tasks, running>>

LEMMA CallRegisters ==
  ASSUME TypeOK, NEW c \in Callers, CallStep(c) \/ Resume(c) \/ StopRunTimeout(c),
         NEW r \in Regs
  PROVE  Kept(r) \/ (reg[r].task = Nil /\ Registers(r))
<1>1. reg[r] \in RegRec
  BY DEF TypeOK
<1>2. ASSUME UNCHANGED reg
      PROVE  Kept(r)
  BY <1>2 DEF Kept
<1>3. ASSUME NEW S, reg' = Retire(S)
      PROVE  Kept(r)
  BY <1>1, <1>3 DEF Retire, Kept, RegRec
<1>4. CASE CallStep(c)
  <2>1. ASSUME NEW op, NEW pc, Detach(c, op, pc)
        PROVE  Kept(r)
    BY <1>3, <2>1 DEF Detach
  <2>2. CASE Unregister(c) \/ Upsert(c) \/ Stop(c)
    BY <1>3, <2>1, <2>2 DEF Unregister, Upsert, Stop
  <2>3. CASE \E t \in Tasks : Load(c, t) \/ Delete(c, t)
                              \/ \E v \in Drafts(c, t) : Save(c, t, v)
    BY <1>2, <2>3 DEF Load, Delete, Save
  <2>4. ASSUME NEW op, Manual(c, op) \/ Refused(c, op)
        PROVE  Kept(r)
    BY <1>2, <2>4 DEF Manual, Refused
  <2>5. ASSUME NEW k, StopRun(c, k) \/ StopRunMisses(c, k)
        PROVE  Kept(r)
    BY <1>2, <2>5 DEF StopRun, StopRunMisses
  <2> QED BY <1>4, <2>2, <2>3, <2>4, <2>5 DEF CallStep
<1>5. CASE Resume(c) \/ StopRunTimeout(c)
  <2>1. CASE Commit(c)
    <3>1. PICK q \in NextReg :
            /\ reg' = [reg EXCEPT ![q] = LoopReg(cl[c].task, cl[c].arg)]
            /\ tasks' = [tasks EXCEPT ![cl[c].task] = q]
      BY <2>1 DEF Commit
    <3>2. q \in Regs /\ reg[q].task = Nil
      BY <3>1, NextRegFresh
    <3>3. CASE q = r
      BY <2>1, <3>1, <3>2, <3>3 DEF Registers
    <3>4. CASE q # r
      BY <3>1, <3>4, <1>2 DEF TypeOK, Kept
    <3> QED BY <3>3, <3>4
  <2>2. ASSUME NEW k \in NextRun, BeginManual(c, k)
        PROVE  Kept(r)
    BY <1>1, <2>2 DEF TypeOK, RegRec, BeginManual, Kept
  <2>3. ASSUME NEW k \in NextRun, BeginSkipped(c, k)
        PROVE  Kept(r)
    BY <1>1, <2>3 DEF TypeOK, RegRec, BeginSkipped, Kept
  <2>4. ASSUME NEW k \in NextRun, BeginAdHoc(c, k)
        PROVE  Kept(r) \/ (reg[r].task = Nil /\ Registers(r))
    <3>1. PICK q \in NextReg :
            \E done : reg' = [reg EXCEPT ![q] = AdHocReg(cl[c].task, cl[c].arg, done, k)]
      BY <2>4 DEF BeginAdHoc
    <3>2. q \in Regs /\ reg[q].task = Nil
      BY <3>1, NextRegFresh
    <3>3. CASE q = r
      <4>1. reg'[r].task = cl[c].task /\ reg'[r].loop = "none"
        BY <3>1, <3>2, <3>3 DEF TypeOK, AdHocReg, FreeReg
      <4>2. cl[c].pc = "begin" /\ UNCHANGED <<tasks, running>>
        BY <2>4 DEF BeginAdHoc
      <4> QED BY <3>2, <3>3, <4>1, <4>2 DEF Registers
    <3>4. CASE q # r
      BY <3>1, <3>4 DEF TypeOK, Kept
    <3> QED BY <3>3, <3>4
  <2>5. CASE CommitRefused(c) \/ Drained(c) \/ CancelLifecycle(c) \/ AppendSkipped(c)
    BY <1>2, <2>5 DEF CommitRefused, Drained, CancelLifecycle, AppendSkipped
  <2>6. CASE RunNowDone(c) \/ StartNowDone(c) \/ CancelRun(c) \/ StopRunDone(c)
             \/ Return(c) \/ StopRunTimeout(c)
    BY <1>2, <2>6 DEF RunNowDone, StartNowDone, CancelRun, StopRunDone, Return, StopRunTimeout
  <2> QED BY <1>5, <2>1, <2>2, <2>3, <2>4, <2>5, <2>6 DEF Resume
<1> QED BY <1>4, <1>5

LEMMA LoopRegisters ==
  ASSUME TypeOK, NEW q \in Regs, LoopStep(q) \/ Fire(q), NEW r \in Regs
  PROVE  Kept(r)
<1>1. reg[q] \in RegRec /\ reg[q].loop # "none"
  BY DEF TypeOK, LoopStep, Persist, PersistLater, MayPersist, PersistSave, Fire, FireRetired,
         LoopExit, FireBegin, FireSkipped
<1>2. ASSUME NEW v, reg' = [reg EXCEPT ![q] = v], v.task = reg[q].task, v.loop # "none"
      PROVE  Kept(r)
  BY <1>1, <1>2 DEF TypeOK, Kept
<1>3. CASE Persist(q)
  <2> DEFINE v == [reg[q] EXCEPT !.loop = "save", !.tmp = reg[q].val]
  <2>1. reg' = [reg EXCEPT ![q] = v]
    BY <1>3 DEF Persist
  <2>2. v.task = reg[q].task /\ v.loop # "none"
    BY <1>1 DEF RegRec
  <2> HIDE DEF v
  <2> QED BY <1>2, <2>1, <2>2
<1>4. CASE PersistLater(q) \/ PersistSave(q) \/ LoopExit(q)
  <2>1. PICK v \in {[reg[q] EXCEPT !.loop = "wait"], [reg[q] EXCEPT !.loop = "exited"],
                    [reg[q] EXCEPT !.loop = "wait", !.tmp = Nil]} :
          reg' = [reg EXCEPT ![q] = v]
    BY <1>4 DEF PersistLater, PersistSave, LoopExit
  <2>2. v.task = reg[q].task /\ v.loop # "none"
    BY <1>1, <2>1 DEF RegRec
  <2> QED BY <1>2, <2>1, <2>2
<1>5. CASE Fire(q) \/ FireRetired(q)
  <2>1. PICK v \in {[reg[q] EXCEPT !.loop = "fired", !.tmp = reg[q].val],
                    [reg[q] EXCEPT !.loop = "next", !.tmp = Nil]} :
          reg' = [reg EXCEPT ![q] = v]
    BY <1>5 DEF Fire, FireRetired
  <2>2. v.task = reg[q].task /\ v.loop # "none"
    BY <1>1, <2>1 DEF RegRec
  <2> QED BY <1>2, <2>1, <2>2
<1>6. ASSUME NEW k, FireBegin(q, k) \/ FireSkipped(q, k)
      PROVE  Kept(r)
  <2>1. PICK v \in {[reg[q] EXCEPT !.loop = "next", !.val = reg[q].tmp, !.tmp = Nil],
                    [reg[q] EXCEPT !.loop = "next", !.val = reg[q].tmp, !.tmp = Nil,
                                   !.run = k]} :
          reg' = [reg EXCEPT ![q] = v]
    BY <1>6 DEF FireBegin, FireSkipped
  <2>2. v.task = reg[q].task /\ v.loop # "none"
    BY <1>1, <2>1 DEF RegRec
  <2> QED BY <1>2, <2>1, <2>2
<1> QED BY <1>3, <1>4, <1>5, <1>6 DEF LoopStep

LEMMA RunRegisters ==
  ASSUME TypeOK, NEW k \in Runs, RunStep(k) \/ Progress(k), NEW r \in Regs
  PROVE  Kept(r)
<1>1. reg[r] \in RegRec
  BY DEF TypeOK
<1>2. CASE Release(k)
  BY <1>1, <1>2 DEF TypeOK, RegRec, Release, Kept
<1>3. ASSUME NEW st, NEW late, ExecReturn(k, st, late)
      PROVE  Kept(r)
  <2>1. PICK q, v : reg' = [reg EXCEPT ![q] = [@ EXCEPT !.val = v]]
    BY <1>3 DEF ExecReturn
  <2> QED BY <1>1, <2>1 DEF TypeOK, RegRec, Kept
<1>4. CASE RegisterActive(k) \/ RejectActive(k) \/ StartLog(k) \/ StartLogFails(k)
           \/ Progress(k)
  BY <1>4 DEF RegisterActive, RejectActive, StartLog, StartLogFails, Progress, Kept
<1>5. CASE SaveResult(k) \/ SaveResultFails(k) \/ LogResult(k) \/ FinishActive(k)
  BY <1>5 DEF SaveResult, SaveResultFails, LogResult, FinishActive, Kept
<1> QED BY <1>2, <1>3, <1>4, <1>5 DEF RunStep

LEMMA StepRegisters ==
  ASSUME IInv, Next, ~Start, ~Crash, NEW r \in Regs
  PROVE  Kept(r) \/ (reg[r].task = Nil /\ Registers(r))
BY CallRegisters, LoopRegisters, RunRegisters DEF Next, IInv

\* A run has its task and its registration for life; a new one is of the
\* registration's task.
LEMMA RunBinds ==
  ASSUME IInv, Bound, Next, ~Start, ~Crash, NEW k \in Runs, Unfinished(k)'
  PROVE  \/ Unfinished(k) /\ run'[k].task = run[k].task /\ run'[k].reg = run[k].reg
         \/ run'[k].task = reg'[run'[k].reg].task
<1>1. TypeOK /\ run[k] \in RunRec
  BY DEF IInv, TypeOK
<1>2. ASSUME UNCHANGED run
      PROVE  Unfinished(k) /\ run'[k].task = run[k].task /\ run'[k].reg = run[k].reg
  BY <1>2 DEF Unfinished, InFlight
<1>3. ASSUME NEW c \in Callers, CallStep(c)
      PROVE  UNCHANGED run
  BY <1>3 DEF CallStep, Load, Delete, Save, Unregister, Upsert, Detach, Stop, Manual, Refused,
              StopRun, StopRunMisses
<1>4. ASSUME NEW c \in Callers, Resume(c) \/ StopRunTimeout(c)
      PROVE  \/ Unfinished(k) /\ run'[k].task = run[k].task /\ run'[k].reg = run[k].reg
             \/ run'[k].task = reg'[run'[k].reg].task
  <2>1. CASE Commit(c) \/ CommitRefused(c) \/ Drained(c) \/ CancelLifecycle(c)
    BY <1>2, <2>1 DEF Commit, CommitRefused, Drained, CancelLifecycle
  <2>2. CASE RunNowDone(c) \/ StartNowDone(c) \/ StopRunDone(c) \/ Return(c)
             \/ StopRunTimeout(c)
    BY <1>2, <2>2 DEF RunNowDone, StartNowDone, StopRunDone, Return, StopRunTimeout
  <2>3. CASE AppendSkipped(c)
    BY <1>1, <2>3 DEF TypeOK, RunRec, AppendSkipped, Unfinished, InFlight
  <2>4. CASE CancelRun(c)
    BY <1>1, <2>4 DEF TypeOK, RunRec, CancelRun, Unfinished, InFlight
  <2>5. ASSUME NEW j \in NextRun, BeginManual(c, j)
        PROVE  \/ Unfinished(k) /\ run'[k].task = run[k].task /\ run'[k].reg = run[k].reg
               \/ run'[k].task = reg'[run'[k].reg].task
    <3>1. j \in Runs /\ run' = [run EXCEPT ![j] = NewRun(cl[c].task, cl[c].arg, cl[c].reg, "begun")]
      BY <2>5, NextRunFresh DEF BeginManual
    <3>2. CASE k = j
      <4>1. run'[k].task = cl[c].task /\ run'[k].reg = cl[c].reg
        BY <1>1, <3>1, <3>2 DEF TypeOK, NewRun, FreeRun
      <4>2. cl[c].reg \in Regs /\ reg[cl[c].reg].task = cl[c].task
        BY <1>1, <2>5 DEF Bound, BeginManual, TypeOK, CallerRec
      <4>3. reg'[cl[c].reg].task = reg[cl[c].reg].task
        BY <1>1, <2>5, <4>2 DEF TypeOK, RegRec, BeginManual
      <4> QED BY <4>1, <4>2, <4>3
    <3>3. CASE k # j
      BY <1>1, <3>1, <3>3 DEF TypeOK, Unfinished, InFlight
    <3> QED BY <3>2, <3>3
  <2>6. ASSUME NEW j \in NextRun, BeginAdHoc(c, j)
        PROVE  \/ Unfinished(k) /\ run'[k].task = run[k].task /\ run'[k].reg = run[k].reg
               \/ run'[k].task = reg'[run'[k].reg].task
    <3>1. PICK q \in NextReg :
            /\ \E done : reg' = [reg EXCEPT ![q] = AdHocReg(cl[c].task, cl[c].arg, done, j)]
            /\ run' = [run EXCEPT ![j] = NewRun(cl[c].task, cl[c].arg, q, "begun")]
      BY <2>6 DEF BeginAdHoc
    <3>2. j \in Runs /\ q \in Regs
      BY <3>1, NextRunFresh, NextRegFresh
    <3>3. CASE k = j
      BY <1>1, <3>1, <3>2, <3>3 DEF TypeOK, NewRun, FreeRun, AdHocReg, FreeReg
    <3>4. CASE k # j
      BY <1>1, <3>1, <3>4 DEF TypeOK, Unfinished, InFlight
    <3> QED BY <3>3, <3>4
  <2>7. ASSUME NEW j \in NextRun, BeginSkipped(c, j)
        PROVE  Unfinished(k) /\ run'[k].task = run[k].task /\ run'[k].reg = run[k].reg
    BY <1>1, <2>7, NextRunFresh
       DEF TypeOK, BeginSkipped, NewRun, FreeRun, Unfinished, InFlight
  <2> QED BY <1>4, <2>1, <2>2, <2>3, <2>4, <2>5, <2>6, <2>7 DEF Resume
<1>5. ASSUME NEW r \in Regs, LoopStep(r) \/ Fire(r)
      PROVE  \/ Unfinished(k) /\ run'[k].task = run[k].task /\ run'[k].reg = run[k].reg
             \/ run'[k].task = reg'[run'[k].reg].task
  <2>1. CASE Persist(r) \/ PersistLater(r) \/ PersistSave(r) \/ FireRetired(r)
             \/ LoopExit(r) \/ Fire(r)
    BY <1>2, <2>1 DEF Persist, PersistLater, PersistSave, FireRetired, LoopExit, Fire
  <2>2. ASSUME NEW j \in NextRun, FireBegin(r, j)
        PROVE  \/ Unfinished(k) /\ run'[k].task = run[k].task /\ run'[k].reg = run[k].reg
               \/ run'[k].task = reg'[run'[k].reg].task
    <3>1. j \in Runs /\ run' = [run EXCEPT ![j] = NewRun(reg[r].task, reg[r].tmp, r, "begun")]
      BY <2>2, NextRunFresh DEF FireBegin
    <3>2. reg'[r].task = reg[r].task
      BY <1>1, <2>2 DEF TypeOK, RegRec, FireBegin
    <3>3. CASE k = j
      BY <1>1, <3>1, <3>2, <3>3 DEF TypeOK, NewRun, FreeRun
    <3>4. CASE k # j
      BY <1>1, <3>1, <3>4 DEF TypeOK, Unfinished, InFlight
    <3> QED BY <3>3, <3>4
  <2>3. ASSUME NEW j \in NextRun, FireSkipped(r, j)
        PROVE  Unfinished(k) /\ run'[k].task = run[k].task /\ run'[k].reg = run[k].reg
    BY <1>1, <2>3, NextRunFresh
       DEF TypeOK, FireSkipped, NewRun, FreeRun, Unfinished, InFlight
  <2> QED BY <1>5, <2>1, <2>2, <2>3 DEF LoopStep
<1>6. ASSUME NEW j \in Runs, RunStep(j) \/ Progress(j)
      PROVE  Unfinished(k) /\ run'[k].task = run[k].task /\ run'[k].reg = run[k].reg
  <2>1. Unfinished(j) \/ UNCHANGED run
    BY <1>6 DEF RunStep, RegisterActive, RejectActive, StartLog, StartLogFails, SaveResult,
                SaveResultFails, LogResult, FinishActive, Release, ExecReturn, Progress,
                Unfinished, InFlight
  <2>2. run'[k] = run[k] \/ (k = j /\ run'[k].task = run[k].task /\ run'[k].reg = run[k].reg)
    <3>1. run[j] \in RunRec
      BY <1>1 DEF TypeOK
    <3>2. ASSUME NEW v, run' = [run EXCEPT ![j] = v], v.task = run[j].task, v.reg = run[j].reg
          PROVE  run'[k] = run[k]
                 \/ (k = j /\ run'[k].task = run[k].task /\ run'[k].reg = run[k].reg)
      BY <1>1, <3>2 DEF TypeOK
    <3>3. CASE RegisterActive(j) \/ FinishActive(j) \/ Release(j)
      <4>1. PICK pc : run' = [run EXCEPT ![j] = [@ EXCEPT !.pc = pc]]
        BY <3>3 DEF RegisterActive, FinishActive, Release
      <4> QED BY <3>1, <3>2, <4>1 DEF RunRec
    <3>4. CASE RejectActive(j) \/ StartLogFails(j) \/ StartLog(j)
      <4>1. PICK v \in {[run[j] EXCEPT !.pc = "releasing", !.failed = TRUE],
                        [run[j] EXCEPT !.pc = "executing", !.started = TRUE]} :
              run' = [run EXCEPT ![j] = v]
        BY <3>4 DEF RejectActive, StartLogFails, StartLog
      <4>2. v.task = run[j].task /\ v.reg = run[j].reg
        BY <3>1, <4>1 DEF RunRec
      <4> QED BY <3>2, <4>1, <4>2
    <3>5. CASE SaveResult(j) \/ SaveResultFails(j) \/ LogResult(j)
      <4>1. PICK v \in {[run[j] EXCEPT !.pc = "logging", !.upd = Nil],
                        [run[j] EXCEPT !.pc = "finishing", !.upd = Nil, !.failed = TRUE],
                        [run[j] EXCEPT !.pc = "finishing", !.final = run[j].status,
                                       !.failed = logs'[j] # run[j].status]} :
              run' = [run EXCEPT ![j] = v]
        BY <3>5 DEF SaveResult, SaveResultFails, LogResult
      <4>2. v.task = run[j].task /\ v.reg = run[j].reg
        BY <3>1, <4>1 DEF RunRec
      <4> QED BY <3>2, <4>1, <4>2
    <3>6. ASSUME NEW st, NEW late, ExecReturn(j, st, late)
          PROVE  run'[k] = run[k]
                 \/ (k = j /\ run'[k].task = run[k].task /\ run'[k].reg = run[k].reg)
      <4>1. PICK v, s : run' = [run EXCEPT ![j] = [@ EXCEPT !.pc = "saving", !.upd = v,
                                                            !.status = s]]
        BY <3>6 DEF ExecReturn
      <4> QED BY <1>1, <3>1, <4>1 DEF TypeOK, RunRec
    <3> QED BY <1>6, <3>3, <3>4, <3>5, <3>6 DEF RunStep, Progress
  <2> QED BY <1>2, <2>1, <2>2 DEF Unfinished, InFlight
<1> QED BY <1>3, <1>2, <1>4, <1>5, <1>6 DEF Next

\* A run is of its registration's task, and without a loop only by hand.
LEMMA BoundStep ==
  ASSUME IInv, Requests, Bound, [Next]_vars \/ ArgOnly, byHand \subseteq byHand'
  PROVE  Bound'
<1> USE NilAssumption
<1>1. TypeOK /\ \A c \in Callers : ReqOK(c)
  BY DEF IInv, Requests
<1>2. CASE UNCHANGED vars \/ ArgOnly
  <2>1. UNCHANGED <<reg, run>>
    BY <1>2 DEF vars, ArgOnly
  <2>2. \A c \in Callers : /\ cl'[c].pc = cl[c].pc /\ cl'[c].reg = cl[c].reg
                           /\ cl'[c].task = cl[c].task
    <3>1. CASE ArgOnly
      BY <1>1, <3>1 DEF ArgOnly, TypeOK, CallerRec
    <3> QED BY <1>2, <3>1 DEF vars
  <2> QED BY <2>1, <2>2 DEF Bound, Unfinished, InFlight
<1>3. CASE Crash
  <2>1. /\ \A k \in Runs : run'[k].pc \in {"unused", "lost"}
        /\ \A c \in Callers : cl'[c].pc = "idle"
        /\ \A r \in Regs : reg'[r].task = Nil
    BY <1>3 DEF Crash, FreeRun, FreeReg, IdleCaller
  <2> QED BY <2>1 DEF Bound, Unfinished, InFlight
<1>4. CASE Start
  <2>1. UNCHANGED <<run, cl>>
    BY <1>4 DEF Start
  <2>2. ASSUME NEW r \in Regs
        PROVE  /\ reg[r].task # Nil => reg'[r] = reg[r]
               /\ reg'[r] # reg[r] => reg'[r].loop # "none"
    <3> DEFINE T == {t \in Tasks : file[t] # Nil /\ Enabled(file[t])}
    <3>1. PICK f \in Assignments(T) :
            reg' = [q \in Regs |->
                      IF \E t \in DOMAIN f : f[t] = q
                      THEN LET t == CHOOSE u \in DOMAIN f : f[u] = q
                           IN  LoopReg(t, file[t])
                      ELSE reg[q]]
      BY <1>4 DEF Start
    <3>2. f \in [T -> FreshRegs]
      <4> DEFINE S == {g \in [T -> FreshRegs] : \A t, u \in T : g[t] = g[u] => t = u}
      <4>1. f \in OneOf(S)
        BY DEF Assignments
      <4>2. S # {} /\ f \in S
        BY <4>1 DEF OneOf
      <4> QED BY <4>2
    <3> QED BY <3>1, <3>2 DEF FreshRegs, LoopReg, FreeReg
  <2>3. \A k \in Runs : Unfinished(k) => run[k].reg \in Regs /\ reg[run[k].reg].task # Nil
    BY DEF IInv, RunOK
  <2>4. \A c \in Callers : cl[c].reg # Nil => cl[c].reg \in Regs /\ reg[cl[c].reg].task # Nil
    BY <1>1 DEF IInv, CallerOK, TypeOK, CallerRec
  <2> QED BY <2>1, <2>2, <2>3, <2>4 DEF Bound, Unfinished, InFlight
<1>5. CASE Next /\ ~Start /\ ~Crash
  <2>1. \A r \in Regs : Kept(r) \/ (reg[r].task = Nil /\ Registers(r))
    BY <1>5, StepRegisters
  <2>2. ASSUME NEW r \in Regs, reg[r].task # Nil
        PROVE  reg'[r].task = reg[r].task
    BY <2>1, <2>2 DEF Kept
  <2>3. ASSUME NEW k \in Runs, Unfinished(k)'
        PROVE  reg'[run'[k].reg].task = run'[k].task
    <3>1. CASE Unfinished(k) /\ run'[k].task = run[k].task /\ run'[k].reg = run[k].reg
      <4>1. run[k].reg \in Regs /\ reg[run[k].reg].task # Nil
        BY <3>1 DEF IInv, RunOK
      <4> QED BY <2>2, <3>1, <4>1 DEF Bound
    <3> QED BY <1>5, <2>3, <3>1, RunBinds
  <2>4. ASSUME NEW c \in Callers, cl'[c].pc = "begin", cl'[c].reg # Nil
        PROVE  reg'[cl'[c].reg].task = cl'[c].task
    <3>1. CASE cl'[c] = cl[c]
      <4>1. cl[c].reg \in Regs /\ reg[cl[c].reg].task # Nil
        BY <1>1, <2>4, <3>1 DEF IInv, CallerOK, TypeOK, CallerRec
      <4> QED BY <2>2, <2>4, <3>1, <4>1 DEF Bound
    <3>2. ASSUME NEW op, Manual(c, op)
          PROVE  reg'[cl'[c].reg].task = cl'[c].task
      <4>1. /\ cl'[c].reg = tasks[cl[c].task] /\ cl'[c].task = cl[c].task /\ reg' = reg
            /\ cl[c].task \in Tasks
        BY <1>1, <3>2 DEF TypeOK, CallerRec, Manual
      <4> QED BY <2>4, <4>1 DEF IInv, TasksAreLive
    <3>3. (\E op : Manual(c, op)) \/ cl'[c] = cl[c]
      <4>1. ASSUME NEW d \in Callers, Resume(d) \/ StopRunTimeout(d)
            PROVE  cl'[c] = cl[c]
        <5>1. CASE Return(d)
          BY <1>1, <2>4, <5>1, ReturnCalls
        <5>2. CASE cl[d].pc # "ret" \/ StopRunTimeout(d)
          <6>1. (Resume(d) /\ cl[d].pc # "ret") \/ StopRunTimeout(d)
            BY <4>1, <5>2
          <6> QED BY <1>1, <2>4, <6>1, ResumeCalls
        <5>3. Resume(d) /\ cl[d].pc = "ret" => Return(d)
          BY DEF Resume, Commit, CommitRefused, Drained, CancelLifecycle, BeginManual,
                 BeginAdHoc, BeginSkipped, AppendSkipped, RunNowDone, StartNowDone,
                 CancelRun, StopRunDone
        <5> QED BY <4>1, <5>1, <5>2, <5>3
      <4>2. ASSUME NEW d \in Callers, CallStep(d)
            PROVE  (\E op : Manual(c, op)) \/ cl'[c] = cl[c]
        <5>1. cl[d] \in CallerRec
          BY <1>1 DEF TypeOK
        <5>2. ASSUME NEW op, Manual(d, op)
              PROVE  (\E o : Manual(c, o)) \/ cl'[c] = cl[c]
          <6>1. d # c => cl'[c] = cl[c]
            BY <1>1, <5>2 DEF TypeOK, Manual
          <6> QED BY <5>2, <6>1
        <5>3. ASSUME NEW op, NEW pc \in {"draining", "replacing"}, Detach(d, op, pc)
              PROVE  cl'[c] = cl[c]
          BY <1>1, <2>4, <5>3, DetachCalls
        <5>4. ASSUME NEW op, Refused(d, op)
              PROVE  cl'[c] = cl[c]
          BY <1>1, <2>4, <5>4, DetachCalls
        <5>5. ASSUME NEW k, StopRun(d, k)
              PROVE  cl'[c] = cl[c]
          BY <1>1, <2>4, <5>1, <5>5 DEF TypeOK, CallerRec, StopRun
        <5>6. ASSUME NEW k, StopRunMisses(d, k)
              PROVE  cl'[c] = cl[c]
          BY <1>1, <2>4, <5>1, <5>6 DEF TypeOK, CallerRec, StopRunMisses
        <5>7. ASSUME NEW t \in Tasks, Load(d, t) \/ Delete(d, t)
              PROVE  cl'[c] = cl[c]
          <6>1. CASE Load(d, t)
            BY <1>1, <2>4, <6>1, StoreCalls
          <6>2. CASE Delete(d, t)
            BY <6>2 DEF Delete
          <6> QED BY <5>7, <6>1, <6>2
        <5>8. ASSUME NEW t \in Tasks, NEW v \in Drafts(d, t), Save(d, t, v)
              PROVE  cl'[c] = cl[c]
          BY <1>1, <2>4, <5>8, StoreCalls DEF Drafts
        <5>9. CASE Stop(d)
          BY <1>1, <2>4, <5>1, <5>9 DEF TypeOK, CallerRec, Stop
        <5> QED BY <4>2, <5>2, <5>3, <5>4, <5>5, <5>6, <5>7, <5>8, <5>9
                DEF CallStep, Unregister, Upsert
      <4> QED BY <1>5, <4>1, <4>2, WorkersCalls DEF Next
    <3> QED BY <3>1, <3>2, <3>3
  <2>5. ASSUME NEW r \in Regs, reg'[r].task # Nil, reg'[r].loop = "none"
        PROVE  reg'[r].task \in byHand'
    <3>1. CASE Kept(r)
      BY <2>5, <3>1 DEF Kept, Bound
    <3>2. CASE Registers(r)
      <4>1. PICK c \in Callers :
              \/ reg' = [reg EXCEPT ![r] = LoopReg(cl[c].task, cl[c].arg)]
              \/ cl[c].pc = "begin" /\ reg'[r].task = cl[c].task
        BY <3>2 DEF Registers
      <4>2. cl[c].pc = "begin" => cl[c].task \in byHand
        BY <1>1 DEF ReqOK
      <4>3. reg' # [reg EXCEPT ![r] = LoopReg(cl[c].task, cl[c].arg)]
        <5>1. LoopReg(cl[c].task, cl[c].arg).loop = "init"
          BY DEF LoopReg, FreeReg
        <5> QED BY <1>1, <2>5, <5>1 DEF TypeOK
      <4> QED BY <4>1, <4>2, <4>3
    <3> QED BY <2>1, <3>1, <3>2
  <2> QED BY <2>3, <2>4, <2>5 DEF Bound
<1> QED BY <1>2, <1>3, <1>4, <1>5

-----------------------------------------------------------------------------
(* What a step does to the definitions that registrations and runs remember *)

RegCarries(r) ==
  /\ reg'[r].val = reg[r].val
  /\ reg'[r].loop \in {"save", "fired"} =>
       reg[r].loop \in {"save", "fired"} /\ reg'[r].tmp = reg[r].tmp
RunCarries(k) ==
  run'[k].pc = "saving" =>
    run[k].pc = "saving" /\ run'[k].upd = run[k].upd /\ run'[k].reg = run[k].reg

LEMMA Carried ==
  ASSUME NEW r \in Regs, RegCarries(r), \A k \in Runs : RunCarries(k),
         NEW d, Remembers(r, d)
  PROVE  Remembers(r, d)'
BY DEF RegCarries, RunCarries, Remembers

\* Calls and answers leave what is remembered, but for a run asked for by hand.
LEMMA CallCarries ==
  ASSUME IInv, Requests, Bound, NEW c \in Callers,
         CallStep(c) \/ Resume(c) \/ StopRunTimeout(c),
         NEW r \in Regs, reg[r].task \in Tasks \ byHand
  PROVE  RegCarries(r) /\ \A k \in Runs : RunCarries(k)
<1> USE NilAssumption
<1>1. TypeOK /\ reg[r] \in RegRec /\ ReqOK(c)
  BY DEF IInv, TypeOK, Requests
<1>2. UNCHANGED reg => RegCarries(r)
  BY DEF RegCarries
<1>3. UNCHANGED run => \A k \in Runs : RunCarries(k)
  BY DEF RunCarries
<1>4. ASSUME NEW S, reg' = Retire(S)
      PROVE  RegCarries(r)
  BY <1>1, <1>4 DEF Retire, RegCarries, RegRec
<1>5. ASSUME NEW q \in Regs, q # r, NEW v, reg' = [reg EXCEPT ![q] = v]
      PROVE  RegCarries(r)
  BY <1>1, <1>5 DEF TypeOK, RegCarries
<1>6. ASSUME NEW j \in Runs, NEW v, run' = [run EXCEPT ![j] = v], v.pc # "saving"
      PROVE  \A k \in Runs : RunCarries(k)
  BY <1>1, <1>6 DEF TypeOK, RunCarries
<1>9. \A t, v, q, pc : NewRun(t, v, q, pc).pc = pc
  BY DEF NewRun, FreeRun
<1>7. CASE CallStep(c)
  <2>1. UNCHANGED run
    BY <1>7 DEF CallStep, Load, Delete, Save, Unregister, Upsert, Detach, Stop, Manual,
                Refused, StopRun, StopRunMisses
  <2>2. UNCHANGED reg \/ \E S : reg' = Retire(S)
    BY <1>7 DEF CallStep, Load, Delete, Save, Unregister, Upsert, Detach, Stop, Manual,
                Refused, StopRun, StopRunMisses
  <2> QED BY <1>2, <1>3, <1>4, <2>1, <2>2
<1>8. CASE Resume(c) \/ StopRunTimeout(c)
  <2>1. CASE Commit(c)
    <3>1. PICK q \in NextReg : reg' = [reg EXCEPT ![q] = LoopReg(cl[c].task, cl[c].arg)]
      BY <2>1 DEF Commit
    <3>2. q \in Regs /\ q # r /\ UNCHANGED run
      BY <2>1, NextRegFresh DEF Commit
    <3> QED BY <1>3, <1>5, <3>1, <3>2
  <2>2. CASE CommitRefused(c) \/ Drained(c) \/ CancelLifecycle(c)
    BY <1>2, <1>3, <2>2 DEF CommitRefused, Drained, CancelLifecycle
  <2>3. CASE RunNowDone(c) \/ StartNowDone(c) \/ StopRunDone(c) \/ Return(c)
             \/ StopRunTimeout(c)
    BY <1>2, <1>3, <2>3 DEF RunNowDone, StartNowDone, StopRunDone, Return, StopRunTimeout
  <2>4. CASE AppendSkipped(c)
    <3>1. UNCHANGED reg /\ run' = [run EXCEPT ![cl[c].run] = [@ EXCEPT !.pc = "done"]]
      BY <2>4 DEF AppendSkipped
    <3> QED BY <1>1, <1>2, <3>1 DEF TypeOK, RunRec, RunCarries
  <2>5. CASE CancelRun(c)
    <3>1. UNCHANGED reg /\ run' = [run EXCEPT ![cl[c].run] = [@ EXCEPT !.cancelled = TRUE]]
      BY <2>5 DEF CancelRun
    <3> QED BY <1>1, <1>2, <3>1 DEF TypeOK, RunRec, RunCarries
  <2>6. ASSUME NEW j \in NextRun, BeginManual(c, j) \/ BeginSkipped(c, j)
        PROVE  RegCarries(r) /\ \A k \in Runs : RunCarries(k)
    <3>1. /\ \E v : reg' = [reg EXCEPT ![cl[c].reg] = v]
          /\ \E q, pc : pc # "saving" /\ run' = [run EXCEPT ![j] = NewRun(cl[c].task, cl[c].arg, q, pc)]
      BY <2>6 DEF BeginManual, BeginSkipped
    <3>2. cl[c].reg # r
      BY <1>1, <2>6 DEF ReqOK, Bound, BeginManual, BeginSkipped
    <3>3. cl[c].reg \in Regs
      BY <1>1, <2>6 DEF TypeOK, CallerRec, BeginManual, BeginSkipped
    <3>4. RegCarries(r)
      BY <1>5, <3>1, <3>2, <3>3
    <3>5. PICK q, pc : pc # "saving" /\ run' = [run EXCEPT ![j] = NewRun(cl[c].task, cl[c].arg, q, pc)]
      BY <3>1
    <3>6. NewRun(cl[c].task, cl[c].arg, q, pc).pc # "saving" /\ j \in Runs
      BY <1>9, <3>5, NextRunFresh
    <3> QED BY <1>6, <3>4, <3>5, <3>6
  <2>7. ASSUME NEW j \in NextRun, BeginAdHoc(c, j)
        PROVE  RegCarries(r) /\ \A k \in Runs : RunCarries(k)
    <3>1. PICK q \in NextReg :
            /\ \E v : reg' = [reg EXCEPT ![q] = v]
            /\ run' = [run EXCEPT ![j] = NewRun(cl[c].task, cl[c].arg, q, "begun")]
      BY <2>7 DEF BeginAdHoc
    <3>2. q \in Regs /\ q # r
      BY NextRegFresh
    <3>3. NewRun(cl[c].task, cl[c].arg, q, "begun").pc # "saving" /\ j \in Runs
      BY <1>9, NextRunFresh
    <3>4. RegCarries(r)
      BY <1>5, <3>1, <3>2
    <3> QED BY <1>6, <3>1, <3>3, <3>4
  <2> QED BY <1>8, <2>1, <2>2, <2>3, <2>4, <2>5, <2>6, <2>7 DEF Resume
<1> QED BY <1>7, <1>8

-----------------------------------------------------------------------------
(* What holds of the scheduler holds of it under the task API *)

LEMMA HistoryGrows ==
  ASSUME [MNext]_mvars
  PROVE  byHand \subseteq byHand'
BY ZenonT(60) DEF MNext, mvars, MCall, MResume, MCrash, Create, LoadForMutation, Shutdown, NewRequest,
       CreateUpsert, CreateEnds, CreateFails, CreateUndo, Detaching, DetachFails, Detached,
       UpdateSave, UpdateSaveFails, UpdateUpsert, UpdateEnds, UpdateUpsertFails, DeleteEnds,
       DeleteFails, Rewrite, RewriteFails, Restore, RestoreEnds, RunRequest, StopRequest,
       RunEnds, Go, GoUnsaved, Finish

\* What needs no assumption about the clients.
Invariant == IInv /\ Settled /\ Requests /\ Bound

LEMMA InvariantInit == MInit => Invariant
<1> SUFFICES ASSUME MInit
             PROVE  Invariant
  OBVIOUS
<1> USE NilAssumption
<1>1. Init
  BY DEF MInit
<1>2. Requests
  <2>1. NoRequest \in Request
    BY DEF NoRequest, Request, MutationOps, MutationSteps
  <2>2. \A c \in Callers : mr[c] = NoRequest /\ cl[c] = IdleCaller
    BY <1>1 DEF MInit, Init
  <2>3. ASSUME NEW c \in Callers
        PROVE  ReqOK(c)
    <3>1. mr[c].op = "none" /\ mr[c].step = "none"
      BY <2>2 DEF NoRequest
    <3>2. cl[c].pc = "idle"
      BY <2>2 DEF IdleCaller
    <3> QED BY <2>2, <3>1, <3>2
            DEF ReqOK, StepOfOp, PcOfStep, MutationSteps, Changes, Replaces, CallRefused
  <2> QED BY <2>1, <2>3 DEF Requests, MInit
<1>3. Bound
  BY <1>1 DEF Init, Bound, Unfinished, InFlight, FreeRun, FreeReg, IdleCaller
<1> QED BY <1>1, <1>2, <1>3, InitIInv, SettledInit DEF Invariant

LEMMA InvariantStep ==
  ASSUME Invariant, [MNext]_mvars
  PROVE  Invariant'
<1>1. [Next]_vars \/ ArgOnly
  BY SchedulerSteps DEF Invariant
<1>2. Requests' /\ Bound'
  BY <1>1, RequestsStep, BoundStep, HistoryGrows DEF Invariant
<1>3. IInv' /\ Settled'
  <2>1. CASE [Next]_vars
    BY <2>1, NextKeeps, StutterKeeps, SettledStep DEF Invariant
  <2>2. CASE ArgOnly
    BY <2>2, ArgKeeps DEF Invariant
  <2> QED BY <1>1, <2>1, <2>2
<1> QED BY <1>2, <1>3 DEF Invariant

\* Under every sequence of requests, whatever each of them does when a call of its
\* own fails, the scheduler keeps its invariants, a request stands where its client's
\* call can be, and a run is of its registration's task (mutation_runner.go).
THEOREM InvariantHolds == MSpec => []Invariant
BY InvariantInit, InvariantStep, PTL DEF MSpec

\* A stop request that reports a stopped run reports that run's final outcome, also
\* when the task is updated or deleted meanwhile (active_runs.go).
THEOREM StopsAnswerTruly == MSpec => []StopRunAnswer
<1>1. Invariant => StopRunAnswer
  BY SettledAnswers DEF Invariant
<1> QED BY <1>1, InvariantHolds, PTL

\* Whatever requests are made, a task's runs start, log and end as TaskRuns says.
THEOREM RequestsImplementTaskRuns == MSpec => ImplementsTaskRuns
<1>1. MInit => Abs!AbsInit
  BY ViewInit DEF MInit
<1>2. ASSUME Invariant, [MNext]_mvars
      PROVE  [Abs!AbsNext]_(Abs!AbsVars)
  <2>1. CASE [Next]_vars
    BY <1>2, <2>1, ViewStep DEF Invariant
  <2>2. CASE ArgOnly
    <3>1. UNCHANGED <<active, run, logs>>
      BY <1>2, <2>2, ArgKeeps DEF Invariant
    <3>2. UNCHANGED Abs!AbsVars
      BY <3>1, Unseen DEF Phase, InFlight
    <3> QED BY <3>2
  <2> QED BY <1>2, <2>1, <2>2, SchedulerSteps DEF Invariant
<1> QED BY <1>1, <1>2, InvariantHolds, PTL DEF MSpec, ImplementsTaskRuns, Abs!AbsSpec

-----------------------------------------------------------------------------
(* Barrier is an invariant, of one client that changes tasks *)

\* A registration works on; one that has ended its work never takes it up again,
\* and a new one comes from the commit of an upsert.
LEMMA WorksStep ==
  ASSUME IInv, IInv', Looped', Next, ~Start, ~Crash, NEW r \in Regs, Works(r)'
  PROVE  \/ Works(r) /\ reg'[r].task = reg[r].task
         \/ /\ reg[r].task = Nil
            /\ \E c \in Callers :
                 /\ Commit(c)
                 /\ reg' = [reg EXCEPT ![r] = LoopReg(cl[c].task, cl[c].arg)]
                 /\ tasks' = [tasks EXCEPT ![cl[c].task] = r]
<1>1. RegOK(r) /\ RegOK(r)'
  BY DEF IInv
<1>2. reg'[r].task # Nil /\ reg'[r].loop # "none"
  BY <1>1 DEF RegOK, Works
<1>3. life' # "none"
  BY <1>2 DEF Looped, DeadOK
<1>4. CASE Kept(r)
  <2>1. reg[r].retired /\ Idle(r) => reg'[r] = reg[r]
    BY <1>3, QuietStep
  <2>2. reg[r].loop # "none"
    BY <1>2, <1>4 DEF Kept
  <2>3. reg'[r] = reg[r] => (Works(r)' <=> Works(r))
    BY DEF Works, Idle
  <2> QED BY <1>4, <2>1, <2>2, <2>3 DEF Kept, Works
<1>5. CASE reg[r].task = Nil /\ Registers(r)
  BY <1>2, <1>5 DEF Registers
<1> QED BY <1>4, <1>5, StepRegisters

\* No registration takes up work, and none changes its task.
Shrinks ==
  \A r \in Regs : Works(r)' => Works(r) /\ reg'[r].task = reg[r].task

\* Registrations are only retired and removed, by a client that changes tasks or by
\* Stop: what the barrier says of the other requests stands.
LEMMA OthersStand ==
  ASSUME OneMutator, TypeOK, Requests, Barrier, Shrinks, NEW c \in Callers,
         \A d \in Callers \ {c} : mr'[d] = mr[d] /\ cl'[d] = cl[d],
         running' => running, \A t \in Tasks : tasks'[t] \in {tasks[t], Nil},
         ~running' \/ UNCHANGED tasks \/ c \in Mutators
  PROVE  OneWorks' /\ \A d \in Callers \ {c} : Cleared(d)'
<1>1. OneWorks'
  BY DEF Barrier, OneWorks, Shrinks
<1>2. ASSUME NEW d \in Callers \ {c}
      PROVE  Cleared(d)'
  <2>1. Cleared(d) /\ ReqOK(d) /\ mr'[d] = mr[d] /\ cl'[d] = cl[d]
    BY DEF Barrier, Requests
  <2>2. Behind(d) \/ mr[d].step \in {"detached", "upserted", "restored"} =>
          Changes(d) /\ cl[d].task \in Tasks
    BY <2>1 DEF Behind, PastBarrier, ReqOK, Changes, Replaces, StepOfOp
  <2>3. Behind(d)' <=> Behind(d)
    BY <2>1 DEF Behind, PastBarrier, Replaces, CallRefused
  <2>4. Behind(d) => /\ tasks'[cl[d].task] = Nil
                     /\ \A r \in Regs : reg'[r].task = cl[d].task => ~Works(r)'
    BY <2>1, <2>2 DEF Cleared, Shrinks
  <2>5. mr[d].step = "detached" /\ ~CallRefused(d) =>
          /\ tasks'[cl[d].task] = Nil
          /\ \A r \in Regs : reg'[r].task = cl[d].task /\ Works(r)' => r \in cl[d].drain
    BY <2>1, <2>2 DEF Cleared, Shrinks
  <2>6. mr[d].step \in {"upserted", "restored"} /\ cl[d].pc = "ret" /\ cl[d].res = "ok" =>
          IF Enabled(cl[d].arg) THEN running' => tasks'[cl[d].task] # Nil
          ELSE tasks'[cl[d].task] = Nil
    <3>1. Changes(d) /\ c \in Mutators => d = c
      BY <2>1 DEF OneMutator, ReqOK
    <3> QED BY <2>1, <2>2, <3>1 DEF Cleared
  <2> QED BY <2>1, <2>3, <2>4, <2>5, <2>6 DEF Cleared, CallRefused, Enabled
<1> QED BY <1>1, <1>2

\* What a request waits for, it waits for until it has stopped working.
LEMMA AccountedStands ==
  ASSUME Accounted, Shrinks, running' => running /\ UNCHANGED tasks,
         \A c \in Callers, r \in Regs :
           Waits(c, r) /\ Works(r)' /\ reg'[r].task = reg[r].task => Waits(c, r)'
  PROVE  Accounted'
BY DEF Accounted, Shrinks

\* A request's own step comes from a client that is idle or whose call returns; of
\* the scheduler it detaches a registration, stops everything, or changes nothing here.
LEMMA OwnTouches ==
  ASSUME NEW c \in Callers, MCall(c) \/ MResume(c)
  PROVE  /\ cl[c].pc \in {"idle", "ret"}
         /\ \/ UNCHANGED <<reg, tasks, running>>
            \/ Stop(c)
            \/ Unregister(c) /\ Detaching(c)
            \/ Upsert(c) /\ (CreateUpsert(c) \/ UpdateUpsert(c) \/ Restore(c))
<1>1. CASE MCall(c)
  BY <1>1 DEF MCall, Create, LoadForMutation, Shutdown, Save, Load, Stop, Refused, Issue
<1>2. CASE CreateUpsert(c) \/ UpdateUpsert(c) \/ Restore(c)
  BY <1>2 DEF CreateUpsert, UpdateUpsert, Restore, CallUpsert, Upsert, Detach, Refused, Issue
<1>3. CASE Detaching(c)
  BY <1>3 DEF Detaching, Unregister, Detach, Refused, Issue
<1>4. CASE CreateEnds(c) \/ DetachFails(c) \/ UpdateEnds(c) \/ RestoreEnds(c) \/ RunEnds(c)
           \/ CreateFails(c) \/ UpdateUpsertFails(c) \/ Detached(c)
  BY <1>4 DEF CreateEnds, DetachFails, UpdateEnds, RestoreEnds, RunEnds, CreateFails,
              UpdateUpsertFails, Detached, Returned, Return
<1>5. CASE UpdateSave(c) \/ UpdateSaveFails(c) \/ DeleteFails(c) \/ Rewrite(c)
           \/ RewriteFails(c) \/ CreateUndo(c) \/ DeleteEnds(c)
  BY <1>5 DEF UpdateSave, UpdateSaveFails, DeleteFails, Rewrite, RewriteFails, CreateUndo,
              DeleteEnds, DeleteMisses, SaveFails, Save, Delete, Issue, vars
<1>6. CASE RunRequest(c) \/ StopRequest(c)
  BY <1>6 DEF RunRequest, StopRequest, Manual, Refused, StopRun, StopRunMisses, Issue
<1> QED BY <1>1, <1>2, <1>3, <1>4, <1>5, <1>6 DEF MResume

\* What retires a registration, or leaves it, gives it no work.
LEMMA RetireShrinks ==
  ASSUME TypeOK
  PROVE  /\ UNCHANGED reg => Shrinks
         /\ \A S \in SUBSET Regs : reg' = Retire(S) => Shrinks
<1>1. ASSUME NEW S \in SUBSET Regs, reg' = Retire(S), NEW r \in Regs, Works(r)'
      PROVE  Works(r) /\ reg'[r].task = reg[r].task
  <2>1. /\ reg'[r].task = reg[r].task /\ reg'[r].loop = reg[r].loop
        /\ reg'[r].run = reg[r].run /\ (reg[r].retired => reg'[r].retired)
    BY <1>1, RetireType
  <2> QED BY <1>1, <2>1 DEF Works, Idle
<1>2. UNCHANGED reg => Shrinks
  BY DEF Shrinks, Works, Idle
<1> QED BY <1>1, <1>2 DEF Shrinks

\* A request that unregisters its task, or upserts it, waits for what it detaches.
LEMMA DetachAccounted ==
  ASSUME IInv, Accounted, NEW c \in Callers, NEW op, NEW pc \in {"replacing", "draining"},
         Detach(c, op, pc), Changes(c), mr'[c].op = mr[c].op,
         \A d \in Callers \ {c} : mr'[d] = mr[d] /\ cl'[d] = cl[d]
  PROVE  /\ Shrinks /\ Accounted' /\ c \in Mutators /\ running' = running
         /\ tasks'[cl[c].task] = Nil /\ \A t \in Tasks : tasks'[t] \in {tasks[t], Nil}
         /\ cl'[c].task = cl[c].task /\ cl'[c].pc = pc
<1>1. TypeOK
  BY DEF IInv
<1>2. /\ cl[c].pc = "idle" /\ cl'[c].pc = pc /\ cl'[c].task = cl[c].task
      /\ cl'[c].drain = Registered(cl[c].task)
  BY <1>1, DetachCalls
<1>3. /\ reg' = Retire(Registered(cl[c].task)) /\ tasks' = Dropped(cl[c].task)
      /\ running' = running /\ running /\ c \in Mutators /\ cl[c].task \in Tasks
  BY <1>1 DEF Detach, TypeOK, CallerRec
<1>4. Registered(cl[c].task) \in SUBSET Regs
  BY <1>1, <1>3 DEF TypeOK, Registered
<1>5. Shrinks
  BY <1>1, <1>3, <1>4, RetireShrinks
<1>6. tasks'[cl[c].task] = Nil /\ \A t \in Tasks \ {cl[c].task} : tasks'[t] = tasks[t]
  BY <1>1, <1>3 DEF TypeOK, Dropped
<1>7. ASSUME NEW r \in Regs, Works(r)'
      PROVE  tasks'[reg'[r].task] = r \/ \E d \in Callers : Waits(d, r)'
  <2>1. Works(r) /\ reg'[r].task = reg[r].task /\ reg[r].task \in Tasks
    <3>1. reg[r].task \in Tasks \cup {Nil} /\ RegOK(r)
      BY <1>1 DEF TypeOK, RegRec, IInv
    <3> QED BY <1>5, <1>7, <3>1 DEF Shrinks, Works, RegOK
  <2>2. CASE reg[r].task = cl[c].task /\ tasks[reg[r].task] = r
    <3>1. r \in cl'[c].drain
      BY <1>2, <1>3, <2>2, NilAssumption DEF Registered
    <3>2. Waits(c, r)'
      BY <1>2, <2>1, <2>2, <3>1 DEF Waits, Changes
    <3> QED BY <3>2
  <2>3. CASE reg[r].task # cl[c].task /\ tasks[reg[r].task] = r
    BY <1>6, <2>1, <2>3
  <2>4. ASSUME NEW d \in Callers, Waits(d, r)
        PROVE  Waits(d, r)'
    <3>1. d # c
      BY <1>2, <2>4 DEF Waits
    <3> QED BY <2>1, <2>4, <3>1 DEF Waits, Changes
  <2> QED BY <1>3, <2>1, <2>2, <2>3, <2>4 DEF Accounted
<1> QED BY <1>2, <1>3, <1>5, <1>6, <1>7 DEF Accounted

\* A request behind its barrier goes on to a step that is behind it too, with no
\* registration of its own yet.
LEMMA StaysBehind ==
  ASSUME OneMutator, TypeOK, Requests, Barrier, Shrinks, NEW c \in Callers,
         Behind(c), cl'[c].task = cl[c].task, \A t \in Tasks : tasks'[t] \in {tasks[t], Nil},
         mr'[c].step # "detached",
         mr'[c].step \in {"upserted", "restored"} =>
           cl'[c].pc \in {"replacing", "draining"} \/ CallRefused(c)'
  PROVE  Cleared(c)'
<1>1. ReqOK(c) /\ Cleared(c)
  BY DEF Requests, Barrier
<1>2. cl[c].task \in Tasks
  BY <1>1 DEF Behind, PastBarrier, ReqOK, Changes, Replaces, StepOfOp
<1>3. /\ tasks'[cl[c].task] = Nil
      /\ \A r \in Regs : reg'[r].task = cl[c].task => ~Works(r)'
  BY <1>1, <1>2 DEF Cleared, Shrinks
<1> QED BY <1>3 DEF Cleared, CallRefused

LEMMA OwnCleared ==
  ASSUME OneMutator, IInv, Requests, Requests', Barrier, NEW c \in Callers,
         MCall(c) \/ MResume(c), Shrinks, OwnMove(c),
         \A t \in Tasks : tasks'[t] \in {tasks[t], Nil}
  PROVE  Cleared(c)'
<1> USE NilAssumption
<1>1. TypeOK /\ cl[c] \in CallerRec /\ ReqOK(c) /\ ReqOK(c)' /\ Cleared(c) /\ Accounted
  BY DEF IInv, TypeOK, Requests, Barrier
<1>2. /\ \A step \in MutationSteps : Go(c, step) =>
           mr'[c].op = mr[c].op /\ mr'[c].step = step
      /\ Finish(c) => mr'[c] = NoRequest
      /\ \A op \in MutationOps, step \in MutationSteps, d \in Defs \cup {Nil} :
           NewRequest(c, op, step, d) => mr'[c].op = op /\ mr'[c].step = step
  BY RequestMoves DEF Requests
<1>3. ASSUME mr'[c].op # "create", mr'[c].step \in {"none", "loaded", "ran"}
      PROVE  Cleared(c)'
  BY <1>3 DEF Cleared, Behind, PastBarrier
<1>4. CASE Finish(c)
  BY <1>2, <1>3, <1>4 DEF NoRequest
<1>5. ASSUME NEW t \in Tasks, NEW d \in Defs, Create(c, t, d)
      PROVE  Cleared(c)'
  <2>1. mr'[c].op = "create" /\ mr'[c].step = "upsert"
    BY <1>2, <1>5 DEF Create, MutationOps, MutationSteps
  <2>2. cl'[c].task = t /\ UNCHANGED <<reg, tasks>> /\ NewId(t)
    BY <1>1, <1>5 DEF Create, Save, TypeOK, CallerRec
  <2>3. tasks[t] = Nil
    BY <1>1, <2>2 DEF IInv, TasksAreLive, NewId, TypeOK
  <2> QED BY <2>1, <2>2, <2>3 DEF Cleared, NewId
<1>6. ASSUME NEW t \in Tasks, NEW d \in Defs \cup {Nil},
             NEW op \in {"update", "delete", "run_now", "start_now", "stop_run"},
             LoadForMutation(c, t, op, d)
      PROVE  Cleared(c)'
  <2>1. mr'[c].op = op /\ mr'[c].step = "loaded"
    BY <1>6 DEF LoadForMutation, Requests
  <2> QED BY <1>3, <2>1
<1>7. CASE Shutdown(c)
  BY <1>2, <1>3, <1>7 DEF Shutdown, MutationOps, MutationSteps
<1>8. CASE CreateUpsert(c) \/ UpdateUpsert(c) \/ Restore(c)
  <2>1. CallUpsert(c) /\ mr[c].step \in {"upsert", "saved", "restore"}
    BY <1>8 DEF CreateUpsert, UpdateUpsert, Restore, At
  <2>2. mr'[c].step \in {"upserted", "restored"}
    BY <1>2, <1>8 DEF CreateUpsert, UpdateUpsert, Restore, MutationSteps
  <2>3. /\ cl'[c].task = cl[c].task
        /\ cl'[c].pc \in {"replacing", "draining"} \/ CallRefused(c)'
    BY <1>1, <2>1, UpsertCalls DEF CallRefused
  <2>4. Behind(c)
    BY <1>1, <2>1 DEF Behind, PastBarrier, ReqOK, StepOfOp
  <2> QED BY <1>1, <2>2, <2>3, <2>4, StaysBehind
<1>9. CASE CreateFails(c) \/ UpdateUpsertFails(c)
  <2>1. /\ Return(c) /\ CallRefused(c) /\ mr[c].step = "upserted"
        /\ mr[c].op \in {"create", "update"}
    BY <1>9 DEF CreateFails, UpdateUpsertFails, Returned, Return, At, CallRefused
  <2>2. mr'[c].step \in {"undo", "rewrite"}
    BY <1>2, <1>9 DEF CreateFails, UpdateUpsertFails, MutationSteps
  <2>3. Behind(c) /\ cl'[c].task = cl[c].task
    BY <1>1, <2>1, ReturnCalls DEF Behind, Replaces
  <2> QED BY <1>1, <2>2, <2>3, StaysBehind
<1>10. CASE Detached(c)
  <2>1. /\ Return(c) /\ cl[c].pc = "ret" /\ ~CallRefused(c) /\ mr[c].step = "detached"
        /\ mr'[c].step = "write" /\ UNCHANGED <<reg, tasks>>
    BY <1>2, <1>10 DEF Detached, Returned, Return, CallRefused, MutationSteps
  <2>2. cl'[c].task = cl[c].task
    BY <1>1, <2>1, ReturnCalls
  <2>3. /\ tasks[cl[c].task] = Nil
        /\ \A r \in Regs : reg[r].task = cl[c].task /\ Works(r) => r \in cl[c].drain
    BY <1>1, <2>1 DEF Cleared
  <2>4. \A r \in cl[c].drain : reg[r].retired /\ Idle(r)
    BY <2>1 DEF IInv, DrainOK
  <2>5. \A r \in Regs : reg[r].task = cl[c].task => ~Works(r)
    BY <2>3, <2>4 DEF Works
  <2>6. \A r \in Regs : Works(r)' <=> Works(r)
    BY <2>1 DEF Works, Idle
  <2> QED BY <2>1, <2>2, <2>3, <2>5, <2>6 DEF Cleared
<1>11. CASE UpdateSave(c) \/ UpdateSaveFails(c) \/ DeleteFails(c) \/ Rewrite(c)
            \/ RewriteFails(c)
  <2>1. mr[c].step \in {"write", "rewrite"}
    BY <1>11 DEF UpdateSave, UpdateSaveFails, DeleteFails, Rewrite, RewriteFails, At
  <2>2. mr'[c].step \in {"saved", "restore", "rewrite"}
    <3>1. GoUnsaved(c) => mr'[c].step = "restore"
      BY <1>1, RequestMoves DEF Requests
    <3> QED BY <1>2, <1>11, <3>1
            DEF UpdateSave, UpdateSaveFails, DeleteFails, Rewrite, RewriteFails, MutationSteps
  <2>3. cl'[c].task = cl[c].task
    <3>1. ASSUME NEW v, Save(c, cl[c].task, v)
          PROVE  cl'[c].task = cl[c].task
      BY <1>1, <3>1 DEF Save, TypeOK, CallerRec
    <3>2. CASE UpdateSave(c) \/ Rewrite(c)
      BY <3>1, <3>2 DEF UpdateSave, Rewrite
    <3>3. CASE UpdateSaveFails(c) \/ DeleteFails(c)
      BY <3>3 DEF UpdateSaveFails, DeleteFails, SaveFails, Delete, DeleteMisses, vars
    <3>4. CASE RewriteFails(c)
      BY <1>1, <3>4 DEF RewriteFails, TypeOK, CallerRec
    <3> QED BY <1>11, <3>2, <3>3, <3>4
  <2> QED BY <1>1, <2>1, <2>2, <2>3, StaysBehind DEF Behind, PastBarrier
<1>12. CASE Detaching(c)
  <2>1. /\ mr[c].step = "loaded" /\ mr'[c].step = "detached" /\ mr'[c].op = mr[c].op
        /\ Replaces(c)
    BY <1>2, <1>12 DEF Detaching, MutationSteps, Replaces
  <2>2. CASE Refused(c, "unregister")
    <3>1. CallRefused(c)'
      BY <1>1, <2>2, DetachCalls DEF CallRefused
    <3> QED BY <2>1, <3>1 DEF Cleared, Behind, PastBarrier, Replaces
  <2>3. CASE Unregister(c)
    <3>1. /\ cl'[c].task = cl[c].task /\ cl'[c].pc = "draining"
          /\ cl'[c].drain = Registered(cl[c].task) /\ cl[c].pc = "idle"
      BY <1>1, <2>3, DetachCalls DEF Unregister
    <3>2. tasks'[cl[c].task] = Nil /\ running /\ cl[c].task \in Tasks /\ c \in Mutators
      BY <1>1, <2>3 DEF Unregister, Detach, Dropped, TypeOK, CallerRec
    <3>3. ASSUME NEW r \in Regs, reg'[r].task = cl[c].task, Works(r)'
          PROVE  r \in cl'[c].drain
      <4>1. Works(r) /\ reg[r].task = cl[c].task
        BY <3>3 DEF Shrinks
      <4>2. \A d \in Callers : ~Waits(d, r)
        BY <3>1, <3>2 DEF Waits, OneMutator, Requests, ReqOK
      <4>3. tasks[cl[c].task] = r
        BY <1>1, <3>2, <4>1, <4>2 DEF Accounted
      <4> QED BY <3>1, <4>3 DEF Registered
    <3> QED BY <2>1, <3>1, <3>2, <3>3 DEF Cleared, Behind, PastBarrier, Replaces
  <2> QED BY <1>12, <2>2, <2>3 DEF Detaching
<1>13. CASE RunRequest(c) \/ StopRequest(c)
  <2>1. mr'[c].step = "ran"
    BY <1>2, <1>13 DEF RunRequest, StopRequest, MutationSteps
  <2> QED BY <1>1, <1>3, <2>1 DEF ReqOK, StepOfOp
<1>14. MCall(c) => Cleared(c)'
  BY <1>5, <1>6, <1>7 DEF MCall
<1>15. CreateEnds(c) \/ DetachFails(c) \/ UpdateEnds(c) \/ RestoreEnds(c) \/ RunEnds(c)
       \/ CreateUndo(c) \/ DeleteEnds(c) => Cleared(c)'
  BY <1>4 DEF CreateEnds, DetachFails, UpdateEnds, RestoreEnds, RunEnds, CreateUndo, DeleteEnds
<1> QED BY <1>8, <1>9, <1>10, <1>11, <1>12, <1>13, <1>14, <1>15 DEF MResume

\* A request's own step keeps the barrier.
LEMMA OwnBarrier ==
  ASSUME OneMutator, IInv, Requests, Requests', Barrier, NEW c \in Callers,
         MCall(c) \/ MResume(c)
  PROVE  Barrier'
<1>1. TypeOK /\ Accounted /\ ReqOK(c)
  BY DEF IInv, Requests, Barrier
<1>2. OwnMove(c)
  BY OwnRequests
<1>3. \A d \in Callers \ {c} : mr'[d] = mr[d] /\ cl'[d] = cl[d]
  BY <1>2 DEF OwnMove
<1>4. /\ Shrinks /\ Accounted' /\ (running' => running)
      /\ \A t \in Tasks : tasks'[t] \in {tasks[t], Nil}
      /\ ~running' \/ UNCHANGED tasks \/ c \in Mutators
  <2>1. CASE UNCHANGED <<reg, tasks, running>>
    <3>1. Shrinks
      BY <1>1, <2>1, RetireShrinks
    <3>2. \A d \in Callers, r \in Regs :
            Waits(d, r) /\ Works(r)' /\ reg'[r].task = reg[r].task => Waits(d, r)'
      BY <1>3, OwnTouches DEF Waits, Changes
    <3> QED BY <1>1, <2>1, <3>1, <3>2, AccountedStands
  <2>2. CASE Stop(c)
    <3>1. {tasks[t] : t \in Tasks} \ {Nil} \in SUBSET Regs
      BY <1>1 DEF TypeOK
    <3>2. Shrinks
      BY <1>1, <2>2, <3>1, RetireShrinks DEF Stop
    <3> QED BY <2>2, <3>2 DEF Stop, Accounted
  <2>3. CASE Unregister(c) /\ Detaching(c)
    <3>1. Changes(c) /\ mr'[c].op = mr[c].op
      BY <2>3, RequestMoves DEF Detaching, Changes, Requests, MutationSteps
    <3> QED BY <1>1, <1>3, <2>3, <3>1, DetachAccounted DEF Unregister
  <2>4. CASE Upsert(c) /\ (CreateUpsert(c) \/ UpdateUpsert(c) \/ Restore(c))
    <3>1. mr[c].step \in {"upsert", "saved", "restore"}
          /\ (Go(c, "upserted") \/ Go(c, "restored"))
      BY <2>4 DEF CreateUpsert, UpdateUpsert, Restore, At
    <3>2. Changes(c) /\ mr'[c].op = mr[c].op
      BY <1>1, <3>1, RequestMoves DEF Changes, Requests, MutationSteps, ReqOK, StepOfOp
    <3>3. \E op, pc : pc \in {"replacing", "draining"} /\ Detach(c, op, pc)
      BY <2>4 DEF Upsert
    <3> QED BY <1>1, <1>3, <3>2, <3>3, DetachAccounted
  <2> QED BY <2>1, <2>2, <2>3, <2>4, OwnTouches
<1>5. OneWorks' /\ \A d \in Callers \ {c} : Cleared(d)'
  BY <1>1, <1>3, <1>4, OthersStand
<1>6. Cleared(c)'
  BY <1>2, <1>4, OwnCleared
<1> QED BY <1>4, <1>5, <1>6 DEF Barrier

\* A commit puts in the one registration that works for the task.
LEMMA CommitBarrier ==
  ASSUME OneMutator, IInv, IInv', Looped', Requests, Barrier, NEW c \in Callers, Commit(c),
         UNCHANGED <<mr, muts, byHand>>
  PROVE  Barrier'
<1> USE NilAssumption
<1>1. TypeOK /\ Accounted /\ ReqOK(c) /\ Cleared(c) /\ cl[c] \in CallerRec
  BY DEF IInv, TypeOK, Requests, Barrier
<1>2. PICK q \in NextReg :
        /\ reg' = [reg EXCEPT ![q] = LoopReg(cl[c].task, cl[c].arg)]
        /\ tasks' = [tasks EXCEPT ![cl[c].task] = q]
  BY DEF Commit
<1>3. q \in Regs /\ reg[q].task = Nil
  BY <1>2, NextRegFresh
<1>4. /\ cl[c].pc = "replacing" /\ cl'[c].pc = "ret" /\ cl'[c].res = "ok"
      /\ cl'[c].task = cl[c].task /\ cl'[c].arg = cl[c].arg
      /\ \A d \in Callers \ {c} : cl'[d] = cl[d]
  BY <1>1 DEF Commit, Returns, TypeOK, CallerRec
<1>5. /\ Changes(c) /\ c \in Mutators /\ mr[c].step \in {"upserted", "restored"}
      /\ Enabled(cl[c].arg) /\ mr[c].op # "create" /\ cl[c].task \in Tasks
  BY <1>1, <1>4 DEF ReqOK, PcOfStep, StepOfOp, Changes, MutationSteps, CallerPc, Enabled
<1>6. \A r \in Regs : reg[r].task = cl[c].task => ~Works(r)
  BY <1>1, <1>4, <1>5 DEF Cleared, Behind, PastBarrier, StepOfOp, ReqOK, Changes
<1>7. reg'[q].task = cl[c].task /\ \A r \in Regs \ {q} : reg'[r] = reg[r]
  BY <1>1, <1>2, <1>3 DEF TypeOK, LoopReg, FreeReg
<1>8. \A r \in Regs \ {q} : Works(r)' <=> Works(r)
  BY <1>7 DEF Works, Idle
<1>9. OneWorks'
  BY <1>1, <1>6, <1>7, <1>8 DEF OneWorks, Barrier
<1>10. ASSUME NEW r \in Regs, Works(r)'
       PROVE  tasks'[reg'[r].task] = r \/ \E d \in Callers : Waits(d, r)'
  <2>1. CASE r = q
    BY <1>1, <1>2, <1>5, <1>7, <2>1 DEF TypeOK
  <2>2. CASE r # q
    <3>1. Works(r) /\ reg'[r].task = reg[r].task /\ reg[r].task # cl[c].task
      BY <1>6, <1>7, <1>8, <1>10, <2>2
    <3>2. tasks'[reg[r].task] = tasks[reg[r].task]
      <4>1. reg[r].task \in Tasks
        BY <1>1, <3>1 DEF TypeOK, RegRec, IInv, RegOK, Works
      <4> QED BY <1>1, <1>2, <3>1, <4>1 DEF TypeOK
    <3>3. \A d \in Callers : Waits(d, r) => Waits(d, r)'
      BY <1>4, <3>1 DEF Waits, Changes
    <3> QED BY <1>1, <3>1, <3>2, <3>3 DEF Accounted, Commit
  <2> QED BY <2>1, <2>2
<1>11. Cleared(c)'
  <2>1. tasks'[cl[c].task] # Nil
    BY <1>1, <1>2, <1>3, <1>5 DEF TypeOK
  <2> QED BY <1>4, <1>5, <2>1 DEF Cleared, Behind, PastBarrier, CallRefused, Enabled
<1>12. ASSUME NEW d \in Callers \ {c}
       PROVE  Cleared(d)'
  <2>1. ~Changes(d) /\ ReqOK(d)
    BY <1>5 DEF OneMutator, Requests, ReqOK
  <2> QED BY <2>1 DEF Cleared, Behind, PastBarrier, Changes, Replaces, ReqOK, StepOfOp
<1> QED BY <1>9, <1>10, <1>11, <1>12 DEF Barrier, Accounted

\* A call that goes on otherwise ends its wait when there is nothing to wait for.
LEMMA CallBarrier ==
  ASSUME OneMutator, IInv, IInv', Looped', Requests, Requests', Barrier, NEW c \in Callers,
         (Resume(c) /\ cl[c].pc # "ret") \/ StopRunTimeout(c), ~Commit(c),
         Shrinks, UNCHANGED <<mr, muts, byHand, tasks>>
  PROVE  Barrier'
<1>1. TypeOK /\ Accounted /\ ReqOK(c) /\ Cleared(c) /\ ReqOK(c)'
  BY DEF IInv, Requests, Barrier
<1>2. /\ running' = running
      /\ cl'[c].task = cl[c].task /\ cl'[c].arg = cl[c].arg
      /\ \A d \in Callers \ {c} : cl'[d] = cl[d]
      /\ \/ cl[c].pc = "replacing" /\ cl'[c].pc = "ret" /\ (cl'[c].res = "ok" \/ ~running)
         \/ cl[c].pc = "draining" /\ cl'[c].pc = "ret" /\ cl'[c].res = "ok"
         \/ cl[c].pc = "stopping" /\ cl'[c].pc = "draining"
         \/ /\ cl[c].pc \in {"begin", "skip", "run", "start", "cancel", "await"}
            /\ cl'[c].pc \in {"skip", "run", "start", "await", "ret"}
  BY <1>1, ResumeCalls
<1>3. OneWorks' /\ \A d \in Callers \ {c} : Cleared(d)'
  BY <1>1, <1>2, OthersStand
<1>4. CASE CommitRefused(c) \/ Drained(c)
  <2>1. /\ UNCHANGED <<reg, running>> /\ \A r \in cl[c].drain : Idle(r)
        /\ cl[c].pc \in {"replacing", "draining"} /\ cl'[c].pc = "ret"
        /\ cl[c].pc = "replacing" => cl'[c].res = "stopped" /\ ~running
        /\ cl[c].pc = "draining" => cl'[c].res = "ok"
    <3>1. cl[c] \in CallerRec
      BY <1>1 DEF TypeOK
    <3>2. CASE CommitRefused(c)
      BY <1>1, <3>1, <3>2 DEF CommitRefused, Returns, TypeOK, CallerRec
    <3>3. CASE Drained(c)
      BY <1>1, <3>1, <3>3 DEF Drained, Returns, TypeOK, CallerRec
    <3> QED BY <1>4, <3>2, <3>3
  <2>2. \A r \in cl[c].drain : reg[r].retired /\ ~Works(r)
    BY <2>1 DEF IInv, DrainOK, Works
  <2>3. \A r \in Regs : Works(r)' <=> Works(r)
    BY <2>1 DEF Works, Idle
  <2>4. Accounted'
    <3>1. ASSUME NEW d \in Callers, NEW r \in Regs, Waits(d, r), Works(r)',
                 reg'[r].task = reg[r].task
          PROVE  Waits(d, r)'
      <4>1. d # c
        BY <2>2, <2>3, <3>1 DEF Waits
      <4> QED BY <1>2, <3>1, <4>1 DEF Waits, Changes
    <3> QED BY <1>1, <1>2, <3>1, AccountedStands
  <2>5. Behind(c)' => Behind(c)
    BY <2>1 DEF Behind, PastBarrier, Replaces, CallRefused
  <2>6. Behind(c)' => /\ tasks'[cl'[c].task] = Nil
                      /\ \A r \in Regs : reg'[r].task = cl'[c].task => ~Works(r)'
    BY <1>1, <1>2, <2>1, <2>3, <2>5 DEF Cleared
  <2>7. mr[c].step = "detached" =>
          /\ tasks'[cl'[c].task] = Nil
          /\ \A r \in Regs : reg'[r].task = cl'[c].task /\ Works(r)' => r \in cl'[c].drain
    <3>1. mr[c].step = "detached" => ~CallRefused(c) /\ cl'[c].drain = cl[c].drain
      BY <1>1, <2>1, ResumeCalls DEF CallRefused
    <3> QED BY <1>1, <1>2, <2>1, <2>3, <3>1 DEF Cleared
  <2>8. mr[c].step \in {"upserted", "restored"} /\ cl'[c].res = "ok" =>
          ~Enabled(cl[c].arg) /\ tasks[cl[c].task] = Nil
    <3>1. ASSUME mr[c].step \in {"upserted", "restored"}, cl'[c].res = "ok"
          PROVE  cl[c].pc = "draining" /\ ~Enabled(cl[c].arg) /\ Behind(c)
      BY <1>1, <2>1, <3>1 DEF ReqOK, Behind, PastBarrier, StepOfOp, Enabled
    <3> QED BY <1>1, <3>1 DEF Cleared
  <2>9. Cleared(c)'
    BY <1>2, <2>6, <2>7, <2>8 DEF Cleared, Enabled
  <2> QED BY <1>3, <2>4, <2>9 DEF Barrier
<1>5. CASE ~CommitRefused(c) /\ ~Drained(c)
  <2>1. cl[c].pc \notin {"replacing", "draining", "idle", "ret"}
    BY <1>5 DEF Resume, CancelLifecycle, BeginManual, BeginAdHoc, BeginSkipped,
                AppendSkipped, RunNowDone, StartNowDone, CancelRun, StopRunDone,
                StopRunTimeout, Return
  <2>2. mr[c].step = "ran" /\ ~Changes(c)
    BY <1>1, <2>1 DEF ReqOK, PcOfStep, StepOfOp, Changes
  <2>3. Cleared(c)'
    BY <2>2 DEF Cleared, Behind, PastBarrier, Changes, Replaces
  <2>4. Accounted'
    <3>1. ASSUME NEW d \in Callers, NEW r \in Regs, Waits(d, r), Works(r)',
                 reg'[r].task = reg[r].task
          PROVE  Waits(d, r)'
      BY <1>2, <2>2, <3>1 DEF Waits, Changes
    <3> QED BY <1>1, <1>2, <3>1, AccountedStands
  <2> QED BY <1>3, <2>3, <2>4 DEF Barrier
<1> QED BY <1>4, <1>5

\* The process starts with one registration for each task it finds enabled.
LEMMA StartBarrier ==
  ASSUME IInv, IInv', Looped', Requests, Barrier, DeadOK, Start, UNCHANGED <<mr, muts, byHand>>
  PROVE  Barrier'
<1>1. life = "none" /\ life' = "live"
  BY DEF Start
<1>2. \A c \in Callers : mr[c] = NoRequest /\ mr'[c] = NoRequest
  BY <1>1 DEF Requests, ReqOK
<1>3. \A r \in Regs : Works(r)' => tasks'[reg'[r].task] = r
  <2> DEFINE T == {t \in Tasks : file[t] # Nil /\ Enabled(file[t])}
  <2>1. PICK f \in Assignments(T) :
          /\ tasks' = [t \in Tasks |-> IF t \in DOMAIN f THEN f[t] ELSE Nil]
          /\ reg' = [q \in Regs |->
                      IF \E t \in DOMAIN f : f[t] = q
                      THEN LET t == CHOOSE u \in DOMAIN f : f[u] = q
                           IN  LoopReg(t, file[t])
                      ELSE reg[q]]
    BY DEF Start
  <2>2. f \in [T -> FreshRegs]
    <3> DEFINE S == {g \in [T -> FreshRegs] : \A t, u \in T : g[t] = g[u] => t = u}
    <3>1. f \in OneOf(S)
      BY <2>1 DEF Assignments
    <3>2. S # {} /\ f \in S
      BY <3>1 DEF OneOf
    <3> QED BY <3>2
  <2>3. ASSUME NEW r \in Regs, Works(r)'
        PROVE  tasks'[reg'[r].task] = r
    <3>1. reg[r].loop = "none"
      BY <1>1 DEF DeadOK, IInv, RegOK
    <3>2. \E t \in T : f[t] = r
      BY <2>1, <2>2, <2>3, <3>1 DEF Works
    <3>3. PICK u \in T : f[u] = r /\ reg'[r] = LoopReg(u, file[u])
      BY <2>1, <2>2, <3>2
    <3> QED BY <2>1, <2>2, <3>3 DEF LoopReg, FreeReg
  <2> QED BY <2>3
<1>4. \A c \in Callers : Cleared(c)'
  BY <1>2 DEF Cleared, Behind, PastBarrier, Replaces, NoRequest
<1> QED BY <1>3, <1>4 DEF Barrier, OneWorks, Accounted

\* Only a crash counts as one.
LEMMA BackgroundLives ==
  ASSUME TypeOK, Background
  PROVE  ~Crash
<1>1. crashes' = crashes
  <2>1. CASE Start
    BY <2>1 DEF Start
  <2>2. ASSUME NEW c \in Callers, Resume(c) \/ StopRunTimeout(c)
        PROVE  crashes' = crashes
    BY <2>2 DEF Resume, Commit, CommitRefused, Drained, CancelLifecycle, BeginManual,
                BeginAdHoc, BeginSkipped, AppendSkipped, RunNowDone, StartNowDone,
                CancelRun, StopRunDone, Return, StopRunTimeout
  <2>3. ASSUME NEW r \in Regs, LoopStep(r) \/ Fire(r)
        PROVE  crashes' = crashes
    BY <2>3 DEF LoopStep, Persist, PersistLater, PersistSave, Fire, FireBegin, FireSkipped,
                FireRetired, LoopExit
  <2>4. ASSUME NEW k \in Runs, RunStep(k) \/ Progress(k)
        PROVE  crashes' = crashes
    BY <2>4 DEF RunStep, RegisterActive, RejectActive, StartLog, StartLogFails, SaveResult,
                SaveResultFails, LogResult, FinishActive, Release, ExecReturn, Progress
  <2> QED BY <2>1, <2>2, <2>3, <2>4 DEF Background
<1>2. crashes \in Nat
  BY DEF TypeOK
<1>3. Crash => crashes' = crashes + 1
  BY DEF Crash
<1> QED BY <1>1, <1>2, <1>3

LEMMA BarrierStep ==
  ASSUME OneMutator, IInv, IInv', Looped, Looped', Requests, Requests', Barrier,
         [MNext]_mvars
  PROVE  Barrier'
<1>1. TypeOK /\ Accounted
  BY DEF IInv, Barrier
<1>2. CASE UNCHANGED mvars
  BY <1>2 DEF mvars, vars, Barrier, OneWorks, Accounted, Cleared, Works, Waits, Idle, Behind,
              PastBarrier, CallRefused, Enabled, Changes, Replaces
<1>3. CASE MCrash
  <2>1. /\ \A r \in Regs : ~Works(r)'
        /\ \A c \in Callers : mr'[c] = NoRequest
    BY <1>3 DEF MCrash, Crash, Works, FreeReg
  <2> QED BY <2>1 DEF Barrier, OneWorks, Accounted, Cleared, Behind, PastBarrier, Replaces,
                      NoRequest
<1>4. CASE Background /\ UNCHANGED <<mr, muts, byHand>>
  <2>1. CASE Start
    BY <1>4, <2>1, StartBarrier DEF Looped
  <2>2. CASE ~Start /\ \E c \in Callers : Commit(c)
    BY <1>4, <2>2, CommitBarrier
  <2>3. CASE ~Start /\ ~(\E c \in Callers : Commit(c))
    <3>1. Next /\ ~Crash
      BY <1>1, <1>4, BackgroundLives DEF Background, Next
    <3>2. Shrinks
      BY <2>3, <3>1, WorksStep DEF Shrinks
    <3>3. ASSUME NEW c \in Callers, (Resume(c) /\ cl[c].pc # "ret") \/ StopRunTimeout(c)
          PROVE  Barrier'
      <4>1. UNCHANGED tasks
        BY <2>3, <3>3
           DEF Resume, CommitRefused, Drained, CancelLifecycle, BeginManual, BeginAdHoc,
               BeginSkipped, AppendSkipped, RunNowDone, StartNowDone, CancelRun,
               StopRunDone, Return, StopRunTimeout
      <4> QED BY <1>4, <2>3, <3>2, <3>3, <4>1, CallBarrier
    <3>4. CASE (\E r \in Regs : LoopStep(r) \/ Fire(r))
               \/ (\E k \in Runs : RunStep(k) \/ Progress(k))
      <4>1. UNCHANGED <<running, tasks, cl, mr>>
        BY <1>4, <3>4, WorkersCalls
      <4>2. OneWorks'
        BY <3>2 DEF Shrinks, Barrier, OneWorks
      <4>3. Accounted'
        BY <1>1, <3>2, <4>1, AccountedStands DEF Waits, Changes
      <4>4. ASSUME NEW c \in Callers
            PROVE  Cleared(c)'
        <5>1. Cleared(c)
          BY DEF Barrier
        <5>2. Behind(c)' <=> Behind(c)
          BY <4>1 DEF Behind, PastBarrier, Replaces, CallRefused
        <5> QED BY <3>2, <4>1, <5>1, <5>2 DEF Shrinks, Cleared, CallRefused, Enabled
      <4> QED BY <4>2, <4>3, <4>4 DEF Barrier
    <3> QED BY <1>4, <2>3, <3>3, <3>4 DEF Background
  <2> QED BY <2>1, <2>2, <2>3
<1> QED BY <1>2, <1>3, <1>4, OwnBarrier DEF MNext

\* What holds when one client changes tasks.
LoneInvariant == Invariant /\ Looped /\ Barrier

LEMMA LoneInvariantInit == MInit => LoneInvariant
<1>1. MInit => Barrier
  BY DEF MInit, Init, FreeReg, NoRequest, Barrier, OneWorks, Accounted, Cleared, Works, Behind,
         PastBarrier, Replaces
<1> QED BY <1>1, InvariantInit, LoopedInit DEF MInit, LoneInvariant

LEMMA LoneInvariantStep ==
  ASSUME OneMutator, LoneInvariant, [MNext]_mvars
  PROVE  LoneInvariant'
<1>1. Invariant'
  BY InvariantStep DEF LoneInvariant
<1>2. Looped'
  <2>1. CASE [Next]_vars
    <3>1. ReplaceApart
      BY DEF OneMutator, LoneInvariant, Looped, ReplaceApart
    <3> QED BY <2>1, <3>1, LoopedStep DEF LoneInvariant, Invariant
  <2>2. CASE ArgOnly
    BY <2>2, ArgKeeps DEF LoneInvariant, Invariant
  <2> QED BY <2>1, <2>2, SchedulerSteps DEF LoneInvariant, Invariant
<1> QED BY <1>1, <1>2, BarrierStep DEF LoneInvariant, Invariant

\* When one client changes tasks, a task has one registration that works, and none
\* behind a request that has waited for it.
THEOREM LoneInvariantHolds == OneMutator => (MSpec => []LoneInvariant)
<1> SUFFICES ASSUME OneMutator
             PROVE  MSpec => []LoneInvariant
  OBVIOUS
<1>1. LoneInvariant /\ [MNext]_mvars => LoneInvariant'
  BY LoneInvariantStep
<1> QED BY <1>1, LoneInvariantInit, PTL DEF MSpec

-----------------------------------------------------------------------------
(* Who writes a task's file *)

\* A request that writes a file goes on, and is of a client that changes tasks; a
\* loop or a run writes what its registration remembers, of its own task.
LEMMA Writers ==
  ASSUME LoneInvariant, [MNext]_mvars, NEW t \in Tasks, file'[t] # file[t]
  PROVE  \/ \E c \in Callers : /\ MCall(c) \/ MResume(c)
                               /\ c \in Mutators /\ mr'[c] # mr[c]
         \/ \E r \in Regs : /\ reg[r].task = t /\ reg[r].loop # "none" /\ ~Idle(r)
                            /\ PersistSave(r)
         \/ \E k \in Runs : /\ run[k].reg \in Regs /\ reg[run[k].reg].task = t
                            /\ reg[run[k].reg].run = k /\ SaveResult(k)
<1>1. TypeOK /\ Requests /\ Bound /\ \A k \in Runs : RunOK(k)
  BY DEF LoneInvariant, Invariant, IInv
<1>2. ~UNCHANGED file
  OBVIOUS
<1>3. ASSUME NEW c \in Callers, MCall(c) \/ MResume(c)
      PROVE  c \in Mutators /\ mr'[c] # mr[c]
  <2>1. ReqOK(c) /\ ReqOK(c)' /\ mr[c] \in Request
    BY <1>1, <1>3, OwnRequests DEF Requests, OwnMove, LoneInvariant, Invariant
  <2>2. CASE MCall(c)
    <3>1. ASSUME NEW u \in Tasks, NEW d \in Defs, Create(c, u, d)
          PROVE  c \in Mutators /\ mr'[c] # mr[c]
      <4>1. c \in Mutators /\ NewRequest(c, "create", "upsert", d)
        BY <3>1 DEF Create
      <4> QED BY <1>1, <4>1 DEF NewRequest, NoRequest, Requests
    <3>2. \A u, op, d : ~LoadForMutation(c, u, op, d)
      BY <1>2 DEF LoadForMutation, Load
    <3>3. ~Shutdown(c)
      BY <1>2 DEF Shutdown, Stop, Refused
    <3> QED BY <2>2, <3>1, <3>2, <3>3 DEF MCall
  <2>3. CASE CreateUndo(c) \/ DeleteEnds(c)
    <3>1. Changes(c) /\ mr'[c] # mr[c]
      BY <1>1, <2>3, RequestMoves DEF CreateUndo, DeleteEnds, At, Changes, NoRequest, Requests
    <3> QED BY <2>1, <3>1 DEF ReqOK
  <2>4. CASE UpdateSave(c) \/ DeleteFails(c) \/ Rewrite(c)
    <3>1. /\ mr[c].step \in {"write", "rewrite"}
          /\ \/ mr[c].step = "write" /\ Go(c, "saved")
             \/ mr[c].step = "write" /\ Go(c, "rewrite")
             \/ mr[c].step = "rewrite" /\ Go(c, "restore")
      BY <2>4 DEF UpdateSave, DeleteFails, Rewrite, At
    <3>2. mr'[c] # mr[c]
      BY <1>1, <3>1, RequestMoves DEF Requests, MutationSteps
    <3>3. Changes(c)
      BY <2>1, <3>1 DEF ReqOK, StepOfOp, Changes
    <3> QED BY <2>1, <3>2, <3>3 DEF ReqOK
  <2>5. ~(CreateUpsert(c) \/ UpdateUpsert(c) \/ Restore(c) \/ Detaching(c)
          \/ RunRequest(c) \/ StopRequest(c))
    BY <1>2 DEF CreateUpsert, UpdateUpsert, Restore, CallUpsert, Upsert, Detach, Refused,
                Detaching, Unregister, RunRequest, StopRequest, Manual, StopRun, StopRunMisses
  <2>6. ~(CreateEnds(c) \/ DetachFails(c) \/ UpdateEnds(c) \/ RestoreEnds(c) \/ RunEnds(c)
          \/ CreateFails(c) \/ UpdateUpsertFails(c) \/ Detached(c))
    BY <1>2 DEF CreateEnds, DetachFails, UpdateEnds, RestoreEnds, RunEnds, CreateFails,
                UpdateUpsertFails, Detached, Returned, Return
  <2>7. ~(UpdateSaveFails(c) \/ RewriteFails(c))
    BY <1>2 DEF UpdateSaveFails, SaveFails, RewriteFails, vars
  <2> QED BY <1>3, <2>2, <2>3, <2>4, <2>5, <2>6, <2>7 DEF MResume
<1>4. ASSUME NEW r \in Regs, PersistSave(r)
      PROVE  reg[r].task = t /\ reg[r].loop # "none" /\ ~Idle(r)
  <2>1. file' = [file EXCEPT ![reg[r].task] = reg[r].tmp]
    BY <1>2, <1>4 DEF PersistSave, Attempt
  <2> QED BY <1>1, <1>4, <2>1 DEF TypeOK, PersistSave, Idle
<1>5. ASSUME NEW k \in Runs, SaveResult(k)
      PROVE  /\ run[k].reg \in Regs /\ reg[run[k].reg].task = t
             /\ reg[run[k].reg].run = k
  <2>1. Unfinished(k) /\ run[k].task = t
    BY <1>1, <1>5 DEF SaveResult, TypeOK, Unfinished, InFlight
  <2> QED BY <1>1, <2>1 DEF Bound, RunOK
<1>6. CASE Background
  <2>1. ~Start /\ \A c \in Callers : ~Resume(c) /\ ~StopRunTimeout(c)
    BY <1>2, ZenonT(60) DEF Start, Resume, Commit, CommitRefused, Drained, CancelLifecycle, BeginManual,
                BeginAdHoc, BeginSkipped, AppendSkipped, RunNowDone, StartNowDone, CancelRun,
                StopRunDone, Return, StopRunTimeout
  <2>2. \A r \in Regs : LoopStep(r) \/ Fire(r) => PersistSave(r)
    BY <1>2 DEF LoopStep, Persist, PersistLater, Fire, FireBegin, FireSkipped,
                FireRetired, LoopExit
  <2>3. \A k \in Runs : RunStep(k) \/ Progress(k) => SaveResult(k)
    BY <1>2 DEF RunStep, RegisterActive, RejectActive, StartLog, StartLogFails,
                SaveResultFails, LogResult, FinishActive, Release, ExecReturn, Progress
  <2> QED BY <1>4, <1>5, <1>6, <2>1, <2>2, <2>3 DEF Background
<1>7. ~MCrash /\ ~UNCHANGED mvars
  BY <1>2 DEF MCrash, Crash, mvars, vars
<1> QED BY <1>3, <1>6, <1>7 DEF MNext

\* While an update or a delete replaces a task that it has unregistered, no loop and no
\* run of the old registration writes the task it remembers over the new definition,
\* or recreates a deleted file (mutation_runner.go, waitIdle in registration.go).
THEOREM FileStaysTheRequests == OneMutator => (MSpec => FileIsTheRequests)
<1> SUFFICES ASSUME OneMutator
             PROVE  MSpec => FileIsTheRequests
  OBVIOUS
<1> DEFINE Own == \A c \in Callers :
                    PastBarrier(c) /\ file'[cl[c].task] # file[cl[c].task]
                    => mr'[c] # mr[c] \/ AdHocSave
<1>1. ASSUME LoneInvariant, [MNext]_mvars
      PROVE  Own
  <2> SUFFICES ASSUME NEW c \in Callers, PastBarrier(c),
                      file'[cl[c].task] # file[cl[c].task]
               PROVE  mr'[c] # mr[c] \/ AdHocSave
    OBVIOUS
  <2>1. ReqOK(c) /\ Cleared(c)
    BY <1>1 DEF LoneInvariant, Invariant, Requests, Barrier
  <2>2. c \in Mutators /\ cl[c].task \in Tasks
    BY <2>1 DEF PastBarrier, ReqOK, Changes, Replaces, StepOfOp
  <2>3. \A r \in Regs : reg[r].task = cl[c].task => ~Works(r)
    BY <2>1 DEF Cleared, Behind
  <2>4. ASSUME NEW d \in Callers, d \in Mutators, mr'[d] # mr[d]
        PROVE  mr'[c] # mr[c]
    BY <2>2, <2>4 DEF OneMutator
  <2>5. ASSUME NEW k \in Runs, run[k].reg \in Regs, reg[run[k].reg].task = cl[c].task,
               reg[run[k].reg].run = k, SaveResult(k)
        PROVE  AdHocSave
    <3>1. reg[run[k].reg].loop = "none"
      BY <2>3, <2>5, NilAssumption DEF Works, Idle
    <3>2. run[k].pc = "saving" /\ run'[k].pc # "saving"
      BY <1>1, <2>5 DEF SaveResult, LoneInvariant, Invariant, IInv, TypeOK, RunRec
    <3> QED BY <3>1, <3>2 DEF AdHocSave
  <2> QED BY <1>1, <2>2, <2>3, <2>4, <2>5, Writers DEF Works
<1>2. LoneInvariant /\ [MNext]_mvars => [Own]_mvars
  BY <1>1
<1> HIDE DEF Own
<1>3. MSpec => [][Own]_mvars
  BY <1>2, LoneInvariantHolds, PTL DEF MSpec
<1> QED BY <1>3 DEF Own, FileIsTheRequests

-----------------------------------------------------------------------------
(* What works for a task remembers its definition *)

\* A loop keeps the definition its registration has: it copies it, saves the copy, or
\* takes the copy back.
LEMMA LoopRemembers ==
  ASSUME TypeOK, NEW q \in Regs, LoopStep(q) \/ Fire(q), NEW r \in Regs, NEW d,
         Remembers(r, d)
  PROVE  Remembers(r, d)'
<1> USE NilAssumption
<1>1. reg[r] \in RegRec /\ reg[q] \in RegRec
  BY DEF TypeOK
<1>2. \A k \in Runs : RunCarries(k)
  <2>1. ASSUME NEW k \in NextRun, FireBegin(q, k) \/ FireSkipped(q, k)
        PROVE  \A j \in Runs : RunCarries(j)
    <3>1. PICK p, pc : pc # "saving" /\ run' = [run EXCEPT ![k] = NewRun(reg[q].task, reg[q].tmp, p, pc)]
      BY <2>1 DEF FireBegin, FireSkipped
    <3>2. NewRun(reg[q].task, reg[q].tmp, p, pc).pc # "saving"
      BY <3>1 DEF NewRun, FreeRun
    <3> QED BY <3>1, <3>2, NextRunFresh DEF TypeOK, RunCarries
  <2>2. CASE UNCHANGED run
    BY <2>2 DEF RunCarries
  <2> QED BY <2>1, <2>2 DEF LoopStep, Persist, PersistLater, PersistSave, Fire, FireRetired,
                            LoopExit
<1>3. CASE q # r
  <2>1. \E v : reg' = [reg EXCEPT ![q] = v]
    BY DEF LoopStep, Persist, PersistLater, PersistSave, Fire, FireBegin, FireSkipped,
           FireRetired, LoopExit
  <2>2. RegCarries(r)
    BY <1>3, <2>1 DEF TypeOK, RegCarries
  <2> QED BY <1>2, <2>2, Carried
<1>4. CASE q = r
  <2>1. ASSUME NEW v, reg' = [reg EXCEPT ![r] = v], v.val = reg[r].val \/ v.val = reg[r].tmp,
               v.val = reg[r].val \/ reg[r].loop = "fired",
               v.loop \in {"save", "fired"} => v.tmp = reg[r].val
        PROVE  Remembers(r, d)'
    <3>1. reg'[r] = v
      BY <2>1 DEF TypeOK
    <3>2. v.val.def = d /\ (v.loop \in {"save", "fired"} => v.tmp.def = d)
      BY <2>1 DEF Remembers
    <3> QED BY <1>2, <3>1, <3>2 DEF Remembers, RunCarries
  <2>2. CASE Persist(r)
    <3> DEFINE v == [reg[r] EXCEPT !.loop = "save", !.tmp = reg[r].val]
    <3>1. reg' = [reg EXCEPT ![r] = v]
      BY <2>2 DEF Persist
    <3>2. v.val = reg[r].val /\ v.tmp = reg[r].val
      BY <1>1 DEF RegRec
    <3> HIDE DEF v
    <3> QED BY <2>1, <3>1, <3>2
  <2>3. CASE Fire(r)
    <3> DEFINE v == [reg[r] EXCEPT !.loop = "fired", !.tmp = reg[r].val]
    <3>1. reg' = [reg EXCEPT ![r] = v]
      BY <2>3 DEF Fire
    <3>2. v.val = reg[r].val /\ v.tmp = reg[r].val
      BY <1>1 DEF RegRec
    <3> HIDE DEF v
    <3> QED BY <2>1, <3>1, <3>2
  <2>4. CASE PersistLater(r) \/ PersistSave(r) \/ FireRetired(r) \/ LoopExit(r)
    <3>1. PICK v \in {[reg[r] EXCEPT !.loop = "wait"], [reg[r] EXCEPT !.loop = "exited"],
                      [reg[r] EXCEPT !.loop = "wait", !.tmp = Nil],
                      [reg[r] EXCEPT !.loop = "next", !.tmp = Nil]} :
            reg' = [reg EXCEPT ![r] = v]
      BY <2>4 DEF PersistLater, PersistSave, FireRetired, LoopExit
    <3>2. v.val = reg[r].val /\ v.loop \notin {"save", "fired"}
      BY <1>1, <3>1 DEF RegRec
    <3> QED BY <2>1, <3>1, <3>2
  <2>5. ASSUME NEW k, FireBegin(r, k) \/ FireSkipped(r, k)
        PROVE  Remembers(r, d)'
    <3>1. PICK v \in {[reg[r] EXCEPT !.loop = "next", !.val = reg[r].tmp, !.tmp = Nil],
                      [reg[r] EXCEPT !.loop = "next", !.val = reg[r].tmp, !.tmp = Nil,
                                     !.run = k]} :
            reg' = [reg EXCEPT ![r] = v]
      BY <2>5 DEF FireBegin, FireSkipped
    <3>2. v.val = reg[r].tmp /\ v.loop \notin {"save", "fired"} /\ reg[r].loop = "fired"
      BY <1>1, <2>5, <3>1 DEF RegRec, FireBegin, FireSkipped
    <3> QED BY <2>1, <3>1, <3>2
  <2> QED BY <1>4, <2>2, <2>3, <2>4, <2>5 DEF LoopStep
<1> QED BY <1>3, <1>4

\* A run changes when its registration's task last ran, not how it is defined.
LEMMA RunRemembers ==
  ASSUME IInv, NEW k \in Runs, RunStep(k) \/ Progress(k), NEW r \in Regs, NEW d,
         Remembers(r, d)
  PROVE  Remembers(r, d)'
<1> USE NilAssumption
<1>1. TypeOK /\ reg[r] \in RegRec /\ run[k] \in RunRec
  BY DEF IInv, TypeOK
<1>2. ASSUME NEW st, NEW late, ExecReturn(k, st, late)
      PROVE  Remembers(r, d)'
  <2> DEFINE q == run[k].reg
             v == [reg[q].val EXCEPT !.last = k]
  <2>1. q \in Regs /\ reg[q].val \in TaskVal
    BY <1>2 DEF ExecReturn, IInv, RunOK, RegOK, Unfinished, InFlight
  <2>2. v.def = reg[q].val.def
    BY <2>1 DEF TaskVal
  <2>3. /\ reg' = [reg EXCEPT ![q] = [@ EXCEPT !.val = v]]
        /\ \E s : run' = [run EXCEPT ![k] = [@ EXCEPT !.pc = "saving", !.upd = v, !.status = s]]
    BY <1>2 DEF ExecReturn
  <2>4. reg[q] \in RegRec
    BY <1>1, <2>1 DEF TypeOK
  <2> HIDE DEF q, v
  <2>5. /\ r = q => reg'[r].val = v
        /\ r # q => reg'[r].val = reg[r].val
        /\ reg'[r].loop = reg[r].loop /\ reg'[r].tmp = reg[r].tmp
    BY <1>1, <2>1, <2>3, <2>4 DEF TypeOK, RegRec
  <2>6. /\ run'[k].upd = v /\ run'[k].reg = run[k].reg
        /\ \A j \in Runs \ {k} : run'[j] = run[j]
    BY <1>1, <2>3 DEF TypeOK, RunRec
  <2>7. run'[k].reg = q
    BY <2>6 DEF q
  <2>8. reg'[r].val.def = d
    BY <2>2, <2>5 DEF Remembers
  <2>9. \A j \in Runs : run'[j].reg = r /\ run'[j].pc = "saving" => run'[j].upd.def = d
    BY <2>2, <2>6, <2>7 DEF Remembers
  <2> QED BY <2>5, <2>8, <2>9 DEF Remembers
<1>3. CASE ~\E st, late : ExecReturn(k, st, late)
  <2>1. RegCarries(r)
    <3>1. CASE Release(k)
      BY <1>1, <3>1 DEF TypeOK, RegRec, Release, RegCarries
    <3>2. CASE UNCHANGED reg
      BY <3>2 DEF RegCarries
    <3> QED BY <1>3, <3>1, <3>2
            DEF RunStep, RegisterActive, RejectActive, StartLog, StartLogFails, Progress,
                SaveResult, SaveResultFails, LogResult, FinishActive
  <2>2. ASSUME NEW v, run' = [run EXCEPT ![k] = v], v.pc # "saving"
        PROVE  \A j \in Runs : RunCarries(j)
    BY <1>1, <2>2 DEF TypeOK, RunCarries
  <2>3. CASE UNCHANGED run
    BY <2>1, <2>3, Carried DEF RunCarries
  <2>4. CASE ~UNCHANGED run
    <3>1. PICK v \in {[run[k] EXCEPT !.pc = "active"], [run[k] EXCEPT !.pc = "releasing"],
                      [run[k] EXCEPT !.pc = "done"],
                      [run[k] EXCEPT !.pc = "releasing", !.failed = TRUE],
                      [run[k] EXCEPT !.pc = "executing", !.started = TRUE],
                      [run[k] EXCEPT !.pc = "logging", !.upd = Nil],
                      [run[k] EXCEPT !.pc = "finishing", !.upd = Nil, !.failed = TRUE],
                      [run[k] EXCEPT !.pc = "finishing", !.final = run[k].status,
                                     !.failed = logs'[k] # run[k].status]} :
            run' = [run EXCEPT ![k] = v]
      BY <1>3, <2>4
         DEF RunStep, RegisterActive, RejectActive, StartLog, StartLogFails, Progress,
             SaveResult, SaveResultFails, LogResult, FinishActive, Release
    <3>2. v.pc # "saving"
      BY <1>1, <3>1 DEF RunRec
    <3> QED BY <2>1, <2>2, <3>1, <3>2, Carried
  <2> QED BY <2>3, <2>4
<1> QED BY <1>2, <1>3

-----------------------------------------------------------------------------
(* Stored is an invariant, of one client that changes tasks *)

\* What a request is when it is issued.
LEMMA Issued ==
  ASSUME mr \in [Callers -> Request], NEW c \in Callers
  PROVE  /\ \A t, d : Create(c, t, d) =>
              mr'[c] = [op |-> "create", step |-> "upsert", prev |-> Nil, def |-> d,
                        unsaved |-> FALSE]
         /\ Shutdown(c) =>
              mr'[c] = [op |-> "stop", step |-> "ran", prev |-> Nil, def |-> Nil,
                        unsaved |-> FALSE]
         /\ \A t, op, d : LoadForMutation(c, t, op, d) =>
              mr'[c] = [op |-> op, step |-> "loaded", prev |-> file[t], def |-> d,
                        unsaved |-> FALSE]
<1>1. \A op, step, d : NewRequest(c, op, step, d) =>
        mr'[c] = [op |-> op, step |-> step, prev |-> Nil, def |-> d,
                  unsaved |-> FALSE]
  BY DEF NewRequest
<1>2. \A t, op, d : LoadForMutation(c, t, op, d) =>
        mr'[c] = [op |-> op, step |-> "loaded", prev |-> file[t], def |-> d,
                  unsaved |-> FALSE]
  BY DEF LoadForMutation
<1> QED BY <1>1, <1>2 DEF Create, Shutdown

\* What is stored and remembered of a task stays as it is, but for a deleted file.
LEMMA AgreesStands ==
  ASSUME NEW t \in Tasks, NEW d, Agrees(t, d), file'[t] \in {file[t], Nil}, Shrinks,
         \A r \in Regs : reg[r].task = t /\ Works(r) /\ Remembers(r, d) => Remembers(r, d)'
  PROVE  Agrees(t, d)'
BY DEF Agrees, Shrinks

LEMMA CallAgrees ==
  ASSUME Invariant, NEW c \in Callers,
         CallStep(c) \/ Resume(c) \/ StopRunTimeout(c) \/ ArgOnly \/ UNCHANGED vars,
         Shrinks, NEW t \in Tasks \ byHand, NEW d, Agrees(t, d), file'[t] \in {file[t], Nil}
  PROVE  Agrees(t, d)'
<1>1. ASSUME NEW r \in Regs, reg[r].task = t, Remembers(r, d)
      PROVE  Remembers(r, d)'
  <2>1. CASE ArgOnly \/ UNCHANGED vars
    BY <1>1, <2>1 DEF ArgOnly, vars, Remembers
  <2>2. CASE CallStep(c) \/ Resume(c) \/ StopRunTimeout(c)
    <3>1. RegCarries(r) /\ \A k \in Runs : RunCarries(k)
      BY <1>1, <2>2, CallCarries DEF Invariant
    <3> QED BY <1>1, <3>1, Carried
  <2> QED BY <2>1, <2>2
<1> QED BY <1>1, AgreesStands

\* What works for a task whose runs are all of its loops.
LEMMA RunsWork ==
  ASSUME Invariant, NEW t \in Tasks \ byHand,
         NEW k \in Runs, Unfinished(k), reg[run[k].reg].task = t
  PROVE  run[k].reg \in Regs /\ Works(run[k].reg)
<1>1. run[k].reg \in Regs /\ reg[run[k].reg].run = k
  BY DEF Invariant, IInv, RunOK
<1>2. reg[run[k].reg].loop # "none"
  BY <1>1, NilAssumption DEF Invariant, Bound
<1> QED BY <1>1, <1>2, NilAssumption DEF Works, Idle

\* The loops and the runs write the definition that is stored.
LEMMA WorkersAgree ==
  ASSUME Invariant,
         (\E r \in Regs : LoopStep(r) \/ Fire(r)) \/ (\E k \in Runs : RunStep(k) \/ Progress(k)),
         Shrinks, NEW t \in Tasks \ byHand
  PROVE  /\ \A d : Agrees(t, d) => Agrees(t, d)'
         /\ file'[t] # file[t] => /\ file'[t] # Nil
                                  /\ \E r \in Regs : reg[r].task = t /\ Works(r)
<1> USE NilAssumption
<1>1. /\ TypeOK /\ Bound /\ \A r \in Regs : RegOK(r)
      /\ \A k \in Runs : RunOK(k)
  BY DEF Invariant, IInv
<1>2. ASSUME NEW d, NEW r \in Regs, Remembers(r, d)
      PROVE  Remembers(r, d)'
  BY <1>1, <1>2, LoopRemembers, RunRemembers DEF Invariant
<1>3. ASSUME NEW q \in Regs, PersistSave(q), file'[t] # file[t]
      PROVE  /\ file'[t] # Nil /\ reg[q].task = t /\ Works(q)
             /\ \A d : Agrees(t, d) => file'[t].def = d
  <2>1. file' = [file EXCEPT ![reg[q].task] = reg[q].tmp] /\ reg[q].loop = "save"
    BY <1>3 DEF PersistSave, Attempt
  <2>2. reg[q].task = t /\ file'[t] = reg[q].tmp /\ reg[q].tmp \in TaskVal
    BY <1>1, <1>3, <2>1 DEF TypeOK, RegOK
  <2>3. Works(q)
    BY <2>1 DEF Works, Idle
  <2> QED BY <2>1, <2>2, <2>3 DEF Agrees, Remembers, TaskVal
<1>4. ASSUME NEW k \in Runs, SaveResult(k), file'[t] # file[t]
      PROVE  /\ file'[t] # Nil
             /\ \E r \in Regs : reg[r].task = t /\ Works(r)
             /\ \A d : Agrees(t, d) => file'[t].def = d
  <2>1. /\ run[k].pc = "saving" /\ Unfinished(k) /\ run[k].task = t
        /\ file'[t] = run[k].upd /\ run[k].upd \in TaskVal
    BY <1>1, <1>4 DEF SaveResult, TypeOK, Unfinished, InFlight, RunOK
  <2>2. reg[run[k].reg].task = t
    BY <1>1, <2>1 DEF Bound
  <2>3. run[k].reg \in Regs /\ Works(run[k].reg)
    BY <2>1, <2>2, RunsWork
  <2> QED BY <2>1, <2>2, <2>3 DEF Agrees, Remembers, TaskVal
<1>5. file'[t] # file[t] =>
        (\E q \in Regs : PersistSave(q)) \/ (\E k \in Runs : SaveResult(k))
  BY DEF LoopStep, Persist, PersistLater, Fire, FireBegin, FireSkipped,
         FireRetired, LoopExit, RunStep, RegisterActive, RejectActive, StartLog,
         StartLogFails, SaveResultFails, LogResult, FinishActive, Release, ExecReturn,
         Progress
<1>6. ASSUME NEW d, Agrees(t, d)
      PROVE  Agrees(t, d)'
  <2>1. file'[t] # Nil => file'[t].def = d
    BY <1>3, <1>4, <1>5, <1>6 DEF Agrees
  <2>2. \A r \in Regs : reg'[r].task = t /\ Works(r)' => Remembers(r, d)'
    BY <1>2, <1>6 DEF Agrees, Shrinks
  <2> QED BY <2>1, <2>2 DEF Agrees
<1> QED BY <1>3, <1>4, <1>5, <1>6

\* A request keeps the client's task, and its own operation until it ends.
LEMMA OwnCourse ==
  ASSUME TypeOK, Requests, NEW c \in Callers, MResume(c)
  PROVE  cl'[c].task = cl[c].task /\ (mr'[c] = NoRequest \/ mr'[c].op = mr[c].op)
<1>1. cl[c] \in CallerRec
  BY DEF TypeOK
<1>2. ASSUME NEW step \in MutationSteps, Go(c, step)
      PROVE  mr'[c].op = mr[c].op
  BY <1>2, RequestMoves DEF Requests
<1>3. Finish(c) => mr'[c] = NoRequest
  BY RequestMoves DEF Requests
<1>4. ASSUME CallUpsert(c) \/ Return(c) \/ UNCHANGED vars
             \/ (\E v : Save(c, cl[c].task, v)) \/ (\E t : Delete(c, t))
      PROVE  cl'[c].task = cl[c].task
  <2>1. ASSUME NEW v, Save(c, cl[c].task, v)
        PROVE  cl'[c].task = cl[c].task
    BY <1>1, <2>1 DEF TypeOK, CallerRec, Save
  <2> QED BY <1>4, <2>1, UpsertCalls, ReturnCalls DEF Delete, vars
<1>5. CASE CreateUpsert(c) \/ UpdateUpsert(c) \/ Restore(c)
  BY <1>2, <1>4, <1>5 DEF CreateUpsert, UpdateUpsert, Restore, MutationSteps
<1>6. CASE CreateEnds(c) \/ DetachFails(c) \/ UpdateEnds(c) \/ RestoreEnds(c) \/ RunEnds(c)
  BY <1>3, <1>4, <1>6 DEF CreateEnds, DetachFails, UpdateEnds, RestoreEnds, RunEnds, Returned
<1>7. CASE CreateFails(c) \/ UpdateUpsertFails(c) \/ Detached(c)
  BY <1>2, <1>4, <1>7 DEF CreateFails, UpdateUpsertFails, Detached, Returned, MutationSteps
<1>8. CASE CreateUndo(c) \/ DeleteEnds(c)
  BY <1>3, <1>4, <1>8 DEF CreateUndo, DeleteEnds, DeleteMisses
<1>9. CASE UpdateSave(c) \/ UpdateSaveFails(c) \/ DeleteFails(c) \/ Rewrite(c)
  <2>1. cl'[c].task = cl[c].task
    BY <1>4, <1>9
       DEF UpdateSave, UpdateSaveFails, DeleteFails, Rewrite, SaveFails, DeleteMisses
  <2>2. Go(c, "saved") \/ Go(c, "restore") \/ Go(c, "rewrite")
    BY <1>9 DEF UpdateSave, UpdateSaveFails, DeleteFails, Rewrite
  <2> QED BY <1>2, <2>1, <2>2 DEF MutationSteps
<1>10. CASE RewriteFails(c)
  <2>1. cl' = [cl EXCEPT ![c] = [@ EXCEPT !.arg = mr[c].prev]] /\ GoUnsaved(c)
    BY <1>10 DEF RewriteFails
  <2> QED BY <1>1, <2>1, RequestMoves DEF TypeOK, CallerRec, Requests
<1>11. CASE Detaching(c)
  <2>1. Go(c, "detached") /\ cl'[c].task = cl[c].task
    BY <1>11, DetachCalls DEF Detaching, Unregister
  <2> QED BY <1>2, <2>1 DEF MutationSteps
<1>12. CASE RunRequest(c) \/ StopRequest(c)
  <2>1. ASSUME NEW op, Manual(c, op)
        PROVE  cl'[c].task = cl[c].task
    BY <1>1, <2>1 DEF TypeOK, CallerRec, Manual
  <2>2. ASSUME NEW k, StopRun(c, k)
        PROVE  cl'[c].task = cl[c].task
    BY <1>1, <2>2 DEF TypeOK, CallerRec, StopRun
  <2>3. ASSUME NEW k, StopRunMisses(c, k)
        PROVE  cl'[c].task = cl[c].task
    BY <1>1, <2>3 DEF TypeOK, CallerRec, StopRunMisses
  <2>4. cl'[c].task = cl[c].task /\ Go(c, "ran")
    BY <1>12, <2>1, <2>2, <2>3, DetachCalls DEF RunRequest, StopRequest
  <2> QED BY <1>2, <2>4 DEF MutationSteps
<1> QED BY <1>5, <1>6, <1>7, <1>8, <1>9, <1>10, <1>11, <1>12 DEF MResume

\* What a request writes it holds, behind its barrier.
LEMMA OwnWrites ==
  ASSUME LoneInvariant, NEW c \in Callers,
         (\E t \in Tasks, d \in Defs : Create(c, t, d)) \/ UpdateSave(c) \/ Rewrite(c)
  PROVE  /\ file' = [file EXCEPT ![cl'[c].task] = cl'[c].arg]
         /\ cl'[c].arg \in TaskVal /\ cl'[c].task \in Tasks
         /\ Changes(c)' /\ Behind(c)'
         /\ UNCHANGED <<tasks, running>>
<1>1. TypeOK /\ Requests /\ ReqOK(c)
  BY DEF LoneInvariant, Invariant, IInv, Requests
<1>2. ASSUME NEW t \in Tasks, NEW v \in TaskVal, Save(c, t, v),
             Changes(c)', Behind(c)'
      PROVE  /\ file' = [file EXCEPT ![cl'[c].task] = cl'[c].arg]
             /\ cl'[c].arg \in TaskVal /\ cl'[c].task \in Tasks
             /\ Changes(c)' /\ Behind(c)'
             /\ UNCHANGED <<tasks, running>>
  <2>1. cl'[c].task = t /\ cl'[c].arg = v
    BY <1>1, <1>2, StoreCalls
  <2>2. file' = [file EXCEPT ![t] = v] /\ UNCHANGED <<tasks, running>>
    BY <1>2 DEF Save
  <2> QED BY <1>2, <2>1, <2>2
<1>3. ASSUME NEW t \in Tasks, NEW d \in Defs, Create(c, t, d)
      PROVE  /\ file' = [file EXCEPT ![cl'[c].task] = cl'[c].arg]
             /\ cl'[c].arg \in TaskVal /\ cl'[c].task \in Tasks
             /\ Changes(c)' /\ Behind(c)'
             /\ UNCHANGED <<tasks, running>>
  <2>1. [def |-> d, last |-> Nil] \in TaskVal
    BY DEF TaskVal
  <2>2. mr'[c].op = "create"
    <3>1. mr'[c] = [op |-> "create", step |-> "upsert", prev |-> Nil, def |-> d,
                    unsaved |-> FALSE]
      BY <1>1, <1>3, Issued DEF Requests
    <3> QED BY <3>1
  <2>3. Changes(c)' /\ Behind(c)'
    BY <2>2 DEF Changes, Behind
  <2> QED BY <1>2, <1>3, <2>1, <2>3 DEF Create
<1>4. CASE UpdateSave(c)
  <2> DEFINE v == [mr[c].prev EXCEPT !.def = mr[c].def]
  <2>1. /\ Save(c, cl[c].task, v) /\ mr[c].op = "update"
        /\ mr'[c].op = "update" /\ mr'[c].step = "saved"
    BY <1>1, <1>4, RequestMoves DEF UpdateSave, At, Requests, MutationSteps
  <2>2. v \in TaskVal /\ cl[c].task \in Tasks
    BY <1>1, <2>1 DEF ReqOK, Changes, Replaces, TaskVal
  <2>3. Changes(c)' /\ Behind(c)'
    BY <2>1 DEF Changes, Behind, PastBarrier
  <2> HIDE DEF v
  <2> QED BY <1>2, <2>1, <2>2, <2>3
<1>5. CASE Rewrite(c)
  <2>1. /\ Save(c, cl[c].task, mr[c].prev) /\ Replaces(c) /\ mr[c].step = "rewrite"
        /\ mr'[c].op = mr[c].op /\ mr'[c].step = "restore"
    BY <1>1, <1>5, RequestMoves
       DEF Rewrite, Requests, MutationSteps, ReqOK, StepOfOp, Replaces
  <2>2. mr[c].prev \in TaskVal /\ cl[c].task \in Tasks
    BY <1>1, <2>1 DEF ReqOK, Changes, Replaces
  <2>3. Changes(c)' /\ Behind(c)'
    BY <2>1 DEF Changes, Replaces, Behind, PastBarrier
  <2> QED BY <1>2, <2>1, <2>2, <2>3
<1> QED BY <1>3, <1>4, <1>5

\* Any other step leaves the files, or removes that of the request's task.
LEMMA OwnFiles ==
  ASSUME NEW c \in Callers, MCall(c) \/ MResume(c),
         ~\E t \in Tasks, d \in Defs : Create(c, t, d), ~UpdateSave(c), ~Rewrite(c)
  PROVE  \/ UNCHANGED file
         \/ /\ CreateUndo(c) \/ DeleteEnds(c) \/ DeleteFails(c)
            /\ file' = [file EXCEPT ![cl[c].task] = Nil]
            /\ UNCHANGED <<cl, tasks, running>>
<1>1. CASE MCall(c)
  BY <1>1 DEF MCall, LoadForMutation, Load, Shutdown, Stop, Refused
<1>2. CASE CreateUndo(c) \/ DeleteEnds(c) \/ DeleteFails(c)
  BY <1>2 DEF CreateUndo, DeleteEnds, DeleteFails, Delete, DeleteMisses, vars
<1>3. CASE CreateUpsert(c) \/ UpdateUpsert(c) \/ Restore(c) \/ Detaching(c)
           \/ RunRequest(c) \/ StopRequest(c)
  BY <1>3 DEF CreateUpsert, UpdateUpsert, Restore, CallUpsert, Upsert, Detach, Refused,
              Detaching, Unregister, RunRequest, StopRequest, Manual, StopRun, StopRunMisses
<1>4. CASE CreateEnds(c) \/ DetachFails(c) \/ UpdateEnds(c) \/ RestoreEnds(c) \/ RunEnds(c)
           \/ CreateFails(c) \/ UpdateUpsertFails(c) \/ Detached(c)
  BY <1>4 DEF CreateEnds, DetachFails, UpdateEnds, RestoreEnds, RunEnds, CreateFails,
              UpdateUpsertFails, Detached, Returned, Return
<1>5. CASE UpdateSaveFails(c) \/ RewriteFails(c)
  BY <1>5 DEF UpdateSaveFails, SaveFails, RewriteFails, vars
<1> QED BY <1>1, <1>2, <1>3, <1>4, <1>5 DEF MResume

\* What a request has written, its task is: nothing else works for it.
LEMMA WriteAgrees ==
  ASSUME LoneInvariant, LoneInvariant', NEW c \in Callers,
         (\E t \in Tasks, d \in Defs : Create(c, t, d)) \/ UpdateSave(c) \/ Rewrite(c),
         NEW u, NEW e, u = cl'[c].task, e = cl'[c].arg.def
  PROVE  Agrees(u, e)'
<1>1. /\ file' = [file EXCEPT ![cl'[c].task] = cl'[c].arg]
      /\ cl'[c].task \in Tasks /\ Behind(c)'
  BY OwnWrites
<1>2. file'[cl'[c].task] = cl'[c].arg
  BY <1>1 DEF LoneInvariant, Invariant, IInv, TypeOK
<1>3. \A r \in Regs : reg'[r].task = cl'[c].task => ~Works(r)'
  BY <1>1 DEF LoneInvariant, Barrier, Cleared
<1> QED BY <1>2, <1>3 DEF Agrees

\* Any other step leaves what a task is.
LEMMA OwnAgrees ==
  ASSUME LoneInvariant, NEW c \in Callers, MCall(c) \/ MResume(c),
         ~\E t \in Tasks, d \in Defs : Create(c, t, d), ~UpdateSave(c), ~Rewrite(c),
         Shrinks, NEW t \in Tasks \ byHand, NEW d, Agrees(t, d)
  PROVE  Agrees(t, d)'
<1>1. TypeOK /\ Requests /\ Invariant
  BY DEF LoneInvariant, Invariant, IInv
<1>2. file'[t] \in {file[t], Nil}
  BY <1>1, OwnFiles DEF TypeOK
<1>3. CallStep(c) \/ Resume(c) \/ ArgOnly \/ UNCHANGED vars
  BY <1>1, OwnSteps
<1> QED BY <1>1, <1>2, <1>3, CallAgrees

\* A request's own step keeps what it knows.
LEMMA OwnKnows ==
  ASSUME LoneInvariant, LoneInvariant', NEW c \in Callers, MCall(c) \/ MResume(c), Shrinks,
         \A t \in Tasks \ byHand : \E d \in Defs \cup {Nil} : Agrees(t, d),
         byHand \subseteq byHand', cl'[c].task \notin byHand',
         cl[c].task \notin byHand => Knows(c)
  PROVE  Knows(c)'
<1>1. /\ TypeOK /\ Requests /\ ReqOK(c) /\ ReqOK(c)'
      /\ cl[c] \in CallerRec /\ cl'[c].task \notin byHand
  BY DEF LoneInvariant, Invariant, IInv, Requests, TypeOK
<1>2. CASE ~Changes(c)'
  BY <1>2 DEF Knows, Changes, Replaces
<1>3. CASE Changes(c)'
  <2>1. PICK u, e, p : u = cl'[c].task /\ e = cl'[c].arg.def /\ p = mr'[c].prev.def
    OBVIOUS
  <2>2. u \in Tasks \ byHand
    BY <1>1, <1>3, <2>1 DEF ReqOK
  <2>3. Agrees(u, e)' /\ mr'[c].step # "rewrite" => Knows(c)'
    <3>1. Replaces(c)' /\ mr'[c].step \in {"loaded", "detached", "write", "restore"} => p = e
      BY <1>1, <2>1 DEF ReqOK
    <3> QED BY <1>1, <2>1, <3>1 DEF Knows, Agrees, ReqOK, StepOfOp, Replaces
  <2>4. CASE (\E t \in Tasks, d \in Defs : Create(c, t, d)) \/ UpdateSave(c) \/ Rewrite(c)
    <3>1. Agrees(u, e)' /\ mr'[c].step # "rewrite"
      <4>1. Agrees(u, e)'
        BY <2>1, <2>4, WriteAgrees
      <4>2. ASSUME NEW t, NEW d, Create(c, t, d)
            PROVE  mr'[c].op = "create"
        <5>1. mr'[c] = [op |-> "create", step |-> "upsert", prev |-> Nil, def |-> d,
                        unsaved |-> FALSE]
          BY <1>1, <4>2, Issued DEF Requests
        <5> QED BY <5>1
      <4>3. UpdateSave(c) \/ Rewrite(c) => mr'[c].step \in {"saved", "restore"}
        BY <1>1, RequestMoves DEF UpdateSave, Rewrite, Requests, MutationSteps
      <4> QED BY <1>1, <2>4, <4>1, <4>2, <4>3 DEF ReqOK, StepOfOp
    <3> QED BY <2>3, <3>1
  <2>5. CASE ~((\E t \in Tasks, d \in Defs : Create(c, t, d)) \/ UpdateSave(c) \/ Rewrite(c))
    <3>1. \A x : Agrees(u, x) => Agrees(u, x)'
      BY <2>2, <2>5, OwnAgrees
    <3>2. ASSUME NEW t \in Tasks, NEW op, NEW d, LoadForMutation(c, t, op, d)
          PROVE  Knows(c)'
      <4>1. t = u /\ file[t] # Nil /\ cl'[c].arg = file[t]
        BY <1>1, <2>1, <3>2, StoreCalls, ZenonT(60) DEF LoadForMutation, Load
      <4>2. Agrees(u, e)
        BY <2>1, <2>2, <4>1 DEF Agrees
      <4>3. mr'[c].step = "loaded"
        BY <1>1, <3>2 DEF LoadForMutation, Requests
      <4> QED BY <2>3, <3>1, <4>2, <4>3
    <3>3. CASE MResume(c)
        <4>1. ASSUME NEW step \in MutationSteps, Go(c, step)
            PROVE  mr'[c].op = mr[c].op /\ mr'[c].step = step /\ mr'[c].prev = mr[c].prev
        BY <1>1, <4>1, RequestMoves DEF Requests
      <4>2. Finish(c) => ~Changes(c)'
        <5>1. Finish(c) => mr'[c] = NoRequest
          BY <1>1, RequestMoves DEF Requests
        <5> QED BY <5>1 DEF Changes, NoRequest
      <4>3. u = cl[c].task /\ Knows(c)
        BY <1>1, <1>3, <2>1, <3>3, OwnCourse DEF Changes, NoRequest
      \* The request goes on with the task that it knows in hand.
      <4>4. ASSUME NEW step \in MutationSteps \ {"rewrite"}, Go(c, step),
                   cl'[c].arg = cl[c].arg, Changes(c),
                   \/ mr[c].op = "create"
                   \/ mr[c].step \in {"loaded", "detached", "write", "saved"}
            PROVE  Knows(c)'
        <5>1. Agrees(u, e)
          BY <1>1, <2>1, <4>3, <4>4 DEF Knows, ReqOK, Changes, Replaces
        <5>2. mr'[c].step = step
          BY <4>1, <4>4
        <5> QED BY <2>3, <3>1, <4>4, <5>1, <5>2
      <4>5. CASE CreateUpsert(c) \/ UpdateUpsert(c)
        <5>1. CallUpsert(c) /\ Go(c, "upserted") /\ mr[c].op \in {"create", "update"}
              /\ mr[c].step \in {"upsert", "saved"}
          BY <4>5 DEF CreateUpsert, UpdateUpsert, At
        <5>2. cl'[c].arg = cl[c].arg /\ Changes(c) /\ (mr[c].op = "create" \/ mr[c].step = "saved")
          BY <1>1, <5>1, UpsertCalls DEF Changes, ReqOK, StepOfOp
        <5> QED BY <4>4, <5>1, <5>2 DEF MutationSteps
      <4>6. CASE CreateFails(c) \/ Detached(c) \/ Detaching(c) \/ UpdateSaveFails(c)
        <5>1. cl'[c].arg = cl[c].arg
          BY <1>1, <4>6, ReturnCalls, DetachCalls
             DEF CreateFails, Detached, Detaching, UpdateSaveFails, Returned, SaveFails,
                 Unregister, vars
        <5>2. Go(c, "undo") \/ Go(c, "write") \/ Go(c, "detached") \/ Go(c, "restore")
          BY <4>6 DEF CreateFails, Detached, Detaching, UpdateSaveFails
        <5>3. \/ mr[c].op = "create"
              \/ mr[c].step \in {"loaded", "detached", "write"}
          BY <4>6 DEF CreateFails, Detached, Detaching, UpdateSaveFails, At
        <5>4. Changes(c)
          BY <1>3, <4>1, <5>2 DEF Changes, MutationSteps
        <5> QED BY <4>4, <5>1, <5>2, <5>3, <5>4 DEF MutationSteps
      \* It goes on to its rollback, or through it.
      <4>7. CASE UpdateUpsertFails(c)
        <5>1. mr'[c].op = "update" /\ mr'[c].step = "rewrite"
          BY <4>1, <4>7 DEF UpdateUpsertFails, At, MutationSteps
        <5> QED BY <1>1, <5>1 DEF Knows, ReqOK
      <4>8. CASE DeleteFails(c)
        <5>1. /\ mr[c].op = "delete" /\ mr[c].step = "write" /\ mr'[c].op = "delete"
              /\ mr'[c].step = "rewrite" /\ mr'[c].prev = mr[c].prev
          BY <4>1, <4>8 DEF DeleteFails, At, MutationSteps
        <5>2. Agrees(u, p)
          BY <2>1, <4>3, <5>1 DEF Knows, Replaces
        <5>3. Agrees(u, p)'
          BY <3>1, <5>2
        <5> QED BY <2>1, <5>1, <5>3 DEF Knows, Agrees
      <4>9. CASE RewriteFails(c)
        <5>1. /\ mr[c].step = "rewrite" /\ Replaces(c) /\ mr'[c].op = mr[c].op
              /\ mr'[c].step = "restore" /\ mr'[c].prev = mr[c].prev /\ running' = running
          <6>1. /\ GoUnsaved(c) /\ mr[c].step = "rewrite" /\ running' = running
            BY <4>9 DEF RewriteFails
          <6>2. /\ mr'[c].op = mr[c].op /\ mr'[c].step = "restore"
                /\ mr'[c].prev = mr[c].prev
            BY <1>1, <6>1, RequestMoves DEF Requests
          <6> QED BY <1>1, <6>1, <6>2 DEF ReqOK, StepOfOp, Replaces
        <5>2. ~running \/ Agrees(u, p)
          BY <2>1, <4>3, <5>1 DEF Knows
        <5>3. ~running \/ Agrees(u, p)'
          BY <3>1, <5>2
        <5> QED BY <2>1, <5>1, <5>3 DEF Knows, Agrees, Replaces
      <4>10. CASE Restore(c)
        <5>1. /\ mr[c].step = "restore" /\ Replaces(c) /\ CallUpsert(c)
              /\ mr'[c].op = mr[c].op /\ mr'[c].step = "restored"
          BY <1>1, <4>1, <4>10 DEF Restore, MutationSteps, ReqOK, StepOfOp, Replaces
        <5>2. cl'[c].arg = cl[c].arg /\ cl[c].arg = mr[c].prev /\ (running \/ CallRefused(c)')
          BY <1>1, <5>1, UpsertCalls DEF ReqOK, CallRefused
        <5>3. CASE CallRefused(c)'
          BY <5>1, <5>3 DEF Knows, Replaces
        <5>4. CASE running
          <6>1. Agrees(u, e)
            BY <2>1, <4>3, <5>1, <5>2, <5>4 DEF Knows
          <6> QED BY <2>3, <3>1, <5>1, <6>1
        <5> QED BY <5>2, <5>3, <5>4
      <4>11. CASE RunRequest(c) \/ StopRequest(c)
        <5>1. mr'[c].step = "ran"
          BY <4>1, <4>11 DEF RunRequest, StopRequest, MutationSteps
        <5> QED BY <1>1, <1>3, <5>1 DEF ReqOK, StepOfOp, Changes
      <4>12. ~Finish(c)
        BY <1>3, <4>2
      <4> QED BY <2>5, <3>3, <4>5, <4>6, <4>7, <4>8, <4>9, <4>10, <4>11, <4>12
              DEF MResume, CreateEnds, DetachFails, UpdateEnds, RestoreEnds, RunEnds,
                  CreateUndo, DeleteEnds
    <3>4. Shutdown(c) => ~Changes(c)'
      BY <1>1, Issued DEF Requests, Changes
    <3> QED BY <1>3, <2>5, <3>2, <3>3, <3>4 DEF MCall
  <2> QED BY <2>4, <2>5
<1> QED BY <1>2, <1>3

\* A request that has ended leaves its task registered, or disabled; the others' tasks
\* it leaves alone.
LEMMA OwnIdled ==
  ASSUME LoneInvariant, NEW c \in Callers, MCall(c) \/ MResume(c), OwnMove(c),
         NEW t \in Tasks \ byHand, Idled(t), cl[c].task = t => Knows(c)
  PROVE  Idled(t)'
<1> SUFFICES ASSUME running', tasks'[t] = Nil, file'[t] # Nil,
                    \A d \in Callers : Changes(d)' => cl'[d].task # t
             PROVE  ~Enabled(file[t]) /\ file'[t] = file[t]
  BY DEF Idled, Enabled
<1>1. /\ TypeOK /\ Requests /\ ReqOK(c) /\ Cleared(c) /\ running
      /\ \A d \in Callers \ {c} : mr'[d] = mr[d] /\ cl'[d] = cl[d]
  BY DEF LoneInvariant, Invariant, IInv, Requests, Barrier, OwnMove
<1>2. CASE Changes(c) /\ cl[c].task = t
  <2>1. MResume(c)
    <3>1. MCall(c) => mr[c] = NoRequest
      BY DEF MCall, Create, LoadForMutation, Shutdown, NewRequest
    <3> QED BY <1>2, <3>1 DEF Changes, NoRequest
  <2>2. mr'[c] = NoRequest
    BY <1>1, <1>2, <2>1, OwnCourse DEF Changes
  <2>3. ASSUME NEW step \in MutationSteps, Go(c, step) \/ GoUnsaved(c)
        PROVE  FALSE
    <3>1. mr'[c].op = mr[c].op
      BY <1>1, <2>3, RequestMoves DEF Requests
    <3> QED BY <1>2, <2>2, <3>1 DEF Changes, NoRequest
  <2>4. CASE CreateEnds(c) \/ UpdateEnds(c) \/ RestoreEnds(c)
    <3>1. /\ Return(c) /\ cl[c].pc = "ret" /\ mr[c].step \in {"upserted", "restored"}
          /\ UNCHANGED <<file, tasks>>
      BY <2>4 DEF CreateEnds, UpdateEnds, RestoreEnds, Returned, Return, At
    <3>2. cl[c].res = "ok"
      BY <1>1, <3>1 DEF ReqOK, CallRefused
    <3>3. ~Enabled(cl[c].arg)
      BY <1>1, <1>2, <3>1, <3>2 DEF Cleared
    <3>4. Agrees(t, cl[c].arg.def)
      BY <1>2, <3>1, <3>2 DEF Knows, CallRefused, Changes, Replaces
    <3> QED BY <3>1, <3>3, <3>4 DEF Agrees, Enabled
  <2>5. CASE CreateUndo(c)
    BY <1>1, <2>5 DEF CreateUndo, At, ReqOK
  <2>6. CASE DetachFails(c)
    BY <1>1, <2>6 DEF DetachFails, Returned, Return, ReqOK, CallRefused
  <2>7. CASE DeleteEnds(c)
    BY <1>1, <1>2, <2>7 DEF DeleteEnds, Delete, TypeOK
  <2>8. CASE RunEnds(c)
    BY <1>1, <1>2, <2>8 DEF RunEnds, ReqOK, StepOfOp, Changes
  <2> QED BY <2>1, <2>3, <2>4, <2>5, <2>6, <2>7, <2>8
          DEF MResume, MutationSteps, CreateUpsert, CreateFails, Detaching, Detached,
              UpdateSave, UpdateSaveFails, UpdateUpsert, UpdateUpsertFails, DeleteFails,
              Rewrite, RewriteFails, Restore, RunRequest, StopRequest
<1>3. CASE ~(Changes(c) /\ cl[c].task = t)
  <2>1. tasks'[t] = tasks[t]
    <3>1. CASE Unregister(c) /\ Detaching(c)
      <4>1. cl[c].task # t /\ tasks' = Dropped(cl[c].task)
        BY <1>3, <3>1 DEF Detaching, Changes, Unregister, Detach
      <4> QED BY <1>1, <4>1 DEF Dropped, TypeOK
    <3>2. CASE Upsert(c) /\ (CreateUpsert(c) \/ UpdateUpsert(c) \/ Restore(c))
      <4>1. Changes(c)
        BY <1>1, <3>2 DEF CreateUpsert, UpdateUpsert, Restore, At, Changes, ReqOK, StepOfOp
      <4>2. cl[c].task # t /\ tasks' = Dropped(cl[c].task)
        BY <1>3, <3>2, <4>1 DEF Upsert, Detach
      <4> QED BY <1>1, <4>2 DEF Dropped, TypeOK
    <3> QED BY <3>1, <3>2, OwnTouches DEF Stop
  <2>2. file'[t] = file[t]
    <3>1. CASE (\E u \in Tasks, d \in Defs : Create(c, u, d)) \/ UpdateSave(c) \/ Rewrite(c)
      BY <1>1, <3>1, OwnWrites DEF TypeOK
    <3>2. CASE ~((\E u \in Tasks, d \in Defs : Create(c, u, d)) \/ UpdateSave(c) \/ Rewrite(c))
      <4>1. CreateUndo(c) \/ DeleteEnds(c) \/ DeleteFails(c) => Changes(c)
        BY DEF CreateUndo, DeleteEnds, DeleteFails, At, Changes
      <4>2. \/ UNCHANGED file
            \/ file' = [file EXCEPT ![cl[c].task] = Nil] /\ cl[c].task # t
        BY <1>3, <3>2, <4>1, OwnFiles
      <4> QED BY <1>1, <4>2 DEF TypeOK
    <3> QED BY <3>1, <3>2
  <2>3. \A d \in Callers : Changes(d) => cl[d].task # t
    BY <1>1, <1>3 DEF Changes
  <2> QED BY <1>1, <2>1, <2>2, <2>3 DEF Idled
<1> QED BY <1>2, <1>3

\* What a request deletes is not registered, and it goes on to save it again, or says
\* that it could not.
LEMMA OwnFiled ==
  ASSUME OneMutator, LoneInvariant, Filed, NEW c \in Callers, MCall(c) \/ MResume(c),
         OwnMove(c), \A t \in Tasks : tasks'[t] \in {tasks[t], Nil}
  PROVE  Filed'
<1> USE NilAssumption
<1> DEFINE Writes == (\E t \in Tasks, d \in Defs : Create(c, t, d)) \/ UpdateSave(c) \/ Rewrite(c)
<1>1. /\ TypeOK /\ Requests /\ ReqOK(c) /\ Cleared(c)
      /\ \A d \in Callers \ {c} : mr'[d] = mr[d] /\ cl'[d] = cl[d]
  BY DEF LoneInvariant, Invariant, IInv, Requests, Barrier, OwnMove
<1>2. Nil \notin TaskVal
  BY DEF TaskVal
<1>3. ASSUME NEW t \in Tasks, file[t] # Nil, file'[t] = Nil
      PROVE  Changes(c) /\ t = cl[c].task /\ tasks'[t] = Nil
  <2>1. ~Writes
    <3>1. Writes => file' = [file EXCEPT ![cl'[c].task] = cl'[c].arg] /\ cl'[c].arg \in TaskVal
      BY OwnWrites
    <3> QED BY <1>1, <1>2, <1>3, <3>1 DEF TypeOK
  <2>2. /\ CreateUndo(c) \/ DeleteEnds(c) \/ DeleteFails(c)
        /\ file' = [file EXCEPT ![cl[c].task] = Nil] /\ UNCHANGED tasks
    BY <1>3, <2>1, OwnFiles
  <2>3. Changes(c) /\ Behind(c)
    BY <2>2 DEF CreateUndo, DeleteEnds, DeleteFails, At, Changes, Behind, PastBarrier
  <2>4. t = cl[c].task
    BY <1>1, <1>3, <2>2 DEF TypeOK
  <2> QED BY <1>1, <2>2, <2>3, <2>4 DEF Cleared
<1>4. ASSUME ~StoreFaults, NEW t \in Tasks, tasks'[t] # Nil
      PROVE  file'[t] # Nil
  BY <1>3, <1>4 DEF Filed
<1>5. ASSUME NEW d \in Callers \ {c}
      PROVE  /\ mr'[d].unsaved => StoreFaults
             /\ Replaces(d)' /\ mr'[d].step # "rewrite" =>
                  mr'[d].unsaved \/ file'[cl'[d].task] # Nil
  <2>1. mr'[d] = mr[d] /\ cl'[d] = cl[d]
    BY <1>1, <1>5
  <2>2. ASSUME Replaces(d)', mr'[d].step # "rewrite"
        PROVE  mr'[d].unsaved \/ file'[cl'[d].task] # Nil
    <3>1. ReqOK(d) /\ Replaces(d)
      BY <1>1, <2>1, <2>2 DEF Requests, Replaces
    <3>2. d \in Mutators /\ cl[d].task \in Tasks
      BY <3>1 DEF ReqOK, Changes, Replaces
    <3>3. ~Changes(c)
      BY <1>1, <1>5, <3>2 DEF OneMutator, ReqOK
    <3>4. mr[d].unsaved \/ file[cl[d].task] # Nil
      BY <1>5, <2>1, <2>2, <3>1 DEF Filed
    <3> QED BY <1>3, <2>1, <3>2, <3>3, <3>4
  <2> QED BY <1>5, <2>1, <2>2 DEF Filed
<1>6. /\ mr'[c].unsaved => StoreFaults
      /\ Replaces(c)' /\ mr'[c].step # "rewrite" =>
           mr'[c].unsaved \/ file'[cl'[c].task] # Nil
  <2>1. CASE MCall(c)
    <3>1. CASE \E t \in Tasks, d \in Defs : Create(c, t, d)
      <4>1. PICK d \in Defs :
              mr'[c] = [op |-> "create", step |-> "upsert", prev |-> Nil, def |-> d,
                        unsaved |-> FALSE]
        BY <1>1, <3>1, Issued DEF Requests
      <4> QED BY <4>1 DEF Replaces
    <3>2. CASE Shutdown(c)
      <4>1. mr'[c] = [op |-> "stop", step |-> "ran", prev |-> Nil, def |-> Nil,
                      unsaved |-> FALSE]
        BY <1>1, <3>2, Issued DEF Requests
      <4> QED BY <4>1 DEF Replaces
    <3>3. ASSUME NEW t \in Tasks, NEW op, NEW d, LoadForMutation(c, t, op, d)
          PROVE  ~mr'[c].unsaved /\ file'[cl'[c].task] # Nil
      <4>1. mr'[c] = [op |-> op, step |-> "loaded", prev |-> file[t], def |-> d,
                      unsaved |-> FALSE]
        BY <1>1, <3>3, Issued DEF Requests
      <4>2. cl'[c].task = t /\ file[t] # Nil /\ UNCHANGED file
        BY <1>1, <3>3, StoreCalls DEF LoadForMutation, Load
      <4> QED BY <4>1, <4>2
    <3> QED BY <2>1, <3>1, <3>2, <3>3 DEF MCall
  <2>2. CASE MResume(c)
    <3>1. ASSUME NEW step \in MutationSteps, Go(c, step)
          PROVE  mr'[c].unsaved = mr[c].unsaved /\ mr'[c].op = mr[c].op /\ mr'[c].step = step
      BY <1>1, <3>1, RequestMoves DEF Requests
    <3>2. cl'[c].task = cl[c].task
      BY <1>1, <2>2, OwnCourse
    <3>3. CASE Finish(c)
      <4>1. mr'[c] = NoRequest
        BY <1>1, <3>3, RequestMoves DEF Requests
      <4> QED BY <4>1 DEF NoRequest, Replaces
    <3>4. CASE RewriteFails(c)
      <4>1. StoreFaults /\ mr'[c].unsaved
        BY <1>1, <3>4, RequestMoves DEF RewriteFails, Requests
      <4> QED BY <4>1
    <3>5. CASE UpdateSave(c) \/ Rewrite(c)
      <4>1. mr'[c].unsaved = mr[c].unsaved
        BY <3>1, <3>5 DEF UpdateSave, Rewrite, MutationSteps
      <4>2. /\ file' = [file EXCEPT ![cl'[c].task] = cl'[c].arg] /\ cl'[c].arg \in TaskVal
            /\ cl'[c].task \in Tasks
        BY <3>5, OwnWrites
      <4>3. file'[cl'[c].task] # Nil
        BY <1>1, <1>2, <4>2 DEF TypeOK
      <4> QED BY <4>1, <4>3 DEF Filed
    <3>6. CASE CreateUpsert(c) \/ CreateFails(c)
      <4>1. mr'[c].unsaved = mr[c].unsaved /\ mr'[c].op = "create"
        BY <3>1, <3>6 DEF CreateUpsert, CreateFails, At, MutationSteps
      <4> QED BY <4>1 DEF Filed, Replaces
    <3>7. CASE UpdateUpsertFails(c) \/ DeleteFails(c)
      <4>1. mr'[c].unsaved = mr[c].unsaved /\ mr'[c].step = "rewrite"
        BY <3>1, <3>7 DEF UpdateUpsertFails, DeleteFails, MutationSteps
      <4> QED BY <4>1 DEF Filed
    <3>8. CASE Detaching(c) \/ Detached(c) \/ UpdateSaveFails(c) \/ UpdateUpsert(c)
               \/ Restore(c) \/ RunRequest(c) \/ StopRequest(c)
      <4>1. /\ mr'[c].unsaved = mr[c].unsaved /\ mr'[c].op = mr[c].op
            /\ mr[c].step # "rewrite"
        BY <3>1, <3>8
           DEF Detaching, Detached, UpdateSaveFails, UpdateUpsert, Restore, RunRequest,
               StopRequest, At, MutationSteps
      <4>2. UNCHANGED file
        <5>1. CASE UpdateUpsert(c) \/ Restore(c) \/ Detaching(c) \/ RunRequest(c)
                   \/ StopRequest(c)
          BY <5>1 DEF UpdateUpsert, Restore, CallUpsert, Upsert, Detach, Refused, Detaching,
                      Unregister, RunRequest, StopRequest, Manual, StopRun, StopRunMisses
        <5>2. CASE Detached(c) \/ UpdateSaveFails(c)
          BY <5>2 DEF Detached, Returned, Return, UpdateSaveFails, SaveFails, vars
        <5> QED BY <3>8, <5>1, <5>2
      <4> QED BY <3>2, <4>1, <4>2 DEF Filed, Replaces
    <3> QED BY <2>2, <3>3, <3>4, <3>5, <3>6, <3>7, <3>8
            DEF MResume, CreateEnds, DetachFails, UpdateEnds, RestoreEnds, RunEnds,
                CreateUndo, DeleteEnds
  <2> QED BY <2>1, <2>2
<1> QED BY <1>4, <1>5, <1>6 DEF Filed

\* What a request knows it knows for as long as its task is as it was.
LEMMA KnowsStands ==
  ASSUME NEW c \in Callers, Knows(c), mr'[c] = mr[c], cl'[c].task = cl[c].task,
         cl'[c].arg = cl[c].arg, CallRefused(c) => CallRefused(c)', running' => running,
         NEW u, u = cl[c].task, Changes(c) => \A x : Agrees(u, x) => Agrees(u, x)'
  PROVE  Knows(c)'
<1>1. PICK e, p : e = cl[c].arg.def /\ p = mr[c].prev.def
  OBVIOUS
<1>2. mr[c].op = "create" => Agrees(u, e)'
  BY <1>1 DEF Knows, Changes
<1>3. Replaces(c) =>
        /\ mr[c].step \in {"loaded", "detached", "write"} => Agrees(u, p)'
        /\ mr[c].step \in {"rewrite", "restore"} => ~running' \/ Agrees(u, p)'
        /\ mr[c].step = "saved" => Agrees(u, e)'
        /\ mr[c].step \in {"upserted", "restored"} /\ ~CallRefused(c)' => Agrees(u, e)'
  BY <1>1 DEF Knows, Changes, Replaces
<1> QED BY <1>1, <1>2, <1>3 DEF Knows, Replaces, Agrees

\* A request's own step registers nothing: that is for the commit of its upsert.
LEMMA OwnShrinks ==
  ASSUME TypeOK, NEW c \in Callers, MCall(c) \/ MResume(c)
  PROVE  Shrinks /\ \A t \in Tasks : tasks'[t] \in {tasks[t], Nil}
<1>1. CASE UNCHANGED <<reg, tasks, running>>
  BY <1>1, RetireShrinks
<1>2. CASE Stop(c)
  <2>1. {tasks[t] : t \in Tasks} \ {Nil} \in SUBSET Regs
    BY DEF TypeOK
  <2> QED BY <1>2, <2>1, RetireShrinks DEF Stop
<1>3. CASE Unregister(c) \/ Upsert(c)
  <2>1. /\ reg' = Retire(Registered(cl[c].task)) /\ tasks' = Dropped(cl[c].task)
        /\ cl[c].task \in Tasks
    BY <1>3 DEF Unregister, Upsert, Detach, TypeOK, CallerRec
  <2>2. Registered(cl[c].task) \in SUBSET Regs
    BY <2>1 DEF TypeOK, Registered
  <2> QED BY <2>1, <2>2, RetireShrinks DEF TypeOK, Dropped
<1> QED BY <1>1, <1>2, <1>3, OwnTouches

\* A request's own step keeps what is stored one with what works.
LEMMA OwnStored ==
  ASSUME OneMutator, LoneInvariant, LoneInvariant', Stored, NEW c \in Callers,
         MCall(c) \/ MResume(c)
  PROVE  Stored'
<1> DEFINE Writes == (\E t \in Tasks, d \in Defs : Create(c, t, d)) \/ UpdateSave(c) \/ Rewrite(c)
<1>1. TypeOK /\ Requests /\ Invariant /\ ReqOK(c)' /\ IInv
  BY DEF LoneInvariant, Invariant, IInv, Requests
<1>2. OwnMove(c) /\ Shrinks /\ \A t \in Tasks : tasks'[t] \in {tasks[t], Nil}
  BY <1>1, OwnRequests, OwnShrinks
<1>3. /\ \A d \in Callers \ {c} : mr'[d] = mr[d] /\ cl'[d] = cl[d]
      /\ byHand \subseteq byHand' /\ (running' => running)
  BY <1>2 DEF OwnMove
<1>4. ASSUME Writes
      PROVE  /\ file' = [file EXCEPT ![cl'[c].task] = cl'[c].arg]
             /\ cl'[c].arg.def \in Defs /\ c \in Mutators /\ cl'[c].task \in Tasks
  BY <1>1, <1>4, OwnWrites DEF ReqOK, TaskVal
<1>5. ASSUME NEW t \in Tasks \ byHand, ~Writes \/ cl'[c].task # t, NEW d, Agrees(t, d)
      PROVE  Agrees(t, d)'
  <2>1. CASE ~Writes
    BY <1>2, <1>5, <2>1, OwnAgrees
  <2>2. CASE Writes
    <3>1. file'[t] = file[t]
      BY <1>1, <1>4, <1>5, <2>2 DEF TypeOK
    <3> QED BY <1>1, <1>2, <1>5, <3>1, OwnSteps, CallAgrees
  <2> QED BY <2>1, <2>2
<1>6. ASSUME NEW t \in Tasks \ byHand'
      PROVE  (\E d \in Defs \cup {Nil} : Agrees(t, d))' /\ Idled(t)'
  <2>1. t \in Tasks \ byHand
    BY <1>3
  <2>2. \E d \in Defs \cup {Nil} : Agrees(t, d)'
    <3>1. CASE Writes /\ cl'[c].task = t
      <4>1. PICK e : e = cl'[c].arg.def
        OBVIOUS
      <4>2. Agrees(t, e)' /\ e \in Defs
        BY <1>4, <3>1, <4>1, WriteAgrees
      <4> QED BY <4>2
    <3>2. CASE ~Writes \/ cl'[c].task # t
      BY <1>5, <2>1, <3>2 DEF Stored
    <3> QED BY <3>1, <3>2
  <2>3. Idled(t)'
    BY <1>2, <2>1, OwnIdled DEF Stored
  <2> QED BY <2>2, <2>3
<1>7. ASSUME NEW d \in Callers \ {c}, cl'[d].task \notin byHand'
      PROVE  Knows(d)'
  <2>1. Knows(d) /\ ReqOK(d) /\ cl[d].task \notin byHand
    BY <1>1, <1>3, <1>7 DEF Stored, Requests
  <2>2. Changes(d) => ~Writes /\ cl[d].task \in Tasks
    BY <1>4, <2>1 DEF OneMutator, ReqOK
  <2>3. PICK u : u = cl[d].task
    OBVIOUS
  <2>4. Changes(d) => \A x : Agrees(u, x) => Agrees(u, x)'
    BY <1>5, <2>1, <2>2, <2>3
  <2> QED BY <1>3, <2>1, <2>3, <2>4, KnowsStands DEF CallRefused
<1>8. cl'[c].task \notin byHand' => Knows(c)'
  BY <1>2, <1>3, OwnKnows DEF Stored
<1>9. Filed'
  BY <1>2, OwnFiled DEF Stored
<1> QED BY <1>6, <1>7, <1>8, <1>9 DEF Stored

\* A step of the scheduler's that no request takes: a task's file is only written by
\* what is registered for it, or by what a request still waits for.
LEMMA SchedulerStored ==
  ASSUME Requests, Stored, UNCHANGED <<mr, muts, byHand, tasks, running>>,
         \A c \in Callers : /\ cl'[c].task = cl[c].task /\ cl'[c].arg = cl[c].arg
                            /\ CallRefused(c) => CallRefused(c)',
         \A t \in Tasks \ byHand : \A d : Agrees(t, d) => Agrees(t, d)',
         \A t \in Tasks : file'[t] = Nil => file[t] = Nil,
         \A t \in Tasks \ byHand : running /\ file'[t] # file[t] =>
           tasks[t] # Nil \/ \E c \in Callers : Changes(c) /\ cl[c].task = t
  PROVE  Stored'
<1>1. ASSUME NEW t \in Tasks \ byHand'
      PROVE  (\E d \in Defs \cup {Nil} : Agrees(t, d))' /\ Idled(t)'
  <2>1. (\E d \in Defs \cup {Nil} : Agrees(t, d)) /\ Idled(t)
    BY DEF Stored
  <2>2. ASSUME running', tasks'[t] = Nil, file'[t] # Nil,
               \A c \in Callers : Changes(c)' => cl'[c].task # t
        PROVE  ~Enabled(file'[t])
    <3>1. \A c \in Callers : Changes(c) => cl[c].task # t
      BY <2>2 DEF Changes
    <3>2. file'[t] = file[t]
      BY <2>2, <3>1
    <3> QED BY <2>1, <2>2, <3>1, <3>2 DEF Idled, Enabled
  <2> QED BY <2>1, <2>2 DEF Idled, Enabled
<1>2. ASSUME NEW c \in Callers, cl'[c].task \notin byHand'
      PROVE  Knows(c)'
  <2>1. Knows(c) /\ ReqOK(c) /\ cl[c].task \notin byHand
    BY <1>2 DEF Stored, Requests
  <2>2. PICK u : u = cl[c].task
    OBVIOUS
  <2>3. Changes(c) => \A x : Agrees(u, x) => Agrees(u, x)'
    BY <2>1, <2>2 DEF ReqOK
  <2> QED BY <2>1, <2>2, <2>3, KnowsStands
<1>3. Filed'
  <2>1. ASSUME NEW c \in Callers, Replaces(c)
        PROVE  cl[c].task \in Tasks
    BY <2>1 DEF Requests, ReqOK, Changes, Replaces
  <2> QED BY <2>1 DEF Stored, Filed, Replaces
<1> QED BY <1>1, <1>2, <1>3 DEF Stored

\* A loop or a run that writes works for a task that is registered or being replaced.
LEMMA WorkersStored ==
  ASSUME Invariant, Accounted, Stored, Shrinks, UNCHANGED <<mr, muts, byHand>>,
         (\E r \in Regs : LoopStep(r) \/ Fire(r)) \/ (\E k \in Runs : RunStep(k) \/ Progress(k))
  PROVE  Stored'
<1> USE NilAssumption
<1>1. UNCHANGED <<running, life, tasks, cl>>
  BY WorkersCalls
<1>2. Requests /\ TypeOK /\ (\A r \in Regs : RegOK(r)) /\ (\A k \in Runs : RunOK(k))
  BY DEF Invariant, IInv
<1>3. Nil \notin TaskVal
  BY DEF TaskVal
<1>4. ASSUME NEW t \in Tasks, file'[t] = Nil
      PROVE  file[t] = Nil
  <2>1. ASSUME NEW q \in Regs, PersistSave(q)
        PROVE  UNCHANGED file \/ \E v \in TaskVal : file' = [file EXCEPT ![reg[q].task] = v]
    BY <1>2, <1>3, <2>1 DEF PersistSave, Attempt, RegOK
  <2>2. ASSUME NEW k \in Runs, SaveResult(k)
        PROVE  \E v \in TaskVal : file' = [file EXCEPT ![run[k].task] = v]
    BY <1>2, <2>2 DEF SaveResult, RunOK
  <2>3. \/ UNCHANGED file
        \/ \E q \in Regs : PersistSave(q)
        \/ \E k \in Runs : SaveResult(k)
    BY DEF LoopStep, Persist, PersistLater, Fire, FireBegin, FireSkipped,
           FireRetired, LoopExit, RunStep, RegisterActive, RejectActive, StartLog,
           StartLogFails, SaveResultFails, LogResult, FinishActive, Release, ExecReturn,
           Progress
  <2> QED BY <1>2, <1>3, <1>4, <2>1, <2>2, <2>3 DEF TypeOK
<1>5. ASSUME NEW t \in Tasks \ byHand, running, file'[t] # file[t]
      PROVE  tasks[t] # Nil \/ \E c \in Callers : Changes(c) /\ cl[c].task = t
  <2>1. \E r \in Regs : reg[r].task = t /\ Works(r)
    BY <1>5, WorkersAgree
  <2> QED BY <1>5, <2>1 DEF Accounted, Waits
<1> QED BY <1>1, <1>2, <1>4, <1>5, WorkersAgree, SchedulerStored DEF CallRefused

\* A call that goes on, other than by a commit, leaves what is registered and stored.
LEMMA CallStored ==
  ASSUME Invariant, Stored, Shrinks, NEW c \in Callers,
         (Resume(c) /\ cl[c].pc # "ret") \/ StopRunTimeout(c), ~Commit(c),
         UNCHANGED <<mr, muts, byHand>>
  PROVE  Stored'
<1>1. TypeOK /\ Requests
  BY DEF Invariant, IInv
<1>2. UNCHANGED <<tasks, file>>
  BY DEF Resume, CommitRefused, Drained, CancelLifecycle, BeginManual,
         BeginAdHoc, BeginSkipped, AppendSkipped, RunNowDone, StartNowDone, CancelRun,
         StopRunDone, Return, StopRunTimeout
<1>3. /\ running' = running /\ \A d \in Callers \ {c} : cl'[d] = cl[d]
      /\ cl'[c].task = cl[c].task /\ cl'[c].arg = cl[c].arg /\ cl[c].pc # "ret"
  BY <1>1, ResumeCalls
<1>4. \A t \in Tasks \ byHand : \A d : Agrees(t, d) => Agrees(t, d)'
  BY <1>2, CallAgrees
<1> QED BY <1>1, <1>2, <1>3, <1>4, SchedulerStored DEF CallRefused

\* A commit registers what is stored.
LEMMA CommitStored ==
  ASSUME OneMutator, Invariant, Barrier, Stored, NEW c \in Callers, Commit(c),
         UNCHANGED <<mr, muts, byHand>>
  PROVE  Stored'
<1> USE NilAssumption
<1>1. /\ TypeOK /\ ReqOK(c) /\ Cleared(c) /\ cl[c] \in CallerRec
      /\ \A k \in Runs : RunOK(k)
  BY DEF Invariant, IInv, TypeOK, Requests, Barrier
<1>2. PICK q \in NextReg :
        /\ reg' = [reg EXCEPT ![q] = LoopReg(cl[c].task, cl[c].arg)]
        /\ tasks' = [tasks EXCEPT ![cl[c].task] = q]
  BY DEF Commit
<1>3. q \in Regs /\ reg[q].task = Nil
  BY <1>2, NextRegFresh
<1>4. /\ cl[c].pc = "replacing" /\ cl'[c].task = cl[c].task /\ cl'[c].arg = cl[c].arg
      /\ \A d \in Callers \ {c} : cl'[d] = cl[d]
      /\ running' = running /\ UNCHANGED <<file, run>>
  BY <1>1 DEF Commit, Returns, TypeOK, CallerRec
<1>5. PICK u, e : u = cl[c].task /\ e = cl[c].arg.def
  OBVIOUS
<1>6. /\ Replaces(c) /\ c \in Mutators /\ mr[c].step \in {"upserted", "restored"}
      /\ u \in Tasks /\ ~CallRefused(c)
  BY <1>1, <1>4, <1>5
     DEF ReqOK, PcOfStep, StepOfOp, Changes, Replaces, MutationSteps, CallerPc, Enabled,
         CallRefused
<1>7. \A r \in Regs : reg[r].task = u => ~Works(r)
  BY <1>1, <1>4, <1>5, <1>6 DEF Cleared, Behind, PastBarrier, Replaces
<1>8. /\ reg'[q].task = u /\ reg'[q].val.def = e /\ reg'[q].loop = "init"
      /\ \A r \in Regs \ {q} : reg'[r] = reg[r]
  BY <1>1, <1>2, <1>3, <1>5 DEF TypeOK, LoopReg, FreeReg
<1>9. \A r \in Regs \ {q} : Works(r)' <=> Works(r)
  BY <1>8 DEF Works, Idle
<1>10. Remembers(q, e)'
  <2>1. \A k \in Runs : run[k].pc = "saving" => run[k].reg # q
    BY <1>1, <1>3 DEF RunOK, Unfinished, InFlight
  <2> QED BY <1>4, <1>8, <2>1 DEF Remembers
<1>11. ASSUME NEW t \in Tasks, t # u, NEW d, Agrees(t, d)
       PROVE  Agrees(t, d)'
  <2>1. \A r \in Regs \ {q} : Remembers(r, d) => Remembers(r, d)'
    BY <1>4, <1>8 DEF Remembers
  <2> QED BY <1>4, <1>8, <1>9, <1>11, <2>1 DEF Agrees
<1>12. ASSUME u \notin byHand
       PROVE  Agrees(u, e)'
  <2>1. Agrees(u, e)
    BY <1>5, <1>6, <1>12 DEF Stored, Knows
  <2> QED BY <1>4, <1>7, <1>8, <1>9, <1>10, <2>1 DEF Agrees
<1>13. ASSUME NEW t \in Tasks \ byHand'
       PROVE  (\E d \in Defs \cup {Nil} : Agrees(t, d))' /\ Idled(t)'
  <2>1. t \in Tasks \ byHand
    OBVIOUS
  <2>2. (\E d \in Defs \cup {Nil} : Agrees(t, d)) /\ Idled(t)
    BY <2>1 DEF Stored
  <2>3. CASE t = u
    <3>1. e \in Defs
      BY <1>1, <1>5, <1>6 DEF ReqOK, Changes, Replaces, CallerRec, TaskVal, IInv, CallerOK,
                              Invariant
    <3>2. tasks'[t] # Nil
      BY <1>1, <1>2, <1>3, <1>5, <1>6, <2>3 DEF TypeOK
    <3> QED BY <1>12, <2>1, <2>3, <3>1, <3>2 DEF Idled
  <2>4. CASE t # u
    <3>1. tasks'[t] = tasks[t]
      BY <1>1, <1>2, <1>5, <2>4 DEF TypeOK
    <3>2. \A d \in Callers : Changes(d)' => Changes(d) /\ cl'[d].task = cl[d].task
      BY <1>4 DEF Changes
    <3>3. \A d \in Callers : Changes(d) => Changes(d)'
      BY DEF Changes
    <3>4. Idled(t)'
      BY <1>4, <2>2, <3>1, <3>2, <3>3 DEF Idled, Enabled
    <3> QED BY <1>11, <2>2, <2>4, <3>4
  <2> QED BY <2>3, <2>4
<1>14. ASSUME NEW d \in Callers, cl'[d].task \notin byHand'
       PROVE  Knows(d)'
  <2>1. CASE d = c
    <3>1. Agrees(u, e)'
      BY <1>4, <1>5, <1>12, <1>14, <2>1
    <3> QED BY <1>4, <1>5, <1>6, <2>1, <3>1 DEF Knows, Agrees, Replaces
  <2>2. CASE d # c
    <3>1. ~Changes(d)
      BY <1>6, <2>2 DEF OneMutator, Invariant, Requests, ReqOK
    <3> QED BY <3>1 DEF Knows, Changes, Replaces
  <2> QED BY <2>1, <2>2
<1>15. Filed'
  <2>1. ~StoreFaults => file[u] # Nil
    BY <1>5, <1>6 DEF Stored, Filed
  <2>2. \A t \in Tasks : tasks'[t] # Nil => t = u \/ tasks[t] # Nil
    BY <1>1, <1>2, <1>5 DEF TypeOK
  <2>3. \A d \in Callers : Replaces(d)' => Replaces(d) /\ cl'[d].task = cl[d].task
    BY <1>4 DEF Replaces
  <2>4. \A d \in Callers : mr'[d] = mr[d]
    BY <1>4
  <2> QED BY <1>4, <2>1, <2>2, <2>3, <2>4 DEF Stored, Filed
<1> QED BY <1>13, <1>14, <1>15 DEF Stored

\* The process starts with what it finds stored.
LEMMA StartStored ==
  ASSUME Invariant, DeadOK, Start, UNCHANGED <<mr, muts, byHand>>
  PROVE  Stored'
<1> USE NilAssumption
<1>1. life = "none" /\ UNCHANGED <<file, run, cl>>
  BY DEF Start
<1>2. \A c \in Callers : mr'[c] = NoRequest
  BY <1>1 DEF Invariant, Requests, ReqOK
<1> DEFINE T == {t \in Tasks : file[t] # Nil /\ Enabled(file[t])}
<1>3. PICK f \in Assignments(T) :
        /\ tasks' = [t \in Tasks |-> IF t \in DOMAIN f THEN f[t] ELSE Nil]
        /\ reg' = [q \in Regs |->
                    IF \E t \in DOMAIN f : f[t] = q
                    THEN LET t == CHOOSE u \in DOMAIN f : f[u] = q
                         IN  LoopReg(t, file[t])
                    ELSE reg[q]]
  BY DEF Start
<1>4. f \in [T -> FreshRegs]
  <2> DEFINE S == {g \in [T -> FreshRegs] : \A t, u \in T : g[t] = g[u] => t = u}
  <2>1. f \in OneOf(S)
    BY <1>3 DEF Assignments
  <2>2. S # {} /\ f \in S
    BY <2>1 DEF OneOf
  <2> QED BY <2>2
<1>5. \A t \in Tasks : tasks'[t] = Nil <=> t \notin T
  BY <1>3, <1>4 DEF FreshRegs
<1>6. ASSUME NEW r \in Regs, Works(r)'
      PROVE  \E t \in T : reg'[r] = LoopReg(t, file[t])
  <2>1. reg[r].loop = "none"
    BY <1>1 DEF DeadOK, Invariant, IInv, RegOK
  <2>2. \E t \in T : f[t] = r
    BY <1>3, <1>4, <1>6, <2>1 DEF Works
  <2> QED BY <1>3, <1>4, <2>2
<1>7. \A k \in Runs : run[k].pc # "saving"
  BY <1>1 DEF DeadOK, Invariant, IInv, RunOK, Unfinished, InFlight
<1>8. ASSUME NEW t \in Tasks
      PROVE  (\E d \in Defs \cup {Nil} : Agrees(t, d))' /\ Idled(t)'
  <2>1. ASSUME NEW r \in Regs, reg'[r].task = t, Works(r)'
        PROVE  t \in T /\ Remembers(r, file[t].def)'
    <3>1. PICK u \in T : reg'[r] = LoopReg(u, file[u])
      BY <1>6, <2>1
    <3>2. u = t /\ reg'[r].val = file[t] /\ reg'[r].loop = "init"
      BY <2>1, <3>1 DEF LoopReg, FreeReg
    <3> QED BY <1>1, <1>7, <3>1, <3>2 DEF Remembers
  <2>2. CASE file[t] = Nil
    <3>1. Agrees(t, Nil)'
      BY <1>1, <2>1, <2>2 DEF Agrees
    <3> QED BY <1>1, <2>2, <3>1 DEF Idled
  <2>3. CASE file[t] # Nil
    <3>1. PICK d \in Defs : d = file[t].def
      BY <2>3 DEF Invariant, IInv, TypeOK, TaskVal
    <3>2. Agrees(t, d)'
      BY <1>1, <2>1, <3>1 DEF Agrees, Remembers
    <3>3. Idled(t)'
      BY <1>1, <1>5, <2>3 DEF Idled, Enabled
    <3> QED BY <3>2, <3>3
  <2> QED BY <2>2, <2>3
<1>9. (\A c \in Callers : Knows(c)') /\ Filed'
  BY <1>1, <1>2, <1>5 DEF Knows, Filed, Replaces, NoRequest
<1> QED BY <1>8, <1>9 DEF Stored

\* No process runs: nothing is registered, and nobody asks for anything.
Empty ==
  /\ ~running /\ \A t \in Tasks : tasks[t] = Nil
  /\ \A r \in Regs : reg[r].loop = "none"
  /\ \A c \in Callers : mr[c] = NoRequest

\* With nothing registered, what is stored is all there is of a task.
LEMMA EmptyStored == TypeOK /\ Empty => Stored
<1> SUFFICES ASSUME TypeOK, Empty
             PROVE  Stored
  OBVIOUS
<1>1. ASSUME NEW t \in Tasks
      PROVE  (\E d \in Defs \cup {Nil} : Agrees(t, d)) /\ Idled(t)
  <2>1. CASE file[t] = Nil
    <3>1. Agrees(t, Nil)
      BY <2>1 DEF Agrees, Works, Empty
    <3> QED BY <3>1 DEF Idled, Empty
  <2>2. CASE file[t] # Nil
    <3>1. PICK d \in Defs : d = file[t].def
      BY <2>2 DEF TypeOK, TaskVal
    <3>2. Agrees(t, d)
      BY <3>1 DEF Agrees, Works, Empty
    <3> QED BY <3>2 DEF Idled, Empty
  <2> QED BY <2>1, <2>2
<1>2. (\A c \in Callers : Knows(c)) /\ Filed
  BY DEF Knows, Filed, Replaces, NoRequest, Empty
<1> QED BY <1>1, <1>2 DEF Stored

LEMMA StoredInit == MInit => Stored
<1>1. MInit => LoneInvariant
  BY LoneInvariantInit
<1>2. MInit => Empty
  BY DEF MInit, Init, FreeReg, Empty
<1> QED BY <1>1, <1>2, EmptyStored DEF LoneInvariant, Invariant, IInv

\* What is registered follows what is stored through every step of one client that
\* changes tasks, its rollbacks included, and of everybody else.
LEMMA StoredStep ==
  ASSUME OneMutator, LoneInvariant, LoneInvariant', Stored, [MNext]_mvars
  PROVE  Stored'
<1>1. /\ Invariant /\ Barrier /\ Accounted /\ IInv /\ IInv' /\ Looped' /\ TypeOK /\ TypeOK'
      /\ DeadOK
  BY DEF LoneInvariant, Invariant, IInv, Barrier, Looped
<1>2. CASE UNCHANGED mvars
  BY <1>2, SMTT(60) DEF mvars, vars, Stored, Agrees, Idled, Knows, Filed, Remembers, Works, Idle,
              CallRefused, Enabled, Changes, Replaces
<1>3. CASE MCrash
  <2>1. Empty'
    BY <1>3 DEF MCrash, Crash, FreeReg, Empty
  <2> QED BY <1>1, <2>1, EmptyStored, PTL
<1>4. CASE Background /\ UNCHANGED <<mr, muts, byHand>>
  <2>1. CASE Start
    BY <1>1, <1>4, <2>1, StartStored
  <2>2. CASE ~Start /\ \E c \in Callers : Commit(c)
    BY <1>1, <1>4, <2>2, CommitStored
  <2>3. CASE ~Start /\ ~(\E c \in Callers : Commit(c))
    <3>1. Next /\ ~Crash
      BY <1>1, <1>4, BackgroundLives DEF Background, Next
    <3>2. Shrinks
      BY <1>1, <2>3, <3>1, WorksStep DEF Shrinks
    <3> QED BY <1>1, <1>4, <2>3, <3>2, CallStored, WorkersStored DEF Background
  <2> QED BY <2>1, <2>2, <2>3
<1> QED BY <1>2, <1>3, <1>4, OwnStored DEF MNext

-----------------------------------------------------------------------------
(* What the requests leave behind them *)

\* All four layers.
StoredInvariant == LoneInvariant /\ Stored

\* When one client changes tasks, what is stored of a task and what works for it have
\* one definition at every moment, but for the tasks run by hand.
THEOREM StoredInvariantHolds == OneMutator => (MSpec => []StoredInvariant)
<1> SUFFICES ASSUME OneMutator
             PROVE  MSpec => []StoredInvariant
  OBVIOUS
<1>1. MInit => StoredInvariant
  BY LoneInvariantInit, StoredInit DEF StoredInvariant
<1>2. StoredInvariant /\ [MNext]_mvars => StoredInvariant'
  BY LoneInvariantStep, StoredStep DEF StoredInvariant
<1> QED BY <1>1, <1>2, PTL DEF MSpec

\* What is registered works.
LEMMA RegisteredWorks ==
  ASSUME IInv, NEW t \in Tasks, tasks[t] # Nil
  PROVE  tasks[t] \in Regs /\ reg[tasks[t]].task = t /\ Works(tasks[t])
BY DEF IInv, TypeOK, TasksAreLive, Works

\* Between requests a task that is registered is registered as it is stored, and one
\* that is stored but not registered is disabled (mutation_runner.go: Create, Update and
\* Delete, each with its rollback).
THEOREM RegisteredStaysStored == OneMutator => (MSpec => []RegisteredIsStored)
<1> SUFFICES ASSUME OneMutator
             PROVE  MSpec => []RegisteredIsStored
  OBVIOUS
<1>1. StoredInvariant => RegisteredIsStored
  <2> SUFFICES ASSUME StoredInvariant, \A c \in Callers : mr[c] = NoRequest, running,
                      NEW t \in Tasks \ byHand
               PROVE  IF tasks[t] = Nil
                      THEN file[t] # Nil => ~Enabled(file[t])
                      ELSE IF file[t] = Nil THEN StoreFaults
                           ELSE reg[tasks[t]].val.def = file[t].def
    BY DEF RegisteredIsStored
  <2>1. IInv /\ Idled(t) /\ Filed
    BY DEF StoredInvariant, LoneInvariant, Invariant, Stored
  <2>2. PICK d \in Defs \cup {Nil} : Agrees(t, d)
    BY DEF StoredInvariant, Stored
  <2>3. tasks[t] = Nil /\ file[t] # Nil => ~Enabled(file[t])
    BY <2>1 DEF Idled, Changes, NoRequest
  <2>4. tasks[t] # Nil /\ file[t] = Nil => StoreFaults
    BY <2>1 DEF Filed
  <2>5. tasks[t] # Nil /\ file[t] # Nil => reg[tasks[t]].val.def = file[t].def
    BY <2>1, <2>2, RegisteredWorks DEF Agrees, Remembers
  <2> QED BY <2>3, <2>4, <2>5
<1> QED BY <1>1, StoredInvariantHolds, PTL

\* A request that fails and rolls back leaves its task stored with the definition it
\* loaded, unless its own save of it failed, and, while the scheduler runs, registered
\* with that definition if it is enabled and not at all if not
\* (rollbackPersistedTaskUpdate, rollbackTaskDeletion and restoreTaskRegistration in
\* mutation_runner.go).
THEOREM RollbacksRestore == OneMutator => (MSpec => []RollbackRestores)
<1> SUFFICES ASSUME OneMutator
             PROVE  MSpec => []RollbackRestores
  OBVIOUS
<1>1. StoredInvariant => RollbackRestores
  <2> SUFFICES ASSUME StoredInvariant, NEW c \in Callers,
                      mr[c].step = "restored", cl[c].pc = "ret", cl[c].res = "ok",
                      cl[c].task \notin byHand, NEW t, t = cl[c].task
               PROVE  /\ IF file[t] = Nil THEN mr[c].unsaved
                         ELSE file[t].def = mr[c].prev.def
                      /\ IF running /\ Enabled(mr[c].prev)
                         THEN tasks[t] # Nil /\ reg[tasks[t]].val.def = mr[c].prev.def
                         ELSE tasks[t] = Nil
    BY DEF RollbackRestores
  <2>1. IInv /\ ReqOK(c) /\ Cleared(c) /\ Knows(c) /\ Filed
    BY DEF StoredInvariant, LoneInvariant, Invariant, Requests, Barrier, Stored
  <2>2. Replaces(c) /\ t \in Tasks /\ cl[c].arg = mr[c].prev
    BY <2>1 DEF ReqOK, StepOfOp, Changes, Replaces
  <2>3. Agrees(t, mr[c].prev.def)
    BY <2>1, <2>2 DEF Knows, CallRefused
  <2>4. file[t] = Nil => mr[c].unsaved
    BY <2>1, <2>2 DEF Filed
  <2>5. tasks[t] # Nil => reg[tasks[t]].val.def = mr[c].prev.def
    BY <2>1, <2>2, <2>3, RegisteredWorks DEF Agrees, Remembers
  <2>6. CASE running
    BY <2>1, <2>2, <2>3, <2>4, <2>5, <2>6 DEF Cleared, Agrees
  <2>7. CASE ~running
    <3>1. tasks[t] = Nil
      BY <2>1, <2>2, <2>7 DEF IInv, TasksAreLive
    <3> QED BY <2>3, <2>4, <2>7, <3>1 DEF Agrees
  <2> QED BY <2>6, <2>7
<1> QED BY <1>1, StoredInvariantHolds, PTL

=============================================================================
