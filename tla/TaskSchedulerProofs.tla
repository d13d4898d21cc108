------------------------ MODULE TaskSchedulerProofs ------------------------
(***************************************************************************)
(* The inductive invariant of TaskScheduler, for every value of the         *)
(* constants: one lemma per action, and under it the conjuncts of IInv that *)
(* the action can disturb.  Frames and the lemmas after it (CallerMoves,    *)
(* LoopMoves, RunMoves, RunBegins, RunIsSkipped, Retires) say once what a   *)
(* kind of step leaves alone.                                               *)
(*                                                                          *)
(* Then what the invariant gives: the safety properties of                  *)
(* TaskScheduler and its refinement of TaskRuns, with store faults and      *)
(* crashes; and what the scheduler's                                        *)
(* records say of a run: the answer of StopRun, the running logs on disk,   *)
(* and the one timer loop of a task.  For the latter two more invariants,   *)
(* both inductive together with IInv: Settled follows a run from its final  *)
(* outcome to the caller that reports it, Looped a registration from        *)
(* s.tasks to its retirement.                                               *)
(***************************************************************************)
EXTENDS TaskScheduler, TLAPS

\* stop() changes two flags of the registrations it is applied to, and no type.
LEMMA RetireType ==
  ASSUME TypeOK, NEW S \in SUBSET Regs
  PROVE  /\ Retire(S) \in [Regs -> RegRec]
         /\ \A q \in Regs : /\ Retire(S)[q].task = reg[q].task
                            /\ Retire(S)[q].val = reg[q].val
                            /\ Retire(S)[q].run = reg[q].run
                            /\ Retire(S)[q].loop = reg[q].loop
                            /\ Retire(S)[q].tmp = reg[q].tmp
                            /\ Retire(S)[q].retired = (reg[q].retired \/ q \in S)
<1>1. ASSUME NEW q \in Regs
      PROVE  /\ Retire(S)[q] \in RegRec
             /\ Retire(S)[q].task = reg[q].task
             /\ Retire(S)[q].val = reg[q].val
             /\ Retire(S)[q].run = reg[q].run
             /\ Retire(S)[q].loop = reg[q].loop
             /\ Retire(S)[q].tmp = reg[q].tmp
             /\ Retire(S)[q].retired = (reg[q].retired \/ q \in S)
  <2>1. reg[q] \in RegRec BY DEF TypeOK
  <2>2. CASE q \in S
    BY <2>1, <2>2 DEF Retire, RegRec
  <2>3. CASE q \notin S
    BY <2>1, <2>3 DEF Retire, RegRec
  <2> QED BY <2>2, <2>3
<1>2. Retire(S) = [q \in Regs |-> Retire(S)[q]]
  BY DEF Retire
<1> QED BY <1>1, <1>2

\* A call that is about to return has a well-typed record.
LEMMA ReturnsType ==
  ASSUME TypeOK, NEW c \in Callers, NEW res \in Results, Returns(c, res)
  PROVE  /\ cl' \in [Callers -> CallerRec]
         /\ cl'[c].pc = "ret" /\ cl'[c].drain = cl[c].drain
         /\ cl'[c].task = cl[c].task /\ cl'[c].arg = cl[c].arg /\ cl'[c].reg = cl[c].reg
         /\ \A d \in Callers : d # c => cl'[d] = cl[d]
<1>1. cl[c] \in CallerRec BY DEF TypeOK
<1>2. QED BY <1>1 DEF TypeOK, Returns, CallerRec, CallerPc

\* The identity chosen for a registration is an unused one.
LEMMA NextRegFresh ==
  ASSUME NEW r \in NextReg
  PROVE  r \in Regs /\ reg[r].task = Nil
<1>1. FreshRegs # {} /\ r \in FreshRegs
  BY DEF NextReg, OneOf
<1> QED BY <1>1 DEF FreshRegs

\* The identity chosen for a run is an unused one.
LEMMA NextRunFresh ==
  ASSUME NEW k \in NextRun
  PROVE  k \in Runs /\ run[k].pc = "unused"
<1>1. FreshRuns # {} /\ k \in FreshRuns
  BY DEF NextRun, OneOf
<1> QED BY <1>1 DEF FreshRuns

-----------------------------------------------------------------------------
(* What a step leaves of the invariant when it leaves some variables alone. *)

\* The parts of the invariant whose variables a step does not change still hold.
LEMMA Frames ==
  ASSUME IInv
  PROVE  /\ UNCHANGED <<running, tasks, reg>> => TasksAreLive'
         /\ UNCHANGED <<reg, run>> => \A r \in Regs : RegOK(r)'
         /\ UNCHANGED <<reg, run, active, logs>> => \A k \in Runs : RunOK(k)'
         /\ UNCHANGED <<cl, reg, run>> => \A c \in Callers : CallerOK(c)'
         /\ UNCHANGED <<cl, reg>> => \A c \in Callers : DrainOK(c)'
         /\ UNCHANGED cl => OneSkipper'
<1>1. /\ TasksAreLive /\ OneSkipper
      /\ \A r \in Regs : RegOK(r)
      /\ \A k \in Runs : RunOK(k)
      /\ \A c \in Callers : CallerOK(c) /\ DrainOK(c)
  BY DEF IInv
<1>2. UNCHANGED <<running, tasks, reg>> => TasksAreLive'
  BY <1>1 DEF TasksAreLive
<1>3. UNCHANGED <<reg, run>> => \A r \in Regs : RegOK(r)'
  BY <1>1 DEF RegOK, Unfinished, InFlight
<1>4. UNCHANGED <<reg, run, active, logs>> => \A k \in Runs : RunOK(k)'
  BY <1>1 DEF RunOK, Unfinished, InFlight
<1>5. UNCHANGED <<cl, reg, run>> => \A c \in Callers : CallerOK(c)'
  BY <1>1 DEF CallerOK
<1>6. UNCHANGED <<cl, reg>> => \A c \in Callers : DrainOK(c)'
  BY <1>1 DEF DrainOK, Idle
<1>7. UNCHANGED cl => OneSkipper'
  BY <1>1 DEF OneSkipper
<1> QED BY <1>2, <1>3, <1>4, <1>5, <1>6, <1>7

\* A step of one caller that changes nothing but its own record.
LEMMA CallerMoves ==
  ASSUME IInv, NEW c \in Callers, TypeOK',
         UNCHANGED <<running, tasks, reg, run, active, logs>>,
         \A d \in Callers \ {c} : cl'[d] = cl[d],
         CallerOK(c)', DrainOK(c)', cl'[c].pc # "skip"
  PROVE  IInv'
<1>1. OneSkipper /\ \A d \in Callers : CallerOK(d) /\ DrainOK(d)
  BY DEF IInv
<1>2. ASSUME NEW d \in Callers \ {c} PROVE CallerOK(d)' /\ DrainOK(d)'
  BY <1>1, <1>2 DEF CallerOK, DrainOK, Idle
<1>3. OneSkipper'
  BY <1>1 DEF OneSkipper
<1> QED BY <1>2, <1>3, Frames DEF IInv

\* A call that has waited for its registrations, if any, is about to return.
LEMMA CallReturns ==
  ASSUME IInv, NEW c \in Callers, NEW res \in Results, Returns(c, res),
         UNCHANGED <<running, life, tasks, reg, run, active, file, logs,
                     calls, fires, crashes>>,
         \A r \in cl[c].drain : Idle(r)
  PROVE  IInv'
<1>1. TypeOK /\ CallerOK(c) /\ DrainOK(c)
  BY DEF IInv
<1>2. cl[c] \in CallerRec
  BY <1>1 DEF TypeOK
<1>3. /\ cl' \in [Callers -> CallerRec]
      /\ cl'[c].pc = "ret" /\ cl'[c].drain = cl[c].drain
      /\ cl'[c].task = cl[c].task /\ cl'[c].arg = cl[c].arg /\ cl'[c].reg = cl[c].reg
      /\ \A d \in Callers \ {c} : cl'[d] = cl[d]
  BY <1>1, <1>2 DEF TypeOK, Returns, CallerRec, CallerPc
<1>4. TypeOK'
  BY <1>1, <1>3 DEF TypeOK
<1>5. CallerOK(c)' /\ DrainOK(c)'
  BY <1>1, <1>3 DEF CallerOK, DrainOK, Idle
<1> QED BY <1>3, <1>4, <1>5, CallerMoves

\* A step of one loop that changes nothing but where it is and what it remembers.
LEMMA LoopMoves ==
  ASSUME IInv, NEW r \in Regs, TypeOK',
         UNCHANGED <<running, tasks, run, active, logs, cl>>,
         \A q \in Regs \ {r} : reg'[q] = reg[q],
         reg'[r].task = reg[r].task, reg'[r].retired = reg[r].retired,
         reg'[r].run = reg[r].run,
         reg[r].loop \notin {"none", "exited"}, reg'[r].loop # "none",
         reg'[r].val = reg[r].val,
         reg'[r].loop \in {"save", "fired"} => reg'[r].tmp \in TaskVal
  PROVE  IInv'
<1>1. /\ TypeOK /\ TasksAreLive
      /\ \A q \in Regs : RegOK(q)
      /\ \A k \in Runs : RunOK(k)
      /\ \A c \in Callers : CallerOK(c) /\ DrainOK(c)
  BY DEF IInv
<1>2. /\ \A q \in Regs : /\ reg'[q].task = reg[q].task
                         /\ reg'[q].retired = reg[q].retired
                         /\ reg'[q].run = reg[q].run
                         /\ reg'[q].val = reg[q].val
                         /\ reg'[q].loop = "none" <=> reg[q].loop = "none"
                         /\ Idle(q) => Idle(q)'
  BY DEF Idle
<1>3. TasksAreLive'
  BY <1>1, <1>2 DEF TypeOK, TasksAreLive
<1>4. ASSUME NEW q \in Regs PROVE RegOK(q)'
  <2>1. reg'[q].loop \in {"save", "fired"} => reg'[q].tmp \in TaskVal
    BY <1>1 DEF RegOK
  <2> QED BY <1>1, <1>2, <2>1 DEF RegOK, Unfinished, InFlight
<1>5. ASSUME NEW k \in Runs PROVE RunOK(k)'
  BY <1>1, <1>2 DEF RunOK, Unfinished, InFlight
<1>6. ASSUME NEW c \in Callers PROVE CallerOK(c)' /\ DrainOK(c)'
  <2>1. cl[c] \in CallerRec /\ CallerOK(c) /\ DrainOK(c)
    BY <1>1 DEF TypeOK
  <2>2. (cl[c].reg # Nil => cl[c].reg \in Regs) /\ cl[c].drain \in SUBSET Regs
    BY <2>1 DEF CallerRec
  <2> QED BY <1>2, <2>1, <2>2 DEF CallerOK, DrainOK
<1> QED BY <1>3, <1>4, <1>5, <1>6, Frames DEF IInv

\* A step of one run, which keeps its task and its registration, and touches its
\* own slot and its own log at most.
LEMMA RunMoves ==
  ASSUME IInv, NEW k \in Runs, TypeOK',
         UNCHANGED <<running, tasks, reg, cl>>,
         \A j \in Runs \ {k} : run'[j] = run[j] /\ logs'[j] = logs[j],
         \A j \in Runs \ {k} : InFlight(j) => active'[run[j].task] = active[run[j].task],
         run[k].pc \notin {"unused", "skip"}, run'[k].pc # "unused",
         run'[k].task = run[k].task, run'[k].reg = run[k].reg,
         Unfinished(k), Unfinished(k)',
         run'[k].pc = "saving" => run'[k].upd \in TaskVal,
         run'[k].pc \in {"saving", "logging"} => run'[k].status \in FinalStatus,
         InFlight(k)' => active'[run[k].task] = k,
         logs'[k] \in FinalStatus => run'[k].pc \in {"finishing", "releasing"}
  PROVE  IInv'
<1>1. /\ \A r \in Regs : RegOK(r)
      /\ \A j \in Runs : RunOK(j)
      /\ \A c \in Callers : CallerOK(c)
  BY DEF IInv
<1>2. ASSUME NEW r \in Regs PROVE RegOK(r)'
  BY <1>1, TypeOK' DEF TypeOK, RegRec, RegOK, Unfinished, InFlight
<1>3. ASSUME NEW j \in Runs PROVE RunOK(j)'
  <2>1. CASE j = k
    BY <1>1, <2>1 DEF RunOK, Unfinished, InFlight
  <2>2. CASE j # k
    BY <1>1, <2>2 DEF RunOK, Unfinished, InFlight
  <2> QED BY <2>1, <2>2
<1>4. ASSUME NEW c \in Callers PROVE CallerOK(c)'
  BY <1>1 DEF CallerOK
<1> QED BY <1>2, <1>3, <1>4, Frames DEF IInv

-----------------------------------------------------------------------------
(* Callers *)

\* Load preserves the inductive invariant.
LEMMA LoadKeeps ==
  ASSUME IInv, NEW c \in Callers, NEW t \in Tasks, Load(c, t)
  PROVE  IInv'
<1>1. TypeOK /\ DrainOK(c) /\ CallerOK(c) /\ cl[c] \in CallerRec
  BY DEF IInv, TypeOK
<1>2. file[t] \in TaskVal
  BY <1>1 DEF Load, TypeOK
<1>3. TypeOK'
  BY <1>1, <1>2 DEF TypeOK, Load, CallerRec
<1>4. CallerOK(c)' /\ DrainOK(c)'
  BY <1>1, <1>2 DEF TypeOK, CallerOK, DrainOK, Load
<1> QED BY <1>1, <1>3, <1>4, CallerMoves DEF TypeOK, Load

\* Save preserves the inductive invariant.
LEMMA SaveKeeps ==
  ASSUME IInv, NEW c \in Callers, NEW t \in Tasks, NEW v \in TaskVal, Save(c, t, v)
  PROVE  IInv'
<1>1. TypeOK /\ DrainOK(c) /\ CallerOK(c) /\ cl[c] \in CallerRec
  BY DEF IInv, TypeOK
<1>2. TypeOK'
  <2>1. cl' \in [Callers -> CallerRec]
    BY <1>1 DEF TypeOK, Save, CallerRec
  <2>2. file' \in [Tasks -> TaskVal \cup {Nil}]
    BY <1>1 DEF TypeOK, Save
  <2> QED BY <1>1, <2>1, <2>2 DEF TypeOK, Save, Issue
<1>3. CallerOK(c)' /\ DrainOK(c)'
  BY <1>1 DEF TypeOK, CallerOK, DrainOK, Save, Issue
<1> QED BY <1>1, <1>2, <1>3, CallerMoves DEF TypeOK, Save, Issue

\* Deleting a log can only make it absent.
LEMMA DeleteKeeps ==
  ASSUME IInv, NEW c \in Callers, NEW t \in Tasks, Delete(c, t)
  PROVE  IInv'
<1>1. TypeOK /\ \A k \in Runs : RunOK(k)
  BY DEF IInv
<1>2. logs' \in [Runs -> Status] /\ \A k \in Runs : logs'[k] \in {"none", logs[k]}
  BY <1>1 DEF TypeOK, Delete, Erased, Attempt, Status
<1>3. TypeOK'
  BY <1>1, <1>2, NilAssumption DEF TypeOK, Delete, Issue
<1>4. ASSUME NEW k \in Runs PROVE RunOK(k)'
  BY <1>1, <1>2 DEF RunOK, Delete, Unfinished, InFlight, FinalStatus
<1> QED BY <1>3, <1>4, Frames DEF IInv, Delete

\* Refused preserves the inductive invariant.
LEMMA RefusedKeeps ==
  ASSUME IInv, NEW c \in Callers, NEW op \in OpNames, Refused(c, op)
  PROVE  IInv'
<1>1. TypeOK /\ DrainOK(c) /\ CallerOK(c) /\ cl[c] \in CallerRec
  BY DEF IInv, TypeOK
<1>2. TypeOK'
  <2>1. cl' \in [Callers -> CallerRec]
    BY <1>1, ZenonT(60) DEF TypeOK, Refused, CallerRec, CallerPc, Results
  <2> QED BY <1>1, <2>1 DEF TypeOK, Refused, Issue
<1>3. CallerOK(c)' /\ DrainOK(c)'
  BY <1>1 DEF TypeOK, CallerOK, DrainOK, Refused, Issue
<1> QED BY <1>1, <1>2, <1>3, CallerMoves DEF TypeOK, Refused

\* Manual preserves the inductive invariant.
LEMMA ManualKeeps ==
  ASSUME IInv, NEW c \in Callers, NEW op \in OpNames, Manual(c, op)
  PROVE  IInv'
<1> USE NilAssumption
<1>1. TypeOK /\ TasksAreLive /\ DrainOK(c) /\ CallerOK(c) /\ cl[c] \in CallerRec
  BY DEF IInv, TypeOK
<1>2. /\ cl[c].task \in Tasks /\ tasks[cl[c].task] \in Regs \cup {Nil}
      /\ tasks[cl[c].task] # Nil => reg[tasks[cl[c].task]].task # Nil
  BY <1>1 DEF TypeOK, TasksAreLive, CallerRec, Manual
<1>3. TypeOK'
  <2>1. cl' \in [Callers -> CallerRec]
    BY <1>1, <1>2 DEF TypeOK, Manual, CallerRec, CallerPc
  <2> QED BY <1>1, <2>1 DEF TypeOK, Manual, Issue
<1>4. CallerOK(c)' /\ DrainOK(c)'
  BY <1>1, <1>2 DEF TypeOK, CallerOK, DrainOK, Manual, Issue
<1> QED BY <1>1, <1>3, <1>4, CallerMoves DEF TypeOK, Manual

\* StopRun preserves the inductive invariant.
LEMMA StopRunKeeps ==
  ASSUME IInv, NEW c \in Callers, NEW k \in Runs, StopRun(c, k)
  PROVE  IInv'
<1>1. TypeOK /\ RunOK(k) /\ DrainOK(c) /\ CallerOK(c) /\ cl[c] \in CallerRec
  BY DEF IInv, TypeOK
<1>2. TypeOK'
  <2>1. cl' \in [Callers -> CallerRec]
    BY <1>1 DEF TypeOK, StopRun, CallerRec, CallerPc, OpNames
  <2> QED BY <1>1, <2>1 DEF TypeOK, StopRun, Issue
<1>3. CallerOK(c)' /\ DrainOK(c)'
  BY <1>1 DEF TypeOK, CallerOK, DrainOK, RunOK, StopRun, Issue
<1> QED BY <1>1, <1>2, <1>3, CallerMoves DEF TypeOK, StopRun

\* StopRunMisses preserves the inductive invariant.
LEMMA StopRunMissesKeeps ==
  ASSUME IInv, NEW c \in Callers, NEW k \in Runs, StopRunMisses(c, k)
  PROVE  IInv'
<1>1. TypeOK /\ DrainOK(c) /\ CallerOK(c) /\ cl[c] \in CallerRec
  BY DEF IInv, TypeOK
<1>2. TypeOK'
  <2>1. cl' \in [Callers -> CallerRec]
    BY <1>1, ZenonT(60) DEF TypeOK, StopRunMisses, CallerRec, CallerPc, OpNames, Results
  <2> QED BY <1>1, <2>1 DEF TypeOK, StopRunMisses, Issue
<1>3. CallerOK(c)' /\ DrainOK(c)'
  BY <1>1 DEF TypeOK, CallerOK, DrainOK, StopRunMisses, Issue
<1> QED BY <1>1, <1>2, <1>3, CallerMoves DEF TypeOK, StopRunMisses

\* CancelLifecycle preserves the inductive invariant.
LEMMA CancelLifecycleKeeps ==
  ASSUME IInv, NEW c \in Callers, CancelLifecycle(c)
  PROVE  IInv'
<1>1. TypeOK /\ DrainOK(c) /\ CallerOK(c) /\ cl[c] \in CallerRec
  BY DEF IInv, TypeOK
<1>2. TypeOK'
  BY <1>1 DEF TypeOK, CancelLifecycle, CallerRec, CallerPc
<1>3. CallerOK(c)' /\ DrainOK(c)'
  BY <1>1 DEF TypeOK, CallerOK, DrainOK, CancelLifecycle
<1> QED BY <1>1, <1>2, <1>3, CallerMoves DEF TypeOK, CancelLifecycle

\* Return preserves the inductive invariant.
LEMMA ReturnKeeps ==
  ASSUME IInv, NEW c \in Callers, Return(c)
  PROVE  IInv'
<1> USE NilAssumption
<1>1. TypeOK /\ CallerOK(c) /\ cl[c] \in CallerRec
  BY DEF IInv, TypeOK
<1>2. TypeOK'
  BY <1>1 DEF TypeOK, Return, IdleCaller, CallerRec, CallerPc, Results
<1>3. CallerOK(c)' /\ DrainOK(c)'
  BY <1>1 DEF TypeOK, CallerOK, DrainOK, Return, IdleCaller
<1> QED BY <1>1, <1>2, <1>3, CallerMoves DEF TypeOK, Return, IdleCaller

\* The waits: of Unregister, Upsert and Stop, ...
LEMMA WaitEndsKeeps ==
  ASSUME IInv, NEW c \in Callers, Drained(c) \/ CommitRefused(c)
  PROVE  IInv'
<1>1. CASE Drained(c)
  BY <1>1, CallReturns DEF Drained, Results
<1>2. CASE CommitRefused(c)
  BY <1>2, CallReturns DEF CommitRefused, Results
<1> QED BY <1>1, <1>2

\* ... of RunNow and StartNow, and of StopRun.
LEMMA RunAnswerKeeps ==
  ASSUME IInv, NEW c \in Callers,
         RunNowDone(c) \/ StartNowDone(c) \/ StopRunDone(c) \/ StopRunTimeout(c)
  PROVE  IInv'
<1>1. TypeOK /\ CallerOK(c) /\ DrainOK(c)
  BY DEF IInv
<1>2. cl[c].pc \in {"run", "start", "await"} /\ cl[c].drain = {}
  BY <1>1 DEF RunNowDone, StartNowDone, StopRunDone, StopRunTimeout, DrainOK
<1>3. run[cl[c].run].final \in FinalStatus \cup {"none"}
  BY <1>1, <1>2 DEF TypeOK, CallerOK, RunRec
<1>4. CASE RunNowDone(c)
  <2> DEFINE res == IF run[cl[c].run].failed THEN "error" ELSE run[cl[c].run].final
  <2>1. res \in Results /\ Returns(c, res)
    BY <1>2, <1>3, <1>4 DEF RunNowDone, Results, FinalStatus
  <2> HIDE DEF res
  <2> QED BY <1>2, <1>4, <2>1, CallReturns DEF RunNowDone
<1>5. CASE StartNowDone(c)
  <2> DEFINE res == IF run[cl[c].run].started THEN "running" ELSE "error"
  <2>1. res \in Results /\ Returns(c, res)
    BY <1>2, <1>5 DEF StartNowDone, Results, FinalStatus
  <2> HIDE DEF res
  <2> QED BY <1>2, <1>5, <2>1, CallReturns DEF StartNowDone
<1>6. CASE StopRunDone(c)
  BY <1>2, <1>3, <1>6, CallReturns DEF StopRunDone, Results
<1>7. CASE StopRunTimeout(c)
  BY <1>2, <1>7, CallReturns DEF StopRunTimeout, Results
<1> QED BY <1>4, <1>5, <1>6, <1>7

\* CancelRun preserves the inductive invariant.
LEMMA CancelRunKeeps ==
  ASSUME IInv, NEW c \in Callers, CancelRun(c)
  PROVE  IInv'
<1>1. /\ TypeOK /\ OneSkipper
      /\ \A r \in Regs : RegOK(r)
      /\ \A k \in Runs : RunOK(k)
      /\ \A d \in Callers : CallerOK(d) /\ DrainOK(d)
  BY DEF IInv
<1>2. cl[c] \in CallerRec /\ cl[c].run \in Runs /\ run[cl[c].run] \in RunRec
  BY <1>1 DEF TypeOK, CallerOK, CancelRun
<1>3. TypeOK'
  <2>1. cl' \in [Callers -> CallerRec]
    BY <1>1, <1>2 DEF TypeOK, CancelRun, CallerRec, CallerPc
  <2>2. run' \in [Runs -> RunRec]
    BY <1>1, <1>2 DEF TypeOK, CancelRun, RunRec
  <2> QED BY <1>1, <2>1, <2>2 DEF TypeOK, CancelRun
<1>4. ASSUME NEW k \in Runs
      PROVE  /\ run'[k].pc = run[k].pc /\ run'[k].task = run[k].task
             /\ run'[k].reg = run[k].reg /\ run'[k].upd = run[k].upd
             /\ run'[k].status = run[k].status
  BY <1>1, <1>2 DEF TypeOK, CancelRun, RunRec
<1>5. ASSUME NEW r \in Regs PROVE RegOK(r)'
  <2>1. reg[r].run # Nil => reg[r].run \in Runs
    BY <1>1 DEF TypeOK, RegRec
  <2> QED BY <1>1, <1>4, <2>1 DEF RegOK, Unfinished, InFlight, CancelRun
<1>6. ASSUME NEW k \in Runs PROVE RunOK(k)'
  <2>1. RunOK(k) /\ UNCHANGED <<reg, active, crashes, logs, calls, fires, life, tasks>>
    BY <1>1 DEF CancelRun
  <2> QED BY <1>4, <2>1 DEF RunOK, Unfinished, InFlight
<1>7. ASSUME NEW d \in Callers PROVE CallerOK(d)' /\ DrainOK(d)'
  <2>1. /\ cl'[d].task = cl[d].task /\ cl'[d].arg = cl[d].arg
        /\ cl'[d].reg = cl[d].reg /\ cl'[d].run = cl[d].run
        /\ cl'[d].drain = cl[d].drain
        /\ cl'[d].pc = IF d = c THEN "await" ELSE cl[d].pc
    BY <1>1, <1>2 DEF TypeOK, CallerRec, CancelRun
  <2> QED BY <1>1, <1>2, <1>4, <2>1 DEF CallerOK, DrainOK, Idle, CancelRun
<1>8. OneSkipper'
  BY <1>1, <1>2 DEF TypeOK, CallerRec, OneSkipper, CancelRun
<1> QED BY <1>3, <1>5, <1>6, <1>7, <1>8, Frames DEF IInv, CancelRun

-----------------------------------------------------------------------------
(* Timer loops *)

\* Persist preserves the inductive invariant.
LEMMA PersistKeeps ==
  ASSUME IInv, NEW r \in Regs, Persist(r)
  PROVE  IInv'
<1> USE NilAssumption
<1>1. TypeOK /\ RegOK(r) /\ reg[r] \in RegRec
  BY DEF IInv, TypeOK
<1>2. reg[r].task \in Tasks /\ reg[r].val \in TaskVal
  BY <1>1 DEF RegRec, RegOK, Persist, MayPersist
<1>3. TypeOK'
  <2>1. reg' \in [Regs -> RegRec]
    BY <1>1, <1>2 DEF TypeOK, Persist, RegRec, LoopPc
  <2> QED BY <1>1, <2>1 DEF TypeOK, Persist
<1> QED BY <1>1, <1>2, <1>3, LoopMoves DEF TypeOK, RegRec, Persist, MayPersist

\* PersistLater preserves the inductive invariant.
LEMMA PersistLaterKeeps ==
  ASSUME IInv, NEW r \in Regs, PersistLater(r)
  PROVE  IInv'
<1> USE NilAssumption
<1>1. TypeOK /\ RegOK(r) /\ reg[r] \in RegRec
  BY DEF IInv, TypeOK
<1>2. TypeOK'
  <2>1. reg' \in [Regs -> RegRec]
    BY <1>1 DEF TypeOK, PersistLater, RegRec, LoopPc
  <2> QED BY <1>1, <2>1 DEF TypeOK, PersistLater
<1> QED BY <1>1, <1>2, LoopMoves DEF TypeOK, RegRec, PersistLater, MayPersist

\* PersistSave preserves the inductive invariant.
LEMMA PersistSaveKeeps ==
  ASSUME IInv, NEW r \in Regs, PersistSave(r)
  PROVE  IInv'
<1> USE NilAssumption
<1>1. TypeOK /\ RegOK(r) /\ reg[r] \in RegRec
  BY DEF IInv, TypeOK
<1>2. reg[r].task \in Tasks /\ reg[r].val \in TaskVal
  BY <1>1 DEF RegRec, RegOK, PersistSave
<1>3. TypeOK'
  <2>1. reg' \in [Regs -> RegRec]
    BY <1>1, <1>2 DEF TypeOK, PersistSave, RegRec, LoopPc
  <2>2. file' \in [Tasks -> TaskVal \cup {Nil}]
    BY <1>1, <1>2 DEF TypeOK, RegOK, PersistSave, Attempt
  <2> QED BY <1>1, <2>1, <2>2 DEF TypeOK, PersistSave
<1> QED BY <1>1, <1>2, <1>3, LoopMoves DEF TypeOK, RegRec, PersistSave

\* Fire preserves the inductive invariant.
LEMMA FireKeeps ==
  ASSUME IInv, NEW r \in Regs, Fire(r)
  PROVE  IInv'
<1> USE NilAssumption
<1>1. TypeOK /\ RegOK(r) /\ reg[r] \in RegRec
  BY DEF IInv, TypeOK
<1>2. reg[r].task \in Tasks /\ reg[r].val \in TaskVal
  BY <1>1 DEF RegRec, RegOK, Fire
<1>3. TypeOK'
  <2>1. reg' \in [Regs -> RegRec]
    BY <1>1, <1>2 DEF TypeOK, Fire, RegRec, LoopPc
  <2> QED BY <1>1, <2>1 DEF TypeOK, Fire
<1> QED BY <1>1, <1>2, <1>3, LoopMoves DEF TypeOK, RegRec, Fire

\* FireRetired preserves the inductive invariant.
LEMMA FireRetiredKeeps ==
  ASSUME IInv, NEW r \in Regs, FireRetired(r)
  PROVE  IInv'
<1> USE NilAssumption
<1>1. TypeOK /\ RegOK(r) /\ reg[r] \in RegRec
  BY DEF IInv, TypeOK
<1>2. TypeOK'
  <2>1. reg' \in [Regs -> RegRec]
    BY <1>1 DEF TypeOK, FireRetired, RegRec, LoopPc
  <2> QED BY <1>1, <2>1 DEF TypeOK, FireRetired
<1> QED BY <1>1, <1>2, LoopMoves DEF TypeOK, RegRec, FireRetired

\* LoopExit preserves the inductive invariant.
LEMMA LoopExitKeeps ==
  ASSUME IInv, NEW r \in Regs, LoopExit(r)
  PROVE  IInv'
<1> USE NilAssumption
<1>1. TypeOK /\ RegOK(r) /\ reg[r] \in RegRec
  BY DEF IInv, TypeOK
<1>2. TypeOK'
  <2>1. reg' \in [Regs -> RegRec]
    BY <1>1 DEF TypeOK, LoopExit, RegRec, LoopPc
  <2> QED BY <1>1, <2>1 DEF TypeOK, LoopExit
<1> QED BY <1>1, <1>2, LoopMoves DEF TypeOK, RegRec, LoopExit

-----------------------------------------------------------------------------
(* Run goroutines *)

\* RegisterActive preserves the inductive invariant.
LEMMA RegisterActiveKeeps ==
  ASSUME IInv, NEW k \in Runs, RegisterActive(k)
  PROVE  IInv'
<1> USE NilAssumption
<1>1. /\ TypeOK /\ RunOK(k) /\ run[k] \in RunRec
      /\ \A j \in Runs : RunOK(j)
  BY DEF IInv, TypeOK
<1>2. TypeOK'
  <2>1. run' \in [Runs -> RunRec]
    BY <1>1 DEF TypeOK, RegisterActive, RunOK, SlotFree, RunRec, RunPc, FinalStatus
  <2>2. active' \in [Tasks -> Runs \cup {Nil}]
    BY <1>1 DEF TypeOK, RegisterActive, RunOK, SlotFree, RunRec
  <2> QED BY <1>1, <2>1, <2>2 DEF TypeOK, RegisterActive
<1>3. /\ \A j \in Runs \ {k} : run'[j] = run[j] /\ logs'[j] = logs[j]
      /\ \A j \in Runs \ {k} :
           InFlight(j) => active'[run[j].task] = active[run[j].task]
  BY <1>1 DEF TypeOK, RegisterActive, SlotFree, RunOK, InFlight, Unfinished
<1> QED BY <1>1, <1>2, <1>3, RunMoves
        DEF TypeOK, RegisterActive, SlotFree, RunOK, RunRec, InFlight, Unfinished, FinalStatus

\* RejectActive preserves the inductive invariant.
LEMMA RejectActiveKeeps ==
  ASSUME IInv, NEW k \in Runs, RejectActive(k)
  PROVE  IInv'
<1> USE NilAssumption
<1>1. /\ TypeOK /\ RunOK(k) /\ run[k] \in RunRec
      /\ \A j \in Runs : RunOK(j)
  BY DEF IInv, TypeOK
<1>2. TypeOK'
  <2>1. run' \in [Runs -> RunRec]
    BY <1>1 DEF TypeOK, RejectActive, RunOK, RunRec, RunPc, FinalStatus
  <2> QED BY <1>1, <2>1 DEF TypeOK, RejectActive
<1>3. /\ \A j \in Runs \ {k} : run'[j] = run[j] /\ logs'[j] = logs[j]
      /\ \A j \in Runs \ {k} :
           InFlight(j) => active'[run[j].task] = active[run[j].task]
  BY <1>1 DEF TypeOK, RejectActive, RunOK, InFlight, Unfinished
<1> QED BY <1>1, <1>2, <1>3, RunMoves
        DEF TypeOK, RejectActive, RunOK, RunRec, InFlight, Unfinished, FinalStatus

\* StartLog preserves the inductive invariant.
LEMMA StartLogKeeps ==
  ASSUME IInv, NEW k \in Runs, StartLog(k)
  PROVE  IInv'
<1> USE NilAssumption
<1>1. /\ TypeOK /\ RunOK(k) /\ run[k] \in RunRec
      /\ \A j \in Runs : RunOK(j)
  BY DEF IInv, TypeOK
<1>2. TypeOK'
  <2>1. run' \in [Runs -> RunRec]
    BY <1>1 DEF TypeOK, StartLog, RunOK, RunRec, RunPc, FinalStatus
  <2>2. logs' \in [Runs -> Status]
    BY <1>1 DEF TypeOK, StartLog, RunOK, Status, FinalStatus
  <2> QED BY <1>1, <2>1, <2>2 DEF TypeOK, StartLog
<1>3. /\ \A j \in Runs \ {k} : run'[j] = run[j] /\ logs'[j] = logs[j]
      /\ \A j \in Runs \ {k} :
           InFlight(j) => active'[run[j].task] = active[run[j].task]
  BY <1>1 DEF TypeOK, StartLog, RunOK, InFlight, Unfinished
<1> QED BY <1>1, <1>2, <1>3, RunMoves
        DEF TypeOK, StartLog, RunOK, RunRec, InFlight, Unfinished, FinalStatus

\* StartLogFails preserves the inductive invariant.
LEMMA StartLogFailsKeeps ==
  ASSUME IInv, NEW k \in Runs, StartLogFails(k)
  PROVE  IInv'
<1> USE NilAssumption
<1>1. /\ TypeOK /\ RunOK(k) /\ run[k] \in RunRec
      /\ \A j \in Runs : RunOK(j)
  BY DEF IInv, TypeOK
<1>2. TypeOK'
  <2>1. run' \in [Runs -> RunRec]
    BY <1>1 DEF TypeOK, StartLogFails, RunOK, Unslot, RunRec, RunPc, FinalStatus
  <2>2. active' \in [Tasks -> Runs \cup {Nil}]
    BY <1>1 DEF TypeOK, StartLogFails, RunOK, Unslot, RunRec
  <2> QED BY <1>1, <2>1, <2>2 DEF TypeOK, StartLogFails
<1>3. /\ \A j \in Runs \ {k} : run'[j] = run[j] /\ logs'[j] = logs[j]
      /\ \A j \in Runs \ {k} :
           InFlight(j) => active'[run[j].task] = active[run[j].task]
  BY <1>1 DEF TypeOK, StartLogFails, Unslot, RunOK, InFlight, Unfinished
<1> QED BY <1>1, <1>2, <1>3, RunMoves
        DEF TypeOK, StartLogFails, Unslot, RunOK, RunRec, InFlight, Unfinished, FinalStatus

\* Progress preserves the inductive invariant.
LEMMA ProgressKeeps ==
  ASSUME IInv, NEW k \in Runs, Progress(k)
  PROVE  IInv'
<1> USE NilAssumption
<1>1. /\ TypeOK /\ RunOK(k) /\ run[k] \in RunRec
      /\ \A j \in Runs : RunOK(j)
  BY DEF IInv, TypeOK
<1>2. TypeOK'
  <2>1. logs' \in [Runs -> Status]
    BY <1>1 DEF TypeOK, Progress, RunOK, MayReport, Status, FinalStatus
  <2> QED BY <1>1, <2>1 DEF TypeOK, Progress
<1>3. /\ \A j \in Runs \ {k} : run'[j] = run[j] /\ logs'[j] = logs[j]
      /\ \A j \in Runs \ {k} :
           InFlight(j) => active'[run[j].task] = active[run[j].task]
  BY <1>1 DEF TypeOK, Progress, MayReport, RunOK, InFlight, Unfinished
<1> QED BY <1>1, <1>2, <1>3, RunMoves
        DEF TypeOK, Progress, MayReport, RunOK, RunRec, InFlight, Unfinished, FinalStatus

\* SaveResult preserves the inductive invariant.
LEMMA SaveResultKeeps ==
  ASSUME IInv, NEW k \in Runs, SaveResult(k)
  PROVE  IInv'
<1> USE NilAssumption
<1>1. /\ TypeOK /\ RunOK(k) /\ run[k] \in RunRec
      /\ \A j \in Runs : RunOK(j)
  BY DEF IInv, TypeOK
<1>2. TypeOK'
  <2>1. run' \in [Runs -> RunRec]
    BY <1>1 DEF TypeOK, SaveResult, RunOK, RunRec, RunPc, FinalStatus
  <2>2. file' \in [Tasks -> TaskVal \cup {Nil}]
    BY <1>1 DEF TypeOK, SaveResult, RunOK, RunRec
  <2> QED BY <1>1, <2>1, <2>2 DEF TypeOK, SaveResult
<1>3. /\ \A j \in Runs \ {k} : run'[j] = run[j] /\ logs'[j] = logs[j]
      /\ \A j \in Runs \ {k} :
           InFlight(j) => active'[run[j].task] = active[run[j].task]
  BY <1>1 DEF TypeOK, SaveResult, RunOK, InFlight, Unfinished
<1> QED BY <1>1, <1>2, <1>3, RunMoves
        DEF TypeOK, SaveResult, RunOK, RunRec, InFlight, Unfinished, FinalStatus

\* SaveResultFails preserves the inductive invariant.
LEMMA SaveResultFailsKeeps ==
  ASSUME IInv, NEW k \in Runs, SaveResultFails(k)
  PROVE  IInv'
<1> USE NilAssumption
<1>1. /\ TypeOK /\ RunOK(k) /\ run[k] \in RunRec
      /\ \A j \in Runs : RunOK(j)
  BY DEF IInv, TypeOK
<1>2. TypeOK'
  <2>1. run' \in [Runs -> RunRec]
    BY <1>1 DEF TypeOK, SaveResultFails, RunOK, RunRec, RunPc, FinalStatus
  <2> QED BY <1>1, <2>1 DEF TypeOK, SaveResultFails
<1>3. /\ \A j \in Runs \ {k} : run'[j] = run[j] /\ logs'[j] = logs[j]
      /\ \A j \in Runs \ {k} :
           InFlight(j) => active'[run[j].task] = active[run[j].task]
  BY <1>1 DEF TypeOK, SaveResultFails, RunOK, InFlight, Unfinished
<1> QED BY <1>1, <1>2, <1>3, RunMoves
        DEF TypeOK, SaveResultFails, RunOK, RunRec, InFlight, Unfinished, FinalStatus

\* LogResult preserves the inductive invariant.
LEMMA LogResultKeeps ==
  ASSUME IInv, NEW k \in Runs, LogResult(k)
  PROVE  IInv'
<1> USE NilAssumption
<1>1. /\ TypeOK /\ RunOK(k) /\ run[k] \in RunRec
      /\ \A j \in Runs : RunOK(j)
  BY DEF IInv, TypeOK
<1>2. TypeOK'
  <2>1. run' \in [Runs -> RunRec]
    BY <1>1, ZenonT(60) DEF TypeOK, LogResult, RunOK, Attempt, RunRec, RunPc, FinalStatus
  <2>2. logs' \in [Runs -> Status]
    BY <1>1 DEF TypeOK, LogResult, RunOK, Attempt, Status, FinalStatus
  <2> QED BY <1>1, <2>1, <2>2 DEF TypeOK, LogResult
<1>3. /\ \A j \in Runs \ {k} : run'[j] = run[j] /\ logs'[j] = logs[j]
      /\ \A j \in Runs \ {k} :
           InFlight(j) => active'[run[j].task] = active[run[j].task]
  BY <1>1 DEF TypeOK, LogResult, Attempt, RunOK, InFlight, Unfinished
<1>4. /\ run[k].pc = "logging" /\ run'[k].pc = "finishing"
      /\ run'[k].task = run[k].task /\ run'[k].reg = run[k].reg
      /\ UNCHANGED <<running, tasks, reg, cl, active>>
  BY <1>1 DEF TypeOK, LogResult, RunRec
<1>5. active[run[k].task] = k
  BY <1>1, <1>4 DEF RunOK, InFlight
<1> QED BY <1>1, <1>2, <1>3, <1>4, <1>5, RunMoves DEF Unfinished, InFlight

\* FinishActive preserves the inductive invariant.
LEMMA FinishActiveKeeps ==
  ASSUME IInv, NEW k \in Runs, FinishActive(k)
  PROVE  IInv'
<1> USE NilAssumption
<1>1. /\ TypeOK /\ RunOK(k) /\ run[k] \in RunRec
      /\ \A j \in Runs : RunOK(j)
  BY DEF IInv, TypeOK
<1>2. TypeOK'
  <2>1. run' \in [Runs -> RunRec]
    BY <1>1 DEF TypeOK, FinishActive, RunOK, Unslot, RunRec, RunPc, FinalStatus
  <2>2. active' \in [Tasks -> Runs \cup {Nil}]
    BY <1>1 DEF TypeOK, FinishActive, RunOK, Unslot, RunRec
  <2> QED BY <1>1, <2>1, <2>2 DEF TypeOK, FinishActive
<1>3. /\ \A j \in Runs \ {k} : run'[j] = run[j] /\ logs'[j] = logs[j]
      /\ \A j \in Runs \ {k} :
           InFlight(j) => active'[run[j].task] = active[run[j].task]
  BY <1>1 DEF TypeOK, FinishActive, Unslot, RunOK, InFlight, Unfinished
<1> QED BY <1>1, <1>2, <1>3, RunMoves
        DEF TypeOK, FinishActive, Unslot, RunOK, RunRec, InFlight, Unfinished, FinalStatus

-----------------------------------------------------------------------------
(* Steps that create a run *)

\* What changes when a run k of task t begins on registration r, which was free.
LEMMA RunBegins ==
  ASSUME IInv, NEW k \in Runs, NEW t \in Tasks, NEW v, NEW r \in Regs,
         UNCHANGED <<running, tasks, active, logs>>,
         run[k].pc = "unused",
         run' = [run EXCEPT ![k] = NewRun(t, v, r, "begun")],
         ~reg[r].retired, ~reg'[r].retired,
         reg[r].run = Nil, reg'[r].run = k,
         reg'[r].task # Nil, reg[r].task # Nil => reg'[r].task = reg[r].task,
         reg'[r].val \in TaskVal,
         reg[r].loop # "none" => reg'[r].loop # "none",
         reg'[r].loop \in {"save", "fired"} => reg'[r].tmp \in TaskVal,
         \A q \in Regs \ {r} : reg'[q] = reg[q]
  PROVE  /\ TasksAreLive'
         /\ \A q \in Regs : RegOK(q)'
         /\ \A j \in Runs : RunOK(j)'
         /\ \A c \in Callers : cl'[c] = cl[c] => CallerOK(c)' /\ DrainOK(c)'
<1> USE NilAssumption
<1>1. /\ TypeOK /\ TasksAreLive
      /\ \A q \in Regs : RegOK(q)
      /\ \A j \in Runs : RunOK(j)
      /\ \A c \in Callers : CallerOK(c) /\ DrainOK(c)
  BY DEF IInv
<1>2. /\ run'[k].pc = "begun" /\ run'[k].task = t /\ run'[k].reg = r
      /\ \A j \in Runs \ {k} : run'[j] = run[j]
  BY <1>1 DEF TypeOK, NewRun, FreeRun
<1>3. TasksAreLive'
  BY <1>1 DEF TypeOK, TasksAreLive
<1>4. ASSUME NEW q \in Regs PROVE RegOK(q)'
  <2>1. CASE q = r
    BY <1>2, <2>1 DEF RegOK, Unfinished
  <2>2. CASE q # r
    <3>1. reg[q].run # Nil => reg[q].run \in Runs /\ reg[q].run # k
      BY <1>1 DEF TypeOK, RegRec, RegOK, Unfinished, InFlight
    <3> QED BY <1>1, <1>2, <2>2, <3>1 DEF RegOK, Unfinished, InFlight
  <2> QED BY <2>1, <2>2
<1>5. ASSUME NEW j \in Runs PROVE RunOK(j)'
  <2>1. CASE j = k
    BY <1>1, <1>2, <2>1 DEF RunOK, Unfinished, InFlight, FinalStatus
  <2>2. CASE j # k
    BY <1>1, <1>2, <2>2 DEF RunOK, Unfinished, InFlight
  <2> QED BY <2>1, <2>2
<1>6. ASSUME NEW c \in Callers, cl'[c] = cl[c]
      PROVE  CallerOK(c)' /\ DrainOK(c)'
  <2>1. CallerOK(c) /\ DrainOK(c) /\ cl[c] \in CallerRec
    BY <1>1 DEF TypeOK
  <2>2. CallerOK(c)'
    BY <1>2, <1>6, <2>1 DEF CallerOK, CallerRec
  <2>3. r \notin cl[c].drain /\ cl[c].drain \in SUBSET Regs
    BY <2>1 DEF DrainOK, CallerRec
  <2>4. DrainOK(c)'
    BY <1>6, <2>1, <2>3 DEF DrainOK, Idle
  <2> QED BY <2>2, <2>4
<1> QED BY <1>3, <1>4, <1>5, <1>6

\* ... and when a run is refused instead: r has its own, and k is a log's name.
LEMMA RunIsSkipped ==
  ASSUME IInv, NEW k \in Runs, NEW t \in Tasks, NEW v, NEW r \in Regs,
         NEW pc \in {"skip", "done"},
         UNCHANGED <<running, tasks, active>>,
         run[k].pc = "unused",
         run' = [run EXCEPT ![k] = NewRun(t, v, Nil, pc)],
         reg'[r].task = reg[r].task, reg'[r].retired = reg[r].retired,
         reg'[r].run = reg[r].run, reg[r].run # Nil, reg'[r].val \in TaskVal,
         reg'[r].loop = "none" <=> reg[r].loop = "none",
         reg'[r].loop \in {"save", "fired"} => reg'[r].tmp \in TaskVal,
         \A q \in Regs \ {r} : reg'[q] = reg[q],
         \A j \in Runs \ {k} : logs'[j] = logs[j],
         logs'[k] \notin FinalStatus
  PROVE  /\ TasksAreLive'
         /\ \A q \in Regs : RegOK(q)'
         /\ \A j \in Runs : RunOK(j)'
         /\ \A c \in Callers : cl'[c] = cl[c] => CallerOK(c)' /\ DrainOK(c)'
<1> USE NilAssumption
<1>1. /\ TypeOK /\ TasksAreLive
      /\ \A q \in Regs : RegOK(q)
      /\ \A j \in Runs : RunOK(j)
      /\ \A c \in Callers : CallerOK(c) /\ DrainOK(c)
  BY DEF IInv
<1>2. /\ run'[k].pc = pc /\ run'[k].task = t
      /\ \A j \in Runs \ {k} : run'[j] = run[j]
  BY <1>1 DEF TypeOK, NewRun, FreeRun
<1>3. \A q \in Regs : /\ reg'[q].task = reg[q].task
                      /\ reg'[q].retired = reg[q].retired
                      /\ reg'[q].run = reg[q].run
                      /\ reg'[q].loop = "none" <=> reg[q].loop = "none"
                      /\ Idle(q) => Idle(q)'
  BY DEF Idle
<1>4. TasksAreLive'
  BY <1>1, <1>3 DEF TypeOK, TasksAreLive
<1>5. ASSUME NEW q \in Regs PROVE RegOK(q)'
  <2>1. reg[q].run # Nil => reg[q].run \in Runs /\ reg[q].run # k
    BY <1>1 DEF TypeOK, RegRec, RegOK, Unfinished, InFlight
  <2>2. CASE q = r
    BY <1>1, <1>2, <1>3, <2>1, <2>2 DEF RegOK, Unfinished, InFlight
  <2>3. CASE q # r
    BY <1>1, <1>2, <2>1, <2>3 DEF RegOK, Unfinished, InFlight
  <2> QED BY <2>2, <2>3
<1>6. ASSUME NEW j \in Runs PROVE RunOK(j)'
  <2>1. CASE j = k
    BY <1>1, <1>2, <2>1 DEF RunOK, Unfinished, InFlight
  <2>2. CASE j # k
    BY <1>1, <1>2, <1>3, <2>2 DEF RunOK, Unfinished, InFlight
  <2> QED BY <2>1, <2>2
<1>7. ASSUME NEW c \in Callers, cl'[c] = cl[c]
      PROVE  CallerOK(c)' /\ DrainOK(c)'
  <2>1. CallerOK(c) /\ DrainOK(c) /\ cl[c] \in CallerRec
    BY <1>1 DEF TypeOK
  <2>2. (cl[c].reg # Nil => cl[c].reg \in Regs) /\ cl[c].drain \in SUBSET Regs
    BY <2>1 DEF CallerRec
  <2> QED BY <1>2, <1>3, <1>7, <2>1, <2>2 DEF CallerOK, DrainOK
<1> QED BY <1>4, <1>5, <1>6, <1>7

\* FireBegin preserves the inductive invariant.
LEMMA FireBeginKeeps ==
  ASSUME IInv, NEW r \in Regs, NEW k \in NextRun, FireBegin(r, k)
  PROVE  IInv'
<1> USE NilAssumption
<1>1. TypeOK /\ RegOK(r) /\ reg[r] \in RegRec
  BY DEF IInv, TypeOK
<1>2. k \in Runs /\ run[k].pc = "unused"
  BY NextRunFresh
<1>3. reg[r].task \in Tasks /\ reg[r].tmp \in TaskVal
  BY <1>1 DEF RegRec, RegOK, FireBegin
<1>4. TypeOK'
  <2>1. reg' \in [Regs -> RegRec]
    BY <1>1, <1>2, <1>3 DEF TypeOK, FireBegin, RegRec, LoopPc
  <2>2. run' \in [Runs -> RunRec]
    BY <1>1, <1>2, <1>3 DEF TypeOK, FireBegin, NewRun, FreeRun, RunRec, RunPc
  <2> QED BY <1>1, <2>1, <2>2 DEF TypeOK, FireBegin
<1>5. /\ TasksAreLive'
      /\ \A q \in Regs : RegOK(q)'
      /\ \A j \in Runs : RunOK(j)'
      /\ \A c \in Callers : CallerOK(c)' /\ DrainOK(c)'
  <2>1. /\ reg'[r].task = reg[r].task /\ reg'[r].retired = reg[r].retired
        /\ reg'[r].run = k /\ reg'[r].val = reg[r].tmp /\ reg'[r].loop = "next"
        /\ \A q \in Regs \ {r} : reg'[q] = reg[q]
    BY <1>1 DEF TypeOK, RegRec, FireBegin
  <2> QED BY <1>2, <1>3, <2>1, RunBegins DEF FireBegin, CanBegin
<1> QED BY <1>4, <1>5, Frames DEF IInv, FireBegin

\* FireSkipped preserves the inductive invariant.
LEMMA FireSkippedKeeps ==
  ASSUME IInv, NEW r \in Regs, NEW k \in NextRun, FireSkipped(r, k)
  PROVE  IInv'
<1> USE NilAssumption
<1>1. TypeOK /\ RegOK(r) /\ reg[r] \in RegRec /\ \A j \in Runs : RunOK(j)
  BY DEF IInv, TypeOK
<1>2. k \in Runs /\ run[k].pc = "unused" /\ logs[k] = "none"
  BY <1>1, NextRunFresh DEF RunOK
<1>3. reg[r].task \in Tasks /\ reg[r].tmp \in TaskVal
  BY <1>1 DEF RegRec, RegOK, FireSkipped
<1>4. TypeOK'
  <2>1. reg' \in [Regs -> RegRec]
    BY <1>1, <1>2, <1>3 DEF TypeOK, FireSkipped, RegRec, LoopPc
  <2>2. run' \in [Runs -> RunRec]
    BY <1>1, <1>2, <1>3 DEF TypeOK, FireSkipped, NewRun, FreeRun, RunRec, RunPc
  <2>3. logs' \in [Runs -> Status]
    BY <1>1, <1>2 DEF TypeOK, FireSkipped, Attempt, Status
  <2> QED BY <1>1, <2>1, <2>2, <2>3 DEF TypeOK, FireSkipped
<1>5. /\ TasksAreLive'
      /\ \A q \in Regs : RegOK(q)'
      /\ \A j \in Runs : RunOK(j)'
      /\ \A c \in Callers : CallerOK(c)' /\ DrainOK(c)'
  <2>1. /\ reg'[r].task = reg[r].task /\ reg'[r].retired = reg[r].retired
        /\ reg'[r].run = reg[r].run /\ reg'[r].val = reg[r].tmp
        /\ reg'[r].loop = "next"
        /\ \A q \in Regs \ {r} : reg'[q] = reg[q]
    BY <1>1 DEF TypeOK, RegRec, FireSkipped
  <2>2. logs'[k] \notin FinalStatus /\ \A j \in Runs \ {k} : logs'[j] = logs[j]
    BY <1>1, <1>2 DEF TypeOK, FireSkipped, Attempt, FinalStatus
  <2> QED BY <1>2, <1>3, <2>1, <2>2, RunIsSkipped DEF FireSkipped
<1> QED BY <1>4, <1>5, Frames DEF IInv, FireSkipped

\* BeginManual preserves the inductive invariant.
LEMMA BeginManualKeeps ==
  ASSUME IInv, NEW c \in Callers, NEW k \in NextRun, BeginManual(c, k)
  PROVE  IInv'
<1> USE NilAssumption
<1> DEFINE r == cl[c].reg
<1>1. /\ TypeOK /\ OneSkipper /\ CallerOK(c) /\ DrainOK(c) /\ cl[c] \in CallerRec
      /\ \A q \in Regs : RegOK(q)
  BY DEF IInv, TypeOK
<1>2. k \in Runs /\ run[k].pc = "unused"
  BY NextRunFresh
<1>3. /\ cl[c].task \in Tasks /\ cl[c].arg \in TaskVal /\ cl[c].drain = {}
      /\ r \in Regs /\ reg[r] \in RegRec /\ reg[r].task # Nil
  BY <1>1 DEF TypeOK, CallerRec, CallerOK, DrainOK, BeginManual
<1>4. TypeOK'
  <2>1. reg' \in [Regs -> RegRec]
    BY <1>1, <1>2, <1>3 DEF TypeOK, BeginManual, RegRec
  <2>2. run' \in [Runs -> RunRec]
    BY <1>1, <1>2, <1>3 DEF TypeOK, BeginManual, NewRun, FreeRun, RunRec, RunPc
  <2>3. cl' \in [Callers -> CallerRec]
    BY <1>1, <1>2 DEF TypeOK, BeginManual, ManualWait, CallerRec, CallerPc
  <2> QED BY <1>1, <2>1, <2>2, <2>3 DEF TypeOK, BeginManual
<1>5. /\ cl'[c].pc \in {"run", "start"} /\ cl'[c].run = k /\ cl'[c].drain = {}
      /\ cl'[c].task = cl[c].task /\ cl'[c].arg = cl[c].arg /\ cl'[c].reg = r
      /\ \A d \in Callers \ {c} : cl'[d] = cl[d]
  BY <1>1, <1>3 DEF TypeOK, CallerRec, BeginManual, ManualWait
<1>6. /\ reg'[r].task = reg[r].task /\ reg'[r].retired = reg[r].retired
      /\ reg'[r].run = k /\ reg'[r].val = cl[c].arg
      /\ reg'[r].loop = reg[r].loop /\ reg'[r].tmp = reg[r].tmp
      /\ \A q \in Regs \ {r} : reg'[q] = reg[q]
  BY <1>1, <1>3 DEF TypeOK, RegRec, BeginManual
<1>7. reg[r].loop \in {"save", "fired"} => reg[r].tmp \in TaskVal
  BY <1>1, <1>3 DEF RegOK
<1>8. /\ ~reg[r].retired /\ reg[r].run = Nil
      /\ run' = [run EXCEPT ![k] = NewRun(cl[c].task, cl[c].arg, r, "begun")]
      /\ UNCHANGED <<running, tasks, active, logs>>
  BY DEF BeginManual, CanBegin
<1> HIDE DEF r
<1>9. /\ TasksAreLive'
      /\ \A q \in Regs : RegOK(q)'
      /\ \A j \in Runs : RunOK(j)'
      /\ \A d \in Callers \ {c} : CallerOK(d)' /\ DrainOK(d)'
  BY <1>2, <1>3, <1>5, <1>6, <1>7, <1>8, RunBegins
<1>10. CallerOK(c)' /\ DrainOK(c)'
  BY <1>1, <1>2, <1>3, <1>5, <1>6, <1>8 DEF TypeOK, CallerOK, DrainOK, NewRun, FreeRun
<1>11. OneSkipper'
  BY <1>1, <1>5 DEF OneSkipper
<1> QED BY <1>4, <1>9, <1>10, <1>11 DEF IInv

\* BeginAdHoc preserves the inductive invariant.
LEMMA BeginAdHocKeeps ==
  ASSUME IInv, NEW c \in Callers, NEW k \in NextRun, BeginAdHoc(c, k)
  PROVE  IInv'
<1> USE NilAssumption
<1>1. /\ TypeOK /\ OneSkipper /\ CallerOK(c) /\ DrainOK(c) /\ cl[c] \in CallerRec
      /\ \A q \in Regs : RegOK(q)
  BY DEF IInv, TypeOK
<1>2. k \in Runs /\ run[k].pc = "unused"
  BY NextRunFresh
<1>3. cl[c].task \in Tasks /\ cl[c].arg \in TaskVal /\ cl[c].drain = {}
  BY <1>1 DEF CallerRec, CallerOK, DrainOK, BeginAdHoc
<1> DEFINE done == IF cl[c].reg = Nil THEN FALSE ELSE reg[cl[c].reg].ctxDone
           x == AdHocReg(cl[c].task, cl[c].arg, done, k)
<1>4. PICK r \in NextReg :
        /\ reg' = [reg EXCEPT ![r] = x]
        /\ run' = [run EXCEPT ![k] = NewRun(cl[c].task, cl[c].arg, r, "begun")]
  BY DEF BeginAdHoc
<1>5. r \in Regs /\ reg[r].task = Nil /\ ~reg[r].retired /\ reg[r].run = Nil
      /\ reg[r].loop = "none"
  BY <1>1, NextRegFresh DEF RegOK
<1>6. done \in BOOLEAN
  BY <1>1 DEF TypeOK, CallerRec, RegRec
<1>7. /\ x \in RegRec /\ x.task = cl[c].task /\ ~x.retired /\ x.run = k
      /\ x.val = cl[c].arg /\ x.loop = "none"
  <2> HIDE DEF done
  <2> QED BY <1>2, <1>3, <1>6 DEF AdHocReg, FreeReg, RegRec, LoopPc
<1> HIDE DEF x
<1>8. reg'[r] = x /\ \A q \in Regs \ {r} : reg'[q] = reg[q]
  BY <1>1, <1>4, <1>5 DEF TypeOK
<1>9. TypeOK'
  <2>1. reg' \in [Regs -> RegRec]
    BY <1>1, <1>4, <1>7 DEF TypeOK
  <2>2. run' \in [Runs -> RunRec]
    BY <1>1, <1>2, <1>3, <1>4, <1>5 DEF TypeOK, NewRun, FreeRun, RunRec, RunPc
  <2>3. cl' \in [Callers -> CallerRec]
    BY <1>1, <1>2 DEF TypeOK, BeginAdHoc, ManualWait, CallerRec, CallerPc
  <2> QED BY <1>1, <2>1, <2>2, <2>3 DEF TypeOK, BeginAdHoc
<1>10. /\ cl'[c].pc \in {"run", "start"} /\ cl'[c].run = k /\ cl'[c].drain = {}
       /\ cl'[c].task = cl[c].task /\ cl'[c].arg = cl[c].arg /\ cl'[c].reg = cl[c].reg
       /\ \A d \in Callers \ {c} : cl'[d] = cl[d]
  BY <1>1, <1>3 DEF TypeOK, CallerRec, BeginAdHoc, ManualWait
<1>11. UNCHANGED <<running, tasks, active, logs>>
  BY DEF BeginAdHoc
<1>12. /\ TasksAreLive'
       /\ \A q \in Regs : RegOK(q)'
       /\ \A j \in Runs : RunOK(j)'
       /\ \A d \in Callers \ {c} : CallerOK(d)' /\ DrainOK(d)'
  BY <1>2, <1>3, <1>4, <1>5, <1>7, <1>8, <1>10, <1>11, RunBegins, ZenonT(60)
<1>13. CallerOK(c)' /\ DrainOK(c)'
  <2>1. cl[c].reg # Nil => cl[c].reg \in Regs /\ reg'[cl[c].reg].task # Nil
    BY <1>1, <1>3, <1>7, <1>8 DEF CallerRec, CallerOK
  <2>2. run'[k].pc # "unused"
    BY <1>1, <1>2, <1>4 DEF TypeOK, NewRun, FreeRun
  <2> QED BY <1>1, <1>2, <1>3, <1>10, <2>1, <2>2 DEF CallerOK, DrainOK
<1>14. OneSkipper'
  BY <1>1, <1>10 DEF OneSkipper
<1> QED BY <1>9, <1>12, <1>13, <1>14 DEF IInv

\* BeginSkipped preserves the inductive invariant.
LEMMA BeginSkippedKeeps ==
  ASSUME IInv, NEW c \in Callers, NEW k \in NextRun, BeginSkipped(c, k)
  PROVE  IInv'
<1> USE NilAssumption
<1> DEFINE r == cl[c].reg
<1>1. /\ TypeOK /\ OneSkipper /\ cl[c] \in CallerRec
      /\ \A d \in Callers : CallerOK(d) /\ DrainOK(d)
      /\ \A q \in Regs : RegOK(q)
      /\ \A j \in Runs : RunOK(j)
  BY DEF IInv, TypeOK
<1>2. k \in Runs /\ run[k].pc = "unused" /\ logs[k] = "none"
  BY <1>1, NextRunFresh DEF RunOK
<1>3. /\ cl[c].task \in Tasks /\ cl[c].arg \in TaskVal /\ cl[c].drain = {}
      /\ r \in Regs /\ reg[r] \in RegRec /\ reg[r].task # Nil
  BY <1>1 DEF TypeOK, CallerRec, CallerOK, DrainOK, BeginSkipped
<1>4. TypeOK'
  <2>1. reg' \in [Regs -> RegRec]
    BY <1>1, <1>3 DEF TypeOK, BeginSkipped, RegRec
  <2>2. run' \in [Runs -> RunRec]
    BY <1>1, <1>2, <1>3 DEF TypeOK, BeginSkipped, NewRun, FreeRun, RunRec, RunPc
  <2>3. cl' \in [Callers -> CallerRec]
    BY <1>1, <1>2 DEF TypeOK, BeginSkipped, CallerRec, CallerPc
  <2> QED BY <1>1, <2>1, <2>2, <2>3 DEF TypeOK, BeginSkipped
<1>5. /\ cl'[c].pc = "skip" /\ cl'[c].run = k /\ cl'[c].drain = {}
      /\ cl'[c].task = cl[c].task /\ cl'[c].arg = cl[c].arg /\ cl'[c].reg = r
      /\ \A d \in Callers \ {c} : cl'[d] = cl[d]
  BY <1>1, <1>3 DEF TypeOK, CallerRec, BeginSkipped
<1>6. /\ reg'[r].task = reg[r].task /\ reg'[r].retired = reg[r].retired
      /\ reg'[r].run = reg[r].run /\ reg'[r].val = cl[c].arg
      /\ reg'[r].loop = reg[r].loop /\ reg'[r].tmp = reg[r].tmp
      /\ \A q \in Regs \ {r} : reg'[q] = reg[q]
  BY <1>1, <1>3 DEF TypeOK, RegRec, BeginSkipped
<1>7. reg[r].loop \in {"save", "fired"} => reg[r].tmp \in TaskVal
  BY <1>1, <1>3 DEF RegOK
<1>8. /\ reg[r].run # Nil
      /\ run' = [run EXCEPT ![k] = NewRun(cl[c].task, cl[c].arg, Nil, "skip")]
      /\ UNCHANGED <<running, tasks, active, logs>>
  BY DEF BeginSkipped
<1> HIDE DEF r
<1>9. /\ TasksAreLive'
      /\ \A q \in Regs : RegOK(q)'
      /\ \A j \in Runs : RunOK(j)'
      /\ \A d \in Callers \ {c} : CallerOK(d)' /\ DrainOK(d)'
  <2>1. logs'[k] \notin FinalStatus /\ \A j \in Runs \ {k} : logs'[j] = logs[j]
    BY <1>2, <1>8 DEF FinalStatus
  <2>2. /\ reg'[r].task = reg[r].task /\ reg'[r].retired = reg[r].retired
        /\ reg'[r].run = reg[r].run /\ reg'[r].val \in TaskVal
        /\ reg'[r].loop = "none" <=> reg[r].loop = "none"
        /\ reg'[r].loop \in {"save", "fired"} => reg'[r].tmp \in TaskVal
        /\ \A q \in Regs \ {r} : reg'[q] = reg[q]
    BY <1>3, <1>6, <1>7
  <2>3. /\ TasksAreLive'
        /\ \A q \in Regs : RegOK(q)'
        /\ \A j \in Runs : RunOK(j)'
        /\ \A d \in Callers : cl'[d] = cl[d] => CallerOK(d)' /\ DrainOK(d)'
    BY <1>2, <1>3, <1>8, <2>1, <2>2, RunIsSkipped
  <2> QED BY <1>5, <2>3
<1>10. CallerOK(c)' /\ DrainOK(c)'
  BY <1>1, <1>2, <1>3, <1>5, <1>6, <1>8 DEF TypeOK, CallerOK, DrainOK, NewRun, FreeRun
<1>11. OneSkipper'
  <2>1. \A d \in Callers : cl[d].pc = "skip" => cl[d].run # k
    BY <1>1, <1>2 DEF CallerOK
  <2> QED BY <1>1, <1>5, <2>1 DEF OneSkipper
<1> QED BY <1>4, <1>9, <1>10, <1>11 DEF IInv

-----------------------------------------------------------------------------
(* The other steps that relate a run to its caller or its registration *)

\* AppendSkipped preserves the inductive invariant.
LEMMA AppendSkippedKeeps ==
  ASSUME IInv, NEW c \in Callers, AppendSkipped(c)
  PROVE  IInv'
<1> USE NilAssumption
<1> DEFINE k == cl[c].run
<1>1. /\ TypeOK /\ OneSkipper /\ cl[c] \in CallerRec
      /\ \A r \in Regs : RegOK(r)
      /\ \A j \in Runs : RunOK(j)
      /\ \A d \in Callers : CallerOK(d) /\ DrainOK(d)
  BY DEF IInv, TypeOK
<1>2. k \in Runs /\ run[k].pc = "skip" /\ run[k] \in RunRec
  BY <1>1 DEF TypeOK, CallerOK, AppendSkipped
<1>3. logs' \in [Runs -> Status] /\ logs'[k] \notin FinalStatus
      /\ \A j \in Runs \ {k} : logs'[j] = logs[j]
  BY <1>1, <1>2 DEF TypeOK, RunOK, AppendSkipped, Attempt, Status, FinalStatus
<1>4. run' \in [Runs -> RunRec] /\ run'[k].pc = "done" /\ run'[k].task = run[k].task
      /\ \A j \in Runs \ {k} : run'[j] = run[j]
  BY <1>1, <1>2 DEF TypeOK, AppendSkipped, RunRec, RunPc
<1>5. /\ cl' \in [Callers -> CallerRec]
      /\ cl'[c].pc = "ret" /\ cl'[c].drain = cl[c].drain
      /\ cl'[c].task = cl[c].task /\ cl'[c].arg = cl[c].arg /\ cl'[c].reg = cl[c].reg
      /\ \A d \in Callers \ {c} : cl'[d] = cl[d]
  <2> DEFINE res == IF logs'[k] = "skipped" THEN "skipped" ELSE "error"
  <2>1. res \in Results /\ Returns(c, res)
    BY DEF AppendSkipped, Results, FinalStatus
  <2> HIDE DEF res
  <2> QED BY <1>1, <2>1 DEF TypeOK, Returns, CallerRec, CallerPc
<1>6. UNCHANGED <<running, life, tasks, reg, active, file, calls, fires, crashes>>
      /\ cl[c].pc = "skip"
  BY DEF AppendSkipped
<1>7. \A d \in Callers \ {c} : cl[d].pc = "skip" => cl[d].run # k
  BY <1>1, <1>6 DEF OneSkipper
<1> HIDE DEF k
<1>8. TypeOK'
  BY <1>1, <1>3, <1>4, <1>5, <1>6 DEF TypeOK
<1>9. ASSUME NEW r \in Regs PROVE RegOK(r)'
  <2>1. reg[r].run # Nil => reg[r].run \in Runs /\ reg[r].run # k
    BY <1>1, <1>2 DEF TypeOK, RegRec, RegOK, Unfinished, InFlight
  <2> QED BY <1>1, <1>4, <1>6, <2>1 DEF RegOK, Unfinished, InFlight
<1>10. ASSUME NEW j \in Runs PROVE RunOK(j)'
  <2>1. CASE j = k
    BY <1>1, <1>2, <1>3, <1>4, <2>1 DEF RunOK, Unfinished, InFlight
  <2>2. CASE j # k
    BY <1>1, <1>3, <1>4, <1>6, <2>2 DEF RunOK, Unfinished, InFlight
  <2> QED BY <2>1, <2>2
<1>11. ASSUME NEW d \in Callers PROVE CallerOK(d)' /\ DrainOK(d)'
  <2>1. CASE d = c
    BY <1>1, <1>5, <1>6, <2>1 DEF CallerOK, DrainOK
  <2>2. CASE d # c
    BY <1>1, <1>4, <1>5, <1>6, <1>7, <2>2 DEF CallerOK, DrainOK, Idle
  <2> QED BY <2>1, <2>2
<1>12. OneSkipper'
  BY <1>1, <1>5 DEF OneSkipper
<1> QED BY <1>6, <1>8, <1>9, <1>10, <1>11, <1>12, Frames DEF IInv

\* ExecReturn preserves the inductive invariant.
LEMMA ExecReturnKeeps ==
  ASSUME IInv, NEW k \in Runs, NEW st \in Outcomes, NEW late \in BOOLEAN,
         ExecReturn(k, st, late)
  PROVE  IInv'
<1> USE NilAssumption
<1> DEFINE r == run[k].reg
           v == [reg[r].val EXCEPT !.last = k]
           fo == FinalOutcome(k, st, late)
<1>1. /\ TypeOK /\ TasksAreLive /\ run[k] \in RunRec
      /\ \A q \in Regs : RegOK(q)
      /\ \A j \in Runs : RunOK(j)
      /\ \A c \in Callers : CallerOK(c) /\ DrainOK(c)
  BY DEF IInv, TypeOK
<1>2. r \in Regs /\ reg[r] \in RegRec /\ reg[r].task # Nil /\ reg[r].val \in TaskVal
  BY <1>1 DEF TypeOK, RunOK, RegOK, Unfinished, InFlight, ExecReturn
<1>3. v \in TaskVal /\ fo \in FinalStatus
  BY <1>2 DEF TaskVal, FinalOutcome, Outcomes, FinalStatus
<1>4. /\ run[k].pc = "executing"
      /\ reg' = [reg EXCEPT ![r] = [@ EXCEPT !.val = v]]
      /\ run' = [run EXCEPT ![k] = [@ EXCEPT !.pc = "saving", !.upd = v, !.status = fo]]
      /\ UNCHANGED <<running, life, tasks, active, file, logs, cl, calls, fires, crashes>>
  BY DEF ExecReturn
<1> HIDE DEF v, fo
<1>5. /\ run' \in [Runs -> RunRec]
      /\ run'[k].pc = "saving" /\ run'[k].reg = r /\ run'[k].task = run[k].task
      /\ run'[k].upd = v /\ run'[k].status = fo
      /\ \A j \in Runs \ {k} : run'[j] = run[j]
  BY <1>1, <1>3, <1>4 DEF TypeOK, RunRec, RunPc
<1> HIDE DEF r
<1>6. /\ reg' \in [Regs -> RegRec] /\ reg'[r].val = v
      /\ \A q \in Regs : /\ reg'[q].task = reg[q].task
                         /\ reg'[q].retired = reg[q].retired
                         /\ reg'[q].run = reg[q].run
                         /\ reg'[q].loop = reg[q].loop
                         /\ reg'[q].tmp = reg[q].tmp
                         /\ q # r => reg'[q].val = reg[q].val
  BY <1>1, <1>2, <1>3, <1>4 DEF TypeOK, RegRec
<1>7. TypeOK'
  BY <1>1, <1>4, <1>5, <1>6 DEF TypeOK
<1>8. TasksAreLive'
  BY <1>1, <1>4, <1>6 DEF TypeOK, TasksAreLive
<1>9. \A j \in Runs : Unfinished(j)' = Unfinished(j) /\ InFlight(j)' = InFlight(j)
                      /\ run'[j].reg = run[j].reg /\ run'[j].task = run[j].task
  BY <1>4, <1>5 DEF Unfinished, InFlight, r
<1>10. ASSUME NEW q \in Regs PROVE RegOK(q)'
  <2>1. reg[q].run # Nil => reg[q].run \in Runs
    BY <1>1 DEF TypeOK, RegRec
  <2> QED BY <1>1, <1>2, <1>3, <1>6, <1>9, <2>1 DEF RegOK
<1>11. ASSUME NEW j \in Runs PROVE RunOK(j)'
  <2>1. CASE j = k
    BY <1>1, <1>3, <1>4, <1>5, <1>6, <1>9, <2>1 DEF RunOK, FinalStatus
  <2>2. CASE j # k
    BY <1>1, <1>4, <1>5, <1>6, <1>9, <2>2 DEF RunOK
  <2> QED BY <2>1, <2>2
<1>12. ASSUME NEW c \in Callers PROVE CallerOK(c)' /\ DrainOK(c)'
  <2>1. cl[c] \in CallerRec /\ CallerOK(c) /\ DrainOK(c)
    BY <1>1 DEF TypeOK
  <2>2. (cl[c].reg # Nil => cl[c].reg \in Regs) /\ cl[c].drain \in SUBSET Regs
    BY <2>1 DEF CallerRec
  <2> QED BY <1>4, <1>5, <1>6, <2>1, <2>2 DEF CallerOK, DrainOK, Idle
<1> QED BY <1>4, <1>7, <1>8, <1>10, <1>11, <1>12, Frames DEF IInv

\* Release preserves the inductive invariant.
LEMMA ReleaseKeeps ==
  ASSUME IInv, NEW k \in Runs, Release(k)
  PROVE  IInv'
<1> USE NilAssumption
<1> DEFINE r == run[k].reg
<1>1. /\ TypeOK /\ TasksAreLive /\ run[k] \in RunRec
      /\ \A q \in Regs : RegOK(q)
      /\ \A j \in Runs : RunOK(j)
      /\ \A c \in Callers : CallerOK(c) /\ DrainOK(c)
  BY DEF IInv, TypeOK
<1>2. r \in Regs /\ reg[r] \in RegRec /\ reg[r].task # Nil /\ reg[r].run = k
  BY <1>1 DEF TypeOK, RunOK, Unfinished, Release
<1>3. /\ run[k].pc = "releasing"
      /\ reg' = [reg EXCEPT ![r] = [@ EXCEPT !.run = Nil]]
      /\ run' = [run EXCEPT ![k] = [@ EXCEPT !.pc = "done"]]
      /\ UNCHANGED <<running, life, tasks, active, file, logs, cl, calls, fires, crashes>>
  BY DEF Release
<1>4. /\ run' \in [Runs -> RunRec]
      /\ run'[k].pc = "done" /\ run'[k].task = run[k].task
      /\ \A j \in Runs \ {k} : run'[j] = run[j]
  BY <1>1, <1>3 DEF TypeOK, RunRec, RunPc
<1> HIDE DEF r
<1>5. /\ reg' \in [Regs -> RegRec] /\ reg'[r].run = Nil
      /\ \A q \in Regs : /\ reg'[q].task = reg[q].task
                         /\ reg'[q].retired = reg[q].retired
                         /\ reg'[q].val = reg[q].val
                         /\ reg'[q].loop = reg[q].loop
                         /\ reg'[q].tmp = reg[q].tmp
                         /\ q # r => reg'[q].run = reg[q].run
  BY <1>1, <1>2, <1>3 DEF TypeOK, RegRec
<1>6. TypeOK'
  BY <1>1, <1>3, <1>4, <1>5 DEF TypeOK
<1>7. TasksAreLive'
  BY <1>1, <1>3, <1>5 DEF TypeOK, TasksAreLive
<1>8. \A j \in Runs \ {k} : Unfinished(j) => run[j].reg # r
  BY <1>1, <1>2 DEF RunOK
<1>9. ASSUME NEW q \in Regs PROVE RegOK(q)'
  <2>1. CASE q = r
    BY <1>1, <1>2, <1>5, <2>1 DEF RegOK
  <2>2. CASE q # r
    <3>1. reg[q].run # Nil => reg[q].run \in Runs /\ reg[q].run # k
      BY <1>1, <2>2 DEF TypeOK, RegRec, RegOK, r
    <3> QED BY <1>1, <1>4, <1>5, <2>2, <3>1 DEF RegOK, Unfinished, InFlight
  <2> QED BY <2>1, <2>2
<1>10. ASSUME NEW j \in Runs PROVE RunOK(j)'
  <2>1. CASE j = k
    BY <1>1, <1>3, <1>4, <2>1 DEF RunOK, Unfinished, InFlight
  <2>2. CASE j # k
    BY <1>1, <1>3, <1>4, <1>5, <1>8, <2>2 DEF RunOK, Unfinished, InFlight
  <2> QED BY <2>1, <2>2
<1>11. ASSUME NEW c \in Callers PROVE CallerOK(c)' /\ DrainOK(c)'
  <2>1. cl[c] \in CallerRec /\ CallerOK(c) /\ DrainOK(c)
    BY <1>1 DEF TypeOK
  <2>2. (cl[c].reg # Nil => cl[c].reg \in Regs) /\ cl[c].drain \in SUBSET Regs
    BY <2>1 DEF CallerRec
  <2> QED BY <1>3, <1>4, <1>5, <2>1, <2>2 DEF CallerOK, DrainOK, Idle
<1> QED BY <1>3, <1>6, <1>7, <1>9, <1>10, <1>11, Frames DEF IInv

-----------------------------------------------------------------------------
(* Steps that retire registrations or create one *)

\* What is left to show for a call that retires the registrations of S, which it
\* found in s.tasks, and goes on to wait for them at pc.
LEMMA Retires ==
  ASSUME IInv, NEW c \in Callers, NEW op \in OpNames,
         NEW pc \in {"replacing", "draining", "stopping"},
         NEW S \in SUBSET Regs,
         \A q \in S : reg[q].task # Nil /\ reg[q].loop # "none",
         cl[c].pc = "idle", cl[c].task # Nil \/ pc = "stopping",
         reg' = Retire(S),
         cl' = [cl EXCEPT ![c] = [@ EXCEPT !.op = op, !.pc = pc, !.drain = S]],
         tasks' \in [Tasks -> Regs \cup {Nil}], running' \in BOOLEAN, calls' \in Nat,
         UNCHANGED <<life, run, active, file, logs, fires, crashes>>,
         TasksAreLive'
  PROVE  IInv'
<1> USE NilAssumption
<1>1. /\ TypeOK /\ OneSkipper
      /\ \A q \in Regs : RegOK(q)
      /\ \A k \in Runs : RunOK(k)
      /\ \A d \in Callers : CallerOK(d) /\ DrainOK(d)
  BY DEF IInv
<1>2. /\ reg' \in [Regs -> RegRec]
      /\ \A q \in Regs : /\ reg'[q].task = reg[q].task
                         /\ reg'[q].val = reg[q].val
                         /\ reg'[q].run = reg[q].run
                         /\ reg'[q].loop = reg[q].loop
                         /\ reg'[q].tmp = reg[q].tmp
                         /\ reg'[q].retired = (reg[q].retired \/ q \in S)
  BY <1>1, RetireType
<1>3. /\ cl' \in [Callers -> CallerRec]
      /\ cl'[c].pc = pc /\ cl'[c].drain = S
      /\ cl'[c].task = cl[c].task /\ cl'[c].arg = cl[c].arg /\ cl'[c].reg = cl[c].reg
      /\ \A d \in Callers \ {c} : cl'[d] = cl[d]
  <2>1. cl[c] \in CallerRec
    BY <1>1 DEF TypeOK
  <2> QED BY <1>1, <2>1 DEF TypeOK, CallerRec, CallerPc
<1>4. TypeOK'
  BY <1>1, <1>2, <1>3 DEF TypeOK
<1>5. ASSUME NEW q \in Regs PROVE RegOK(q)'
  <2>1. RegOK(q) /\ (reg[q].task = Nil => q \notin S)
    BY <1>1
  <2>2. /\ reg'[q].task = reg[q].task /\ reg'[q].val = reg[q].val
        /\ reg'[q].run = reg[q].run /\ reg'[q].loop = reg[q].loop
        /\ reg'[q].tmp = reg[q].tmp
        /\ reg'[q].retired = (reg[q].retired \/ q \in S)
    BY <1>2
  <2> QED BY <2>1, <2>2 DEF RegOK, Unfinished, InFlight
<1>6. ASSUME NEW k \in Runs PROVE RunOK(k)'
  BY <1>1, <1>2 DEF RunOK, Unfinished, InFlight
<1>7. ASSUME NEW d \in Callers PROVE CallerOK(d)'
  <2>1. CallerOK(d) /\ (cl[d].reg # Nil => cl[d].reg \in Regs)
    BY <1>1 DEF TypeOK, CallerRec
  <2> QED BY <1>2, <1>3, <2>1 DEF CallerOK
<1>8. ASSUME NEW d \in Callers PROVE DrainOK(d)'
  <2>1. DrainOK(d) /\ cl[d].drain \in SUBSET Regs
    BY <1>1 DEF TypeOK, CallerRec
  <2>2. CASE d = c
    <3>1. \A q \in S : reg'[q].retired /\ reg'[q].task # Nil /\ reg'[q].loop # "none"
      BY <1>2, ZenonT(60)
    <3> QED BY <1>3, <2>2, <3>1 DEF DrainOK
  <2>3. CASE d # c
    <3>1. ASSUME NEW q \in cl[d].drain
          PROVE  /\ reg'[q].retired /\ reg'[q].task # Nil /\ reg'[q].loop # "none"
                 /\ cl[d].pc = "ret" => Idle(q)'
      <4>1. q \in Regs /\ reg[q].retired /\ reg[q].task # Nil /\ reg[q].loop # "none"
        BY <2>1 DEF DrainOK
      <4>2. cl[d].pc = "ret" => Idle(q)
        BY <2>1 DEF DrainOK
      <4> QED BY <1>2, <4>1, <4>2 DEF Idle
    <3>2. cl'[d] = cl[d]
      BY <1>3, <2>3
    <3> QED BY <2>1, <3>1, <3>2 DEF DrainOK
  <2> QED BY <2>2, <2>3
<1>9. OneSkipper'
  BY <1>1, <1>3 DEF OneSkipper
<1> QED BY <1>4, <1>5, <1>6, <1>7, <1>8, <1>9 DEF IInv

\* Detach preserves the inductive invariant.
LEMMA DetachKeeps ==
  ASSUME IInv, NEW c \in Callers, NEW op \in OpNames,
         NEW pc \in {"replacing", "draining"}, Detach(c, op, pc)
  PROVE  IInv'
<1> USE NilAssumption
<1> DEFINE t == cl[c].task
           S == Registered(t)
<1>1. TypeOK /\ TasksAreLive
  BY DEF IInv
<1>2. t \in Tasks
  BY <1>1 DEF TypeOK, CallerRec, Detach, Dropped
<1>3. /\ S \in SUBSET Regs
      /\ \A q \in S : q = tasks[t] /\ reg[q].task = t /\ reg[q].loop # "none"
  BY <1>1, <1>2 DEF TypeOK, TasksAreLive, Registered
<1>4. /\ running /\ cl[c].pc = "idle" /\ t # Nil
      /\ reg' = Retire(S) /\ tasks' = [tasks EXCEPT ![t] = Nil]
      /\ cl' = [cl EXCEPT ![c] = [@ EXCEPT !.op = op, !.pc = pc, !.drain = S]]
      /\ UNCHANGED <<running, life, run, active, file, logs, fires, crashes>>
  BY DEF Detach, Dropped, Issue
<1> HIDE DEF t, S
<1>5. TasksAreLive'
  <2> SUFFICES ASSUME NEW u \in Tasks, tasks'[u] # Nil
               PROVE  /\ running' /\ reg'[tasks'[u]].task = u
                      /\ ~reg'[tasks'[u]].retired /\ reg'[tasks'[u]].loop # "none"
    BY DEF TasksAreLive
  <2>1. u # t /\ tasks'[u] = tasks[u] /\ tasks[u] \in Regs
    BY <1>1, <1>2, <1>4 DEF TypeOK
  <2>2. reg[tasks[u]].task = u /\ tasks[u] \notin S
    BY <1>1, <1>3, <2>1 DEF TasksAreLive
  <2>3. /\ reg'[tasks[u]].task = u /\ reg'[tasks[u]].loop = reg[tasks[u]].loop
        /\ reg'[tasks[u]].retired = (reg[tasks[u]].retired \/ tasks[u] \in S)
    BY <1>1, <1>3, <1>4, <2>1, <2>2, RetireType
  <2> QED BY <1>1, <1>4, <2>1, <2>2, <2>3 DEF TasksAreLive
<1>6. tasks' \in [Tasks -> Regs \cup {Nil}] /\ running' \in BOOLEAN
  BY <1>1, <1>4 DEF TypeOK
<1>7. calls' \in Nat
  <2>1. calls' = calls + 1
    BY DEF Detach, Dropped, Issue
  <2> QED BY <1>1, <2>1 DEF TypeOK
<1>8. cl[c].task # Nil /\ pc \in {"replacing", "draining", "stopping"}
  BY <1>4 DEF t
<1> QED BY <1>3, <1>4, <1>5, <1>6, <1>7, <1>8, Retires

\* Stop preserves the inductive invariant.
LEMMA StopKeeps ==
  ASSUME IInv, NEW c \in Callers, Stop(c)
  PROVE  IInv'
<1> USE NilAssumption
<1> DEFINE S == {tasks[t] : t \in Tasks} \ {Nil}
<1>1. TypeOK /\ TasksAreLive
  BY DEF IInv
<1>2. S \in SUBSET Regs /\ \A q \in S : reg[q].task # Nil /\ reg[q].loop # "none"
  BY <1>1 DEF TypeOK, TasksAreLive
<1>3. /\ cl[c].pc = "idle" /\ reg' = Retire(S)
      /\ cl' = [cl EXCEPT ![c] = [@ EXCEPT !.op = "stop", !.pc = "stopping", !.drain = S]]
      /\ UNCHANGED <<life, run, active, file, logs, fires, crashes>>
  BY DEF Stop, Issue
<1>4. tasks' \in [Tasks -> Regs \cup {Nil}] /\ running' \in BOOLEAN
  BY DEF Stop
<1>6. calls' \in Nat
  <2>1. calls' = calls + 1
    BY DEF Stop, Issue
  <2> QED BY <1>1, <2>1 DEF TypeOK
<1>5. TasksAreLive'
  BY DEF TasksAreLive, Stop
<1> HIDE DEF S
<1> QED BY <1>2, <1>3, <1>4, <1>5, <1>6, Retires DEF OpNames

\* Commit preserves the inductive invariant.
LEMMA CommitKeeps ==
  ASSUME IInv, NEW c \in Callers, Commit(c)
  PROVE  IInv'
<1> USE NilAssumption
<1>1. /\ TypeOK /\ TasksAreLive /\ OneSkipper
      /\ \A q \in Regs : RegOK(q)
      /\ \A j \in Runs : RunOK(j)
      /\ \A d \in Callers : CallerOK(d) /\ DrainOK(d)
  BY DEF IInv
<1>2. cl[c] \in CallerRec /\ cl[c].task \in Tasks /\ cl[c].arg \in TaskVal
  BY <1>1 DEF TypeOK, CallerRec, CallerOK, Commit
<1>3. PICK r \in NextReg :
        /\ reg' = [reg EXCEPT ![r] = LoopReg(cl[c].task, cl[c].arg)]
        /\ tasks' = [tasks EXCEPT ![cl[c].task] = r]
  BY DEF Commit
<1>4. r \in Regs /\ reg[r].task = Nil
  BY NextRegFresh
<1>5. LoopReg(cl[c].task, cl[c].arg) \in RegRec
  BY <1>2 DEF LoopReg, FreeReg, RegRec, LoopPc
<1>6. /\ reg'[r].task = cl[c].task /\ reg'[r].val = cl[c].arg
      /\ ~reg'[r].retired /\ reg'[r].run = Nil /\ reg'[r].loop = "init"
      /\ \A q \in Regs : q # r => reg'[q] = reg[q]
  BY <1>1, <1>3, <1>4 DEF TypeOK, LoopReg, FreeReg
<1>7. TypeOK'
  <2>1. reg' \in [Regs -> RegRec]
    BY <1>1, <1>3, <1>5 DEF TypeOK
  <2>2. tasks' \in [Tasks -> Regs \cup {Nil}]
    BY <1>1, <1>3, <1>4 DEF TypeOK
  <2>3. cl' \in [Callers -> CallerRec]
    BY <1>1, ReturnsType DEF Commit, Results
  <2> QED
    BY <1>1, <2>1, <2>2, <2>3 DEF TypeOK, Commit
<1>8. TasksAreLive'
  <2> SUFFICES ASSUME NEW t \in Tasks, tasks'[t] # Nil
               PROVE  /\ running' /\ reg'[tasks'[t]].task = t
                      /\ ~reg'[tasks'[t]].retired /\ reg'[tasks'[t]].loop # "none"
    BY DEF TasksAreLive
  <2>1. CASE t = cl[c].task
    BY <1>1, <1>2, <1>3, <1>6, <2>1 DEF TypeOK, Commit
  <2>2. CASE t # cl[c].task
    <3>1. tasks'[t] = tasks[t] /\ tasks[t] \in Regs
      BY <1>1, <1>3, <2>2 DEF TypeOK
    <3>2. tasks[t] # r
      BY <1>1, <1>4, <3>1 DEF TasksAreLive
    <3> QED BY <1>1, <1>6, <3>1, <3>2 DEF TasksAreLive, Commit
  <2> QED BY <2>1, <2>2
<1>9. ASSUME NEW q \in Regs PROVE RegOK(q)'
  <2>1. CASE q = r
    BY <1>2, <1>6, <2>1 DEF RegOK
  <2>2. CASE q # r
    <3>1. RegOK(q) /\ reg'[q] = reg[q] /\ UNCHANGED <<run, active>>
      BY <1>1, <1>6, <2>2 DEF Commit
    <3> QED BY <3>1 DEF RegOK, Unfinished, InFlight
  <2> QED BY <2>1, <2>2
<1>10. ASSUME NEW j \in Runs PROVE RunOK(j)'
  BY <1>1, <1>4, <1>6 DEF RunOK, Unfinished, InFlight, Commit
<1>11. /\ cl'[c].pc = "ret" /\ cl'[c].drain = cl[c].drain
       /\ cl'[c].task = cl[c].task /\ cl'[c].arg = cl[c].arg
       /\ cl'[c].reg = cl[c].reg
       /\ \A d \in Callers : d # c => cl'[d] = cl[d]
  BY <1>1, ReturnsType DEF Commit, Results
<1>12. ASSUME NEW d \in Callers PROVE CallerOK(d)'
  <2>1. cl[d] \in CallerRec /\ CallerOK(d)
    BY <1>1 DEF TypeOK
  <2>2. cl[d].reg # Nil => cl[d].reg \in Regs /\ cl[d].reg # r
    BY <1>4, <2>1 DEF CallerRec, CallerOK
  <2>3. CASE d = c
    BY <1>2, <1>6, <1>11, <2>1, <2>2, <2>3 DEF CallerOK
  <2>4. CASE d # c
    BY <1>6, <1>11, <2>1, <2>2, <2>4 DEF CallerOK, Commit
  <2> QED BY <2>3, <2>4
<1>13. ASSUME NEW d \in Callers PROVE DrainOK(d)'
  <2>1. cl[d] \in CallerRec /\ DrainOK(d)
    BY <1>1 DEF TypeOK
  <2>2. \A q \in cl[d].drain : q \in Regs /\ q # r
    BY <1>4, <2>1 DEF CallerRec, DrainOK
  <2>3. CASE d = c
    BY <1>6, <1>11, <2>1, <2>2, <2>3 DEF DrainOK, Idle, Commit
  <2>4. CASE d # c
    BY <1>6, <1>11, <2>1, <2>2, <2>4 DEF DrainOK, Idle
  <2> QED BY <2>3, <2>4
<1>14. OneSkipper'
  BY <1>1, <1>11 DEF OneSkipper
<1> QED BY <1>7, <1>8, <1>9, <1>10, <1>12, <1>13, <1>14 DEF IInv

\* Start preserves the inductive invariant.
LEMMA StartKeeps ==
  ASSUME IInv, Start
  PROVE  IInv'
<1> USE NilAssumption
<1>1. /\ TypeOK /\ TasksAreLive /\ OneSkipper
      /\ \A q \in Regs : RegOK(q)
      /\ \A j \in Runs : RunOK(j)
      /\ \A d \in Callers : CallerOK(d) /\ DrainOK(d)
  BY DEF IInv
<1> DEFINE T == {t \in Tasks : file[t] # Nil /\ Enabled(file[t])}
           started(f, r) == \E t \in DOMAIN f : f[t] = r
           owner(f, r) == CHOOSE t \in DOMAIN f : f[t] = r
<1>2. PICK f \in Assignments(T) :
        /\ tasks' = [t \in Tasks |-> IF t \in DOMAIN f THEN f[t] ELSE Nil]
        /\ reg' = [r \in Regs |-> IF started(f, r)
                                  THEN LoopReg(owner(f, r), file[owner(f, r)])
                                  ELSE reg[r]]
  BY DEF Start
<1>3. /\ f \in [T -> FreshRegs]
      /\ \A t, u \in T : f[t] = f[u] => t = u
  <2> DEFINE S == {g \in [T -> FreshRegs] : \A t, u \in T : g[t] = g[u] => t = u}
  <2>1. f \in OneOf(S)
    BY DEF Assignments
  <2>2. S # {} /\ f \in S
    BY <2>1 DEF OneOf
  <2> QED BY <2>2
<1>4. DOMAIN f = T
  BY <1>3
<1>5. \A t \in T : /\ t \in Tasks /\ file[t] \in TaskVal
                   /\ f[t] \in Regs /\ reg[f[t]].task = Nil
  BY <1>1, <1>3 DEF TypeOK, FreshRegs
<1>6. \A r \in Regs : started(f, r) => owner(f, r) \in T /\ f[owner(f, r)] = r
  BY <1>4
<1>7. \A t \in T : started(f, f[t]) /\ owner(f, f[t]) = t
  BY <1>3, <1>4, <1>5, <1>6
<1>8. \A r \in Regs :
        IF started(f, r)
        THEN /\ reg'[r] \in RegRec /\ reg[r].task = Nil
             /\ reg'[r].task = owner(f, r) /\ reg'[r].task \in Tasks
             /\ reg'[r].val \in TaskVal
             /\ ~reg'[r].retired /\ reg'[r].run = Nil /\ reg'[r].loop = "init"
        ELSE reg'[r] = reg[r]
  <2> SUFFICES ASSUME NEW r \in Regs, started(f, r)
               PROVE  /\ reg'[r] \in RegRec /\ reg[r].task = Nil
                      /\ reg'[r].task = owner(f, r) /\ reg'[r].task \in Tasks
                      /\ reg'[r].val \in TaskVal
                      /\ ~reg'[r].retired /\ reg'[r].run = Nil
                      /\ reg'[r].loop = "init"
    BY <1>2
  <2> DEFINE o == owner(f, r)
  <2>1. o \in T /\ f[o] = r
    BY <1>6
  <2>2. reg'[r] = LoopReg(o, file[o])
    BY <1>2
  <2>3. o \in Tasks /\ file[o] \in TaskVal /\ reg[r].task = Nil
    BY <1>5, <2>1
  <2> HIDE DEF o
  <2>4. LoopReg(o, file[o]) \in RegRec
    BY <2>3 DEF LoopReg, FreeReg, RegRec, LoopPc
  <2>5. /\ reg'[r].task = o /\ reg'[r].val = file[o]
        /\ ~reg'[r].retired /\ reg'[r].run = Nil /\ reg'[r].loop = "init"
    BY <2>2 DEF LoopReg, FreeReg
  <2> QED BY <2>2, <2>3, <2>4, <2>5 DEF o
<1>9. /\ \A t \in Tasks : tasks'[t] # Nil => t \in T /\ tasks'[t] = f[t]
      /\ \A t \in Tasks : tasks'[t] \in Regs \cup {Nil}
  BY <1>2, <1>4, <1>5
<1> HIDE DEF T, started, owner
<1>10. /\ running' = TRUE /\ run' = run /\ active' = active
       /\ logs' = logs /\ cl' = cl /\ life' = "live" /\ file' = file
       /\ calls' = calls /\ fires' = fires /\ crashes' = crashes
  BY DEF Start
<1>11. TypeOK'
  <2>1. reg' \in [Regs -> RegRec]
    <3>1. \A r \in Regs : reg'[r] \in RegRec
      BY <1>1, <1>8 DEF TypeOK
    <3> QED BY <1>2, <3>1
  <2>2. tasks' \in [Tasks -> Regs \cup {Nil}]
    BY <1>2, <1>9
  <2> QED BY <1>1, <1>10, <2>1, <2>2 DEF TypeOK
<1>12. TasksAreLive'
  BY <1>5, <1>7, <1>8, <1>9, <1>10 DEF TasksAreLive
<1>13. ASSUME NEW q \in Regs PROVE RegOK(q)'
  <2>1. CASE started(f, q)
    BY <1>8, <2>1 DEF RegOK
  <2>2. CASE ~started(f, q)
    BY <1>1, <1>8, <1>10, <2>2 DEF RegOK, Unfinished, InFlight
  <2> QED BY <2>1, <2>2
<1>14. ASSUME NEW j \in Runs PROVE RunOK(j)'
  <2>1. Unfinished(j) => run[j].reg \in Regs /\ ~started(f, run[j].reg)
    BY <1>1, <1>8 DEF RunOK
  <2> QED BY <1>1, <1>8, <1>10, <2>1 DEF RunOK, Unfinished, InFlight
<1>15. ASSUME NEW d \in Callers PROVE CallerOK(d)' /\ DrainOK(d)'
  <2>1. cl[d] \in CallerRec /\ CallerOK(d) /\ DrainOK(d)
    BY <1>1 DEF TypeOK
  <2>2. cl[d].reg # Nil => cl[d].reg \in Regs /\ ~started(f, cl[d].reg)
    BY <1>8, <2>1 DEF CallerRec, CallerOK
  <2>3. \A q \in cl[d].drain : q \in Regs /\ ~started(f, q)
    BY <1>8, <2>1 DEF CallerRec, DrainOK
  <2> QED BY <1>8, <1>10, <2>1, <2>2, <2>3 DEF CallerOK, DrainOK, Idle
<1>16. OneSkipper'
  BY <1>1, <1>10 DEF OneSkipper
<1> QED BY <1>11, <1>12, <1>13, <1>14, <1>15, <1>16 DEF IInv

\* Crash preserves the inductive invariant.
LEMMA CrashKeeps ==
  ASSUME IInv, Crash
  PROVE  IInv'
<1> USE NilAssumption
<1>1. TypeOK /\ \A j \in Runs : RunOK(j)
  BY DEF IInv
<1>2. \A j \in Runs :
        /\ run'[j] \in RunRec /\ run'[j].task = run[j].task
        /\ run[j].pc = "unused" => run'[j].pc = "unused"
        /\ run[j].pc # "unused" => run'[j].pc = "lost"
  <2> SUFFICES ASSUME NEW j \in Runs
               PROVE  /\ run'[j] \in RunRec /\ run'[j].task = run[j].task
                      /\ run[j].pc = "unused" => run'[j].pc = "unused"
                      /\ run[j].pc # "unused" => run'[j].pc = "lost"
    OBVIOUS
  <2>1. run[j] \in RunRec
    BY <1>1 DEF TypeOK
  <2>2. CASE run[j].pc = "unused"
    BY <2>1, <2>2 DEF Crash
  <2>3. CASE run[j].pc # "unused"
    BY <2>1, <2>3 DEF Crash, RunRec, FreeRun, RunPc
  <2> QED BY <2>2, <2>3
<1>3. \A q \in Regs : reg'[q] = FreeReg
  BY DEF Crash
<1>4. \A d \in Callers : cl'[d] = IdleCaller
  BY DEF Crash
<1>5. TypeOK'
  <2>1. FreeReg \in RegRec /\ IdleCaller \in CallerRec
    BY DEF FreeReg, RegRec, LoopPc, IdleCaller, CallerRec, CallerPc, Results
  <2>2. run' \in [Runs -> RunRec]
    <3>1. run' = [j \in Runs |-> run'[j]]
      BY DEF Crash
    <3> QED BY <1>2, <3>1
  <2>3. reg' \in [Regs -> RegRec] /\ cl' \in [Callers -> CallerRec]
    BY <2>1 DEF Crash
  <2>4. /\ tasks' \in [Tasks -> Regs \cup {Nil}]
        /\ active' \in [Tasks -> Runs \cup {Nil}]
    BY DEF Crash
  <2>5. crashes' \in Nat
    <3>1. crashes' = crashes + 1
      BY DEF Crash
    <3> QED BY <1>1, <3>1 DEF TypeOK
  <2> QED BY <1>1, <2>2, <2>3, <2>4, <2>5 DEF TypeOK, Crash
<1>6. TasksAreLive'
  BY DEF TasksAreLive, Crash
<1>7. ASSUME NEW q \in Regs PROVE RegOK(q)'
  BY <1>3 DEF RegOK, FreeReg
<1>8. ASSUME NEW j \in Runs PROVE RunOK(j)'
  BY <1>1, <1>2 DEF RunOK, Unfinished, InFlight, Crash
<1>9. ASSUME NEW d \in Callers PROVE CallerOK(d)' /\ DrainOK(d)'
  BY <1>4 DEF CallerOK, DrainOK, IdleCaller
<1>10. OneSkipper'
  BY <1>4 DEF OneSkipper, IdleCaller
<1> QED BY <1>5, <1>6, <1>7, <1>8, <1>9, <1>10 DEF IInv

\* The initial states satisfy the inductive invariant.
LEMMA InitIInv ==
  Init => IInv
<1> SUFFICES ASSUME Init
             PROVE  IInv
  OBVIOUS
<1> USE NilAssumption
<1>1. TypeOK
  <2>1. FreeReg \in RegRec /\ FreeRun \in RunRec /\ IdleCaller \in CallerRec
    BY DEF FreeReg, RegRec, LoopPc, FreeRun, RunRec, RunPc,
           IdleCaller, CallerRec, CallerPc, Results
  <2>2. /\ reg \in [Regs -> RegRec] /\ run \in [Runs -> RunRec]
        /\ cl \in [Callers -> CallerRec]
    BY <2>1 DEF Init
  <2>3. /\ tasks \in [Tasks -> Regs \cup {Nil}]
        /\ active \in [Tasks -> Runs \cup {Nil}]
        /\ logs \in [Runs -> Status]
    BY DEF Init, Status
  <2>4. file \in [Tasks -> TaskVal \cup {Nil}]
    BY DEF Init, TaskVal
  <2> QED BY <2>2, <2>3, <2>4 DEF TypeOK, Init
<1>2. TasksAreLive
  BY DEF TasksAreLive, Init
<1>3. ASSUME NEW q \in Regs PROVE RegOK(q)
  BY DEF RegOK, Init, FreeReg
<1>4. ASSUME NEW j \in Runs PROVE RunOK(j)
  BY DEF RunOK, Init, FreeRun, Unfinished, InFlight, FinalStatus
<1>5. ASSUME NEW d \in Callers PROVE CallerOK(d) /\ DrainOK(d)
  BY DEF CallerOK, DrainOK, Init, IdleCaller
<1>6. OneSkipper
  BY DEF OneSkipper, Init, IdleCaller
<1> QED BY <1>1, <1>2, <1>3, <1>4, <1>5, <1>6 DEF IInv

\* A stuttering step preserves it.
LEMMA StutterKeeps ==
  ASSUME IInv, UNCHANGED vars
  PROVE  IInv'
BY DEF vars, IInv, TypeOK, TasksAreLive, RegOK, RunOK, CallerOK, DrainOK,
       OneSkipper, Unfinished, InFlight, Idle

\* Every step preserves it: one lemma per action.
LEMMA NextKeeps ==
  ASSUME IInv, Next
  PROVE  IInv'
<1>1. CASE Start \/ Crash
  BY <1>1, StartKeeps, CrashKeeps
<1>2. ASSUME NEW c \in Callers, CallStep(c)
      PROVE  IInv'
  <2>1. ASSUME NEW t \in Tasks, Load(c, t) \/ Delete(c, t)
        PROVE  IInv'
    BY <2>1, LoadKeeps, DeleteKeeps
  <2>2. ASSUME NEW t \in Tasks, NEW v \in Drafts(c, t), Save(c, t, v)
        PROVE  IInv'
    BY <2>2, SaveKeeps DEF Drafts
  <2>3. CASE Unregister(c) \/ Upsert(c)
    BY <2>3, DetachKeeps DEF Unregister, Upsert, OpNames
  <2>4. CASE Stop(c)
    BY <2>4, StopKeeps
  <2>5. ASSUME NEW op \in OpNames, Manual(c, op) \/ Refused(c, op)
        PROVE  IInv'
    BY <2>5, ManualKeeps, RefusedKeeps
  <2>6. ASSUME NEW k \in Runs, StopRun(c, k) \/ StopRunMisses(c, k)
        PROVE  IInv'
    BY <2>6, StopRunKeeps, StopRunMissesKeeps
  <2> QED BY <1>2, <2>1, <2>2, <2>3, <2>4, <2>5, <2>6 DEF CallStep, OpNames
<1>3. ASSUME NEW c \in Callers, Resume(c)
      PROVE  IInv'
  <2>1. CASE Commit(c) \/ CommitRefused(c) \/ Drained(c) \/ CancelLifecycle(c)
    BY <2>1, CommitKeeps, WaitEndsKeeps, CancelLifecycleKeeps
  <2>2. ASSUME NEW k \in NextRun,
               BeginManual(c, k) \/ BeginAdHoc(c, k) \/ BeginSkipped(c, k)
        PROVE  IInv'
    BY <2>2, BeginManualKeeps, BeginAdHocKeeps, BeginSkippedKeeps
  <2>3. CASE AppendSkipped(c) \/ RunNowDone(c) \/ StartNowDone(c)
    BY <2>3, AppendSkippedKeeps, RunAnswerKeeps
  <2>4. CASE CancelRun(c) \/ StopRunDone(c) \/ Return(c)
    BY <2>4, CancelRunKeeps, RunAnswerKeeps, ReturnKeeps
  <2> QED BY <1>3, <2>1, <2>2, <2>3, <2>4 DEF Resume
<1>4. ASSUME NEW c \in Callers, StopRunTimeout(c)
      PROVE  IInv'
  BY <1>4, RunAnswerKeeps
<1>5. ASSUME NEW r \in Regs, LoopStep(r) \/ Fire(r)
      PROVE  IInv'
  <2>1. CASE Persist(r) \/ PersistLater(r) \/ PersistSave(r)
    BY <2>1, PersistKeeps, PersistLaterKeeps, PersistSaveKeeps
  <2>2. CASE FireRetired(r) \/ LoopExit(r) \/ Fire(r)
    BY <2>2, FireRetiredKeeps, LoopExitKeeps, FireKeeps
  <2>3. ASSUME NEW k \in NextRun, FireBegin(r, k) \/ FireSkipped(r, k)
        PROVE  IInv'
    BY <2>3, FireBeginKeeps, FireSkippedKeeps
  <2> QED BY <1>5, <2>1, <2>2, <2>3 DEF LoopStep
<1>6. ASSUME NEW k \in Runs, RunStep(k) \/ Progress(k)
      PROVE  IInv'
  <2>1. CASE RegisterActive(k) \/ RejectActive(k) \/ StartLog(k) \/ StartLogFails(k)
    BY <2>1, RegisterActiveKeeps, RejectActiveKeeps, StartLogKeeps, StartLogFailsKeeps
  <2>2. CASE SaveResult(k) \/ SaveResultFails(k) \/ LogResult(k)
    BY <2>2, SaveResultKeeps, SaveResultFailsKeeps, LogResultKeeps
  <2>3. CASE FinishActive(k) \/ Release(k) \/ Progress(k)
    BY <2>3, FinishActiveKeeps, ReleaseKeeps, ProgressKeeps
  <2>4. ASSUME NEW st \in Outcomes, NEW late \in BOOLEAN, ExecReturn(k, st, late)
        PROVE  IInv'
    BY <2>4, ExecReturnKeeps
  <2> QED BY <1>6, <2>1, <2>2, <2>3, <2>4 DEF RunStep
<1> QED BY <1>1, <1>2, <1>3, <1>4, <1>5, <1>6 DEF Next

\* The invariant is inductive: for any tasks, callers, definitions and bounds,
\* with store faults and crashes.
THEOREM Inductive ==
  Spec => []IInv
<1>1. IInv /\ [Next]_vars => IInv'
  BY NextKeeps, StutterKeeps
<1> QED BY <1>1, InitIInv, PTL DEF Spec

-----------------------------------------------------------------------------
(* What the invariant gives.                                               *)

\* Every variable keeps its type.
THEOREM TypeCorrect ==
  Spec => []TypeOK
<1>1. IInv => TypeOK
  BY DEF IInv
<1> QED BY <1>1, Inductive, PTL

\* Two runs of a task never execute at once (active_runs.go, run_executor.go:22):
\* the invariant gives both the task's one slot.
THEOREM OneRunPerTask ==
  Spec => []SingleFlight
<1>1. IInv => SingleFlight
  BY DEF IInv, SingleFlight, RunOK
<1> QED BY <1>1, Inductive, PTL

\* s.tasks never leads to a retired registration (registration.go, scheduler.go).
THEOREM MapHoldsLive ==
  Spec => []TasksAreLive
<1>1. IInv => TasksAreLive
  BY DEF IInv
<1> QED BY <1>1, Inductive, PTL

\* After waitIdle no goroutine works for the registration it waited for
\* (registration.go:34): the caller's set holds only retired, idle registrations,
\* and a run with steps left holds its own.
THEOREM BarrierIsReal ==
  Spec => []BarrierHolds
<1>1. IInv => BarrierHolds
  <2> SUFFICES ASSUME IInv, NEW c \in Callers, cl[c].pc = "ret",
                      NEW r \in cl[c].drain
               PROVE  /\ reg[r].retired
                      /\ reg[r].loop = "exited"
                      /\ \A k \in Runs : run[k].reg = r => ~Unfinished(k)
    BY DEF BarrierHolds
  <2>1. reg[r].retired /\ Idle(r) /\ reg[r].loop # "none"
    BY DEF IInv, DrainOK
  <2>2. \A k \in Runs : Unfinished(k) => reg[run[k].reg].run = k
    BY DEF IInv, RunOK
  <2> QED BY <2>1, <2>2, NilAssumption DEF Idle
<1> QED BY <1>1, Inductive, PTL

\* A retired registration with its loop closed and no run is not touched by any
\* step: retire() is applied to what s.tasks holds, beginRun refuses it, and the
\* steps of a loop or a run need one.
LEMMA QuietStep ==
  ASSUME IInv, Next, life' # "none",
         NEW r \in Regs, reg[r].retired, Idle(r)
  PROVE  reg'[r] = reg[r]
<1> USE NilAssumption
<1>1. /\ TypeOK /\ TasksAreLive
      /\ RegOK(r)
      /\ \A j \in Runs : RunOK(j)
  BY DEF IInv
<1>2. reg[r].task # Nil /\ reg[r].run = Nil /\ reg[r].loop \in {"none", "exited"}
  BY <1>1 DEF RegOK, Idle
<1>3. \A k \in Runs : Unfinished(k) => run[k].reg # r
  BY <1>1, <1>2 DEF RunOK
<1>4. CASE Start
  <2> DEFINE T == {t \in Tasks : file[t] # Nil /\ Enabled(file[t])}
  <2>1. PICK f \in Assignments(T) :
          reg' = [q \in Regs |->
                    IF \E t \in DOMAIN f : f[t] = q
                    THEN LET t == CHOOSE u \in DOMAIN f : f[u] = q
                         IN  LoopReg(t, file[t])
                    ELSE reg[q]]
    BY <1>4 DEF Start
  <2>2. f \in [T -> FreshRegs]
    <3> DEFINE S == {g \in [T -> FreshRegs] : \A t, u \in T : g[t] = g[u] => t = u}
    <3>1. f \in OneOf(S)
      BY DEF Assignments
    <3>2. S # {} /\ f \in S
      BY <3>1 DEF OneOf
    <3> QED BY <3>2
  <2>3. ~\E t \in DOMAIN f : f[t] = r
    BY <1>2, <2>2 DEF FreshRegs
  <2> QED BY <2>1, <2>3
<1>5. CASE Crash
  BY <1>5 DEF Crash
<1>6. ASSUME NEW c \in Callers, CallStep(c)
      PROVE  reg'[r] = reg[r]
  <2>1. ASSUME NEW S, r \notin S, reg' = Retire(S)
        PROVE  reg'[r] = reg[r]
    BY <2>1 DEF Retire
  <2>2. \A t \in Tasks : tasks[t] # r
    BY <1>1, <1>2 DEF TasksAreLive
  <2>3. ASSUME NEW op, NEW pc, Detach(c, op, pc)
        PROVE  reg'[r] = reg[r]
    <3>1. cl[c].task \in Tasks
      BY <1>1, <2>3 DEF TypeOK, CallerRec, Detach, Dropped
    <3>2. r \notin Registered(cl[c].task)
      BY <2>2, <3>1 DEF Registered
    <3> QED BY <2>1, <2>3, <3>2 DEF Detach, Dropped
  <2>4. CASE Stop(c)
    BY <2>1, <2>2, <2>4 DEF Stop
  <2>5. CASE Unregister(c) \/ Upsert(c)
    BY <2>3, <2>5 DEF Unregister, Upsert
  <2>6. CASE \E t \in Tasks : Load(c, t) \/ Delete(c, t)
                              \/ \E v \in Drafts(c, t) : Save(c, t, v)
    BY <2>6 DEF Load, Delete, Save
  <2>7. CASE \E op \in OpNames : Manual(c, op) \/ Refused(c, op)
    BY <2>7 DEF Manual, Refused
  <2>8. CASE \E k \in Runs : StopRun(c, k) \/ StopRunMisses(c, k)
    BY <2>8 DEF StopRun, StopRunMisses
  <2> QED BY <1>6, <2>4, <2>5, <2>6, <2>7, <2>8 DEF CallStep, OpNames
<1>7. ASSUME NEW c \in Callers, Resume(c) \/ StopRunTimeout(c)
      PROVE  reg'[r] = reg[r]
  <2>1. CASE Commit(c)
    <3>1. PICK q \in NextReg : reg' = [reg EXCEPT ![q] = LoopReg(cl[c].task, cl[c].arg)]
      BY <2>1 DEF Commit
    <3>2. q # r
      BY <1>2, NextRegFresh
    <3> QED BY <1>1, <3>1, <3>2 DEF TypeOK
  <2>2. ASSUME NEW k \in NextRun, BeginManual(c, k)
        PROVE  reg'[r] = reg[r]
    BY <1>1, <2>2 DEF TypeOK, BeginManual, CanBegin
  <2>3. ASSUME NEW k \in NextRun, BeginSkipped(c, k)
        PROVE  reg'[r] = reg[r]
    BY <1>1, <2>3 DEF TypeOK, BeginSkipped
  <2>4. ASSUME NEW k \in NextRun, BeginAdHoc(c, k)
        PROVE  reg'[r] = reg[r]
    <3>1. PICK q \in NextReg :
            reg' = [reg EXCEPT ![q] =
                      AdHocReg(cl[c].task, cl[c].arg,
                               IF cl[c].reg = Nil THEN FALSE
                               ELSE reg[cl[c].reg].ctxDone, k)]
      BY <2>4 DEF BeginAdHoc
    <3>2. q # r
      BY <1>2, NextRegFresh
    <3> QED BY <1>1, <3>1, <3>2 DEF TypeOK
  <2>5. CASE CommitRefused(c) \/ Drained(c) \/ CancelLifecycle(c) \/ AppendSkipped(c)
    BY <2>5 DEF CommitRefused, Drained, CancelLifecycle, AppendSkipped
  <2>6. CASE RunNowDone(c) \/ StartNowDone(c) \/ CancelRun(c) \/ StopRunDone(c)
             \/ Return(c) \/ StopRunTimeout(c)
    BY <2>6 DEF RunNowDone, StartNowDone, CancelRun, StopRunDone, Return, StopRunTimeout
  <2> QED BY <1>7, <2>1, <2>2, <2>3, <2>4, <2>5, <2>6 DEF Resume
<1>8. ASSUME NEW q \in Regs, LoopStep(q) \/ Fire(q)
      PROVE  reg'[r] = reg[r]
  <2>1. CASE q = r
    <3>1. reg[q].loop \notin {"init", "save", "wait", "fired", "next"}
      BY <1>2, <2>1
    <3> QED BY <1>8, <3>1
            DEF LoopStep, Persist, PersistLater, MayPersist, PersistSave, Fire,
                FireBegin, FireSkipped, FireRetired, LoopExit
  <2>2. CASE q # r
    <3>1. CASE Persist(q) \/ PersistLater(q) \/ PersistSave(q) \/ Fire(q)
      BY <1>1, <2>2, <3>1 DEF TypeOK, Persist, PersistLater, PersistSave, Fire
    <3>2. CASE FireRetired(q) \/ LoopExit(q)
      BY <1>1, <2>2, <3>2 DEF TypeOK, FireRetired, LoopExit
    <3>3. CASE \E k \in NextRun : FireBegin(q, k) \/ FireSkipped(q, k)
      BY <1>1, <2>2, <3>3 DEF TypeOK, FireBegin, FireSkipped
    <3> QED BY <1>8, <3>1, <3>2, <3>3 DEF LoopStep
  <2> QED BY <2>1, <2>2
<1>9. ASSUME NEW k \in Runs, RunStep(k) \/ Progress(k)
      PROVE  reg'[r] = reg[r]
  <2>1. CASE Release(k)
    <3>1. run[k].reg # r
      BY <1>3, <2>1 DEF Release, Unfinished
    <3> QED BY <1>1, <2>1, <3>1 DEF TypeOK, Release
  <2>2. ASSUME NEW st \in Outcomes, NEW late \in BOOLEAN, ExecReturn(k, st, late)
        PROVE  reg'[r] = reg[r]
    <3>1. run[k].reg # r
      BY <1>3, <2>2 DEF ExecReturn, Unfinished, InFlight
    <3>2. PICK v : reg' = [reg EXCEPT ![run[k].reg] = v]
      BY <2>2 DEF ExecReturn
    <3> QED BY <1>1, <3>1, <3>2 DEF TypeOK
  <2>3. CASE RegisterActive(k) \/ RejectActive(k) \/ StartLog(k) \/ StartLogFails(k)
             \/ Progress(k)
    BY <2>3 DEF RegisterActive, RejectActive, StartLog, StartLogFails, Progress
  <2>4. CASE SaveResult(k) \/ SaveResultFails(k) \/ LogResult(k) \/ FinishActive(k)
    BY <2>4 DEF SaveResult, SaveResultFails, LogResult, FinishActive
  <2> QED BY <1>9, <2>1, <2>2, <2>3, <2>4 DEF RunStep
<1> QED BY <1>4, <1>5, <1>6, <1>7, <1>8, <1>9 DEF Next

\* Once idle, a retired registration stays as it is for the life of the process,
\* whatever callers still hold a pointer to it (registration.go:44).
THEOREM RetiredIsQuiet ==
  Spec => RetiredStaysQuiet
<1> DEFINE Quiet == \A r \in Regs :
                      reg[r].retired /\ Idle(r) /\ life' # "none" => reg'[r] = reg[r]
<1>1. IInv /\ [Next]_vars => [Quiet]_vars
  <2>1. IInv /\ Next => Quiet
    BY QuietStep
  <2> QED BY <2>1
<1> QED BY <1>1, Inductive, PTL DEF Spec, RetiredStaysQuiet

\* What each run's phase is in TaskRuns' eyes.
phases == [k \in Runs |-> Phase(k)]

\* The disjuncts of TaskRuns' next-state relation, by name.
LEMMA AbsMoves ==
  /\ \A t \in Tasks, k \in Runs : Abs!Begin(t, k) => Abs!AbsNext
  /\ \A t \in Tasks, k \in Runs : Abs!End(t, k) => Abs!AbsNext
  /\ \A k \in Runs : Abs!Refuse(k) => Abs!AbsNext
  /\ \A k \in Runs : Abs!Skipped(k) => Abs!AbsNext
  /\ \A k \in Runs, s \in FinalStatus \cup {"running"} : Abs!Write(k, s) => Abs!AbsNext
  /\ \A S \in SUBSET Runs : Abs!Erase(S) => Abs!AbsNext
  /\ \A S \in SUBSET Runs : Abs!Die(S) => Abs!AbsNext
BY DEF Abs!AbsNext, Abs!Final, FinalStatus

\* The refinement mapping's phases, run by run.
LEMMA PhaseOf ==
  ASSUME NEW k \in Runs
  PROVE  /\ phases[k] = Phase(k)
         /\ phases'[k] = Phase(k)'
BY DEF phases

\* The run of a step moves from one phase to another, and no other run does.
LEMMA PhaseMoves ==
  ASSUME NEW j \in Runs, \A k \in Runs : k # j => Phase(k)' = Phase(k)
  PROVE  phases' = [phases EXCEPT ![j] = Phase(j)']
BY DEF phases

\* A step that changes no phase, slot or log is a stutter of TaskRuns.
LEMMA Unseen ==
  ASSUME \A k \in Runs : Phase(k)' = Phase(k), active' = active, logs' = logs
  PROVE  UNCHANGED Abs!AbsVars
BY DEF Abs!AbsVars

\* The steps of a run goroutine: it takes its slot, writes its log while it holds
\* it, and gives it back.
LEMMA RunSteps ==
  ASSUME IInv, NEW k \in Runs, RunStep(k) \/ Progress(k)
  PROVE  Abs!AbsNext \/ UNCHANGED Abs!AbsVars
<1> USE NilAssumption
<1>1. TypeOK /\ run[k] \in RunRec /\ RunOK(k)
  BY DEF IInv, TypeOK
<1>2. CASE RegisterActive(k)
  <2>1. run[k].task \in Tasks /\ active[run[k].task] = Nil
    BY <1>1, <1>2 DEF RegisterActive, RunOK, SlotFree
  <2>2. Phase(k) = "new" /\ Phase(k)' = "running" /\ \A j \in Runs : j # k => Phase(j)' = Phase(j)
    BY <1>1, <1>2 DEF TypeOK, RunRec, RegisterActive, Phase, InFlight
  <2>3. Abs!Begin(run[k].task, k)
    BY <1>2, <2>1, <2>2, PhaseOf, PhaseMoves DEF Abs!Begin, RegisterActive, phases
  <2> QED BY <2>1, <2>3, AbsMoves
<1>3. CASE RejectActive(k)
  <2>2. Phase(k) = "new" /\ Phase(k)' = "over" /\ \A j \in Runs : j # k => Phase(j)' = Phase(j)
    BY <1>1, <1>3 DEF TypeOK, RunRec, RejectActive, Phase, InFlight
  <2>3. logs[k] \notin FinalStatus
    BY <1>1, <1>3 DEF RejectActive, RunOK
  <2>4. Abs!Refuse(k)
    BY <1>3, <2>2, <2>3, PhaseOf, PhaseMoves
    DEF Abs!Refuse, Abs!Final, FinalStatus, RejectActive, phases
  <2> QED BY <2>4, AbsMoves
<1>4. CASE StartLog(k)
  <2>1. \A j \in Runs : Phase(j)' = Phase(j)
    BY <1>1, <1>4 DEF TypeOK, RunRec, StartLog, Phase, InFlight
  <2>2. Phase(k) = "running" /\ logs[k] \notin FinalStatus
    BY <1>1, <1>4 DEF StartLog, Phase, InFlight, RunOK
  <2>3. Abs!Write(k, "running")
    BY <1>4, <2>1, <2>2 DEF Abs!Write, Abs!Final, FinalStatus, StartLog
  <2> QED BY <2>3, AbsMoves
<1>5. CASE Progress(k)
  <2>1. \A j \in Runs : Phase(j)' = Phase(j)
    BY <1>5 DEF Progress, Phase, InFlight
  <2>2. Phase(k) = "running" /\ logs[k] \notin FinalStatus
    BY <1>1, <1>5 DEF Progress, MayReport, Phase, InFlight, RunOK
  <2>3. Abs!Write(k, "running")
    BY <1>5, <2>1, <2>2 DEF Abs!Write, Abs!Final, FinalStatus, Progress
  <2> QED BY <2>3, AbsMoves
<1>8. CASE StartLogFails(k)
  <2>1. run[k].task \in Tasks /\ active[run[k].task] = k
    BY <1>1, <1>8 DEF StartLogFails, RunOK, InFlight
  <2>2. Phase(k) = "running" /\ Phase(k)' = "over" /\ \A j \in Runs : j # k => Phase(j)' = Phase(j)
    BY <1>1, <1>8 DEF TypeOK, RunRec, StartLogFails, Phase, InFlight
  <2>3. Abs!End(run[k].task, k)
    BY <1>8, <2>1, <2>2, PhaseOf, PhaseMoves DEF Abs!End, StartLogFails, Unslot, phases
  <2> QED BY <2>1, <2>3, AbsMoves
<1>9. CASE FinishActive(k)
  <2>1. run[k].task \in Tasks /\ active[run[k].task] = k
    BY <1>1, <1>9 DEF FinishActive, RunOK, InFlight
  <2>2. Phase(k) = "running" /\ Phase(k)' = "over" /\ \A j \in Runs : j # k => Phase(j)' = Phase(j)
    BY <1>1, <1>9 DEF TypeOK, RunRec, FinishActive, Phase, InFlight
  <2>3. Abs!End(run[k].task, k)
    BY <1>9, <2>1, <2>2, PhaseOf, PhaseMoves DEF Abs!End, FinishActive, Unslot, phases
  <2> QED BY <2>1, <2>3, AbsMoves
<1>6. CASE LogResult(k)
  <2>1. \A j \in Runs : Phase(j)' = Phase(j)
    BY <1>1, <1>6 DEF TypeOK, RunRec, LogResult, Phase, InFlight
  <2>2. Phase(k) = "running" /\ logs[k] \notin FinalStatus /\ run[k].status \in FinalStatus
    BY <1>1, <1>6 DEF LogResult, Phase, InFlight, RunOK
  <2>3. CASE logs' = logs
    BY <1>6, <2>1, <2>3, Unseen DEF LogResult
  <2>4. CASE logs' = [logs EXCEPT ![k] = run[k].status]
    <3>1. Abs!Write(k, run[k].status)
      BY <1>6, <2>1, <2>2, <2>4 DEF Abs!Write, Abs!Final, FinalStatus, LogResult
    <3> QED BY <2>2, <3>1, AbsMoves
  <2> QED BY <1>6, <2>3, <2>4 DEF LogResult, Attempt
<1>10. CASE SaveResult(k)
  <2>1. \A j \in Runs : Phase(j)' = Phase(j)
    BY <1>1, <1>10 DEF TypeOK, RunRec, SaveResult, Phase, InFlight
  <2> QED BY <1>10, <2>1, Unseen DEF SaveResult
<1>11. CASE SaveResultFails(k)
  <2>1. \A j \in Runs : Phase(j)' = Phase(j)
    BY <1>1, <1>11 DEF TypeOK, RunRec, SaveResultFails, Phase, InFlight
  <2> QED BY <1>11, <2>1, Unseen DEF SaveResultFails
<1>12. CASE Release(k)
  <2>1. \A j \in Runs : Phase(j)' = Phase(j)
    BY <1>1, <1>12 DEF TypeOK, RunRec, Release, Phase, InFlight
  <2> QED BY <1>12, <2>1, Unseen DEF Release
<1>7. ASSUME NEW st \in Outcomes, NEW late \in BOOLEAN, ExecReturn(k, st, late)
      PROVE  UNCHANGED Abs!AbsVars
  <2>1. \A j \in Runs : Phase(j)' = Phase(j)
    BY <1>1, <1>7 DEF TypeOK, RunRec, ExecReturn, Phase, InFlight
  <2> QED BY <1>7, <2>1, Unseen DEF ExecReturn
<1> QED
  BY <1>2, <1>3, <1>4, <1>5, <1>6, <1>7, <1>8, <1>9, <1>10, <1>11, <1>12 DEF RunStep

\* The steps of a timer loop: only a skipped run shows.
LEMMA LoopSteps ==
  ASSUME IInv, NEW r \in Regs, LoopStep(r) \/ Fire(r)
  PROVE  Abs!AbsNext \/ UNCHANGED Abs!AbsVars
<1> USE NilAssumption
<1>1. TypeOK /\ \A k \in Runs : RunOK(k)
  BY DEF IInv
<1>2. CASE Persist(r) \/ PersistLater(r) \/ PersistSave(r) \/ FireRetired(r)
           \/ LoopExit(r) \/ Fire(r)
  <2>1. run' = run /\ active' = active /\ logs' = logs
    BY <1>2 DEF Persist, PersistLater, PersistSave, FireRetired, LoopExit, Fire
  <2> QED BY <2>1, Unseen DEF Phase, InFlight
<1>3. ASSUME NEW k \in NextRun, FireBegin(r, k)
      PROVE  Abs!AbsNext \/ UNCHANGED Abs!AbsVars
  <2>1. k \in Runs /\ run[k].pc = "unused"
    BY NextRunFresh
  <2>2. \A j \in Runs : Phase(j)' = Phase(j)
    BY <1>1, <1>3, <2>1 DEF TypeOK, RunRec, FireBegin, NewRun, FreeRun, Phase, InFlight
  <2> QED BY <1>3, <2>2, Unseen DEF FireBegin
<1>4. ASSUME NEW k \in NextRun, FireSkipped(r, k)
      PROVE  Abs!AbsNext
  <2>1. k \in Runs /\ run[k].pc = "unused"
    BY NextRunFresh
  <2>2. Phase(k) = "new" /\ Phase(k)' = "over" /\ \A j \in Runs : j # k => Phase(j)' = Phase(j)
    BY <1>1, <1>4, <2>1 DEF TypeOK, RunRec, FireSkipped, NewRun, FreeRun, Phase, InFlight
  <2>3. logs[k] \notin FinalStatus
    BY <1>1, <2>1 DEF RunOK
  <2>4. Abs!Refuse(k)
    BY <1>4, <2>1, <2>2, <2>3, PhaseOf, PhaseMoves DEF Abs!Refuse, Abs!Final, FinalStatus, FireSkipped, Attempt, phases
  <2> QED BY <2>1, <2>4, AbsMoves
<1> QED BY <1>2, <1>3, <1>4 DEF LoopStep

\* The first step of a call: only DeleteTask shows.
LEMMA CallSteps ==
  ASSUME IInv, NEW c \in Callers, CallStep(c) \/ StopRunTimeout(c)
  PROVE  Abs!AbsNext \/ UNCHANGED Abs!AbsVars
<1>1. ASSUME NEW t \in Tasks, Delete(c, t)
      PROVE  Abs!AbsNext \/ UNCHANGED Abs!AbsVars
  <2> DEFINE S == {k \in Runs : run[k].task = t}
  <2>1. run' = run /\ active' = active
    BY <1>1 DEF Delete
  <2>2. \A k \in Runs : Phase(k)' = Phase(k)
    BY <2>1 DEF Phase, InFlight
  <2>3. CASE logs' = logs
    BY <2>1, <2>2, <2>3, Unseen
  <2>4. CASE logs' = Erased(t)
    <3>1. logs' = [k \in Runs |-> IF k \in S THEN "none" ELSE logs[k]]
      BY <2>4 DEF Erased
    <3>2. Abs!Erase(S)
      BY <3>1, <2>1, <2>2 DEF Abs!Erase
    <3> QED BY <3>2, AbsMoves
  <2> QED BY <1>1, <2>3, <2>4 DEF Delete, Attempt
<1>2. CASE (CallStep(c) /\ \A t \in Tasks : ~Delete(c, t)) \/ StopRunTimeout(c)
  <2>1. run' = run /\ active' = active /\ logs' = logs
    BY <1>2 DEF CallStep, Load, Save, Unregister, Upsert, Detach, Dropped, Stop, Manual,
                Refused, StopRun, StopRunMisses, StopRunTimeout
  <2> QED BY <2>1, Unseen DEF Phase, InFlight
<1> QED BY <1>1, <1>2

\* The later steps of a call: only a skipped manual run shows.
LEMMA ResumeSteps ==
  ASSUME IInv, NEW c \in Callers, Resume(c)
  PROVE  Abs!AbsNext \/ UNCHANGED Abs!AbsVars
<1> USE NilAssumption
<1>1. TypeOK /\ (\A k \in Runs : RunOK(k)) /\ CallerOK(c)
  BY DEF IInv
<1>2. CASE Commit(c) \/ CommitRefused(c) \/ Drained(c) \/ CancelLifecycle(c)
           \/ RunNowDone(c) \/ StartNowDone(c) \/ StopRunDone(c) \/ Return(c)
  <2>1. run' = run /\ active' = active /\ logs' = logs
    BY <1>2 DEF Commit, CommitRefused, Drained, CancelLifecycle, RunNowDone,
                StartNowDone, StopRunDone, Return
  <2> QED BY <2>1, Unseen DEF Phase, InFlight
<1>3. ASSUME NEW k \in NextRun, BeginManual(c, k)
      PROVE  UNCHANGED Abs!AbsVars
  <2>1. k \in Runs /\ run[k].pc = "unused"
    BY NextRunFresh
  <2>2. \A j \in Runs : Phase(j)' = Phase(j)
    BY <1>1, <1>3, <2>1 DEF TypeOK, RunRec, BeginManual, NewRun, FreeRun, Phase, InFlight
  <2> QED BY <1>3, <2>2, Unseen DEF BeginManual
<1>4. ASSUME NEW k \in NextRun, BeginAdHoc(c, k)
      PROVE  UNCHANGED Abs!AbsVars
  <2>1. k \in Runs /\ run[k].pc = "unused"
    BY NextRunFresh
  <2>2. \A j \in Runs : Phase(j)' = Phase(j)
    BY <1>1, <1>4, <2>1 DEF TypeOK, RunRec, BeginAdHoc, NewRun, FreeRun, Phase, InFlight
  <2> QED BY <1>4, <2>2, Unseen DEF BeginAdHoc
<1>5. ASSUME NEW k \in NextRun, BeginSkipped(c, k)
      PROVE  Abs!AbsNext
  <2>1. k \in Runs /\ run[k].pc = "unused"
    BY NextRunFresh
  <2>2. Phase(k) = "new" /\ Phase(k)' = "over" /\ \A j \in Runs : j # k => Phase(j)' = Phase(j)
    BY <1>1, <1>5, <2>1 DEF TypeOK, RunRec, BeginSkipped, NewRun, FreeRun, Phase, InFlight
  <2>3. logs[k] \notin FinalStatus
    BY <1>1, <2>1 DEF RunOK
  <2>4. Abs!Refuse(k)
    BY <1>5, <2>1, <2>2, <2>3, PhaseOf, PhaseMoves DEF Abs!Refuse, Abs!Final, FinalStatus, BeginSkipped, phases
  <2> QED BY <2>1, <2>4, AbsMoves
<1>6. CASE AppendSkipped(c)
  <2> DEFINE k == cl[c].run
  <2>1. k \in Runs /\ run[k].pc = "skip"
    BY <1>1, <1>6 DEF AppendSkipped, CallerOK
  <2>2. RunOK(k)
    BY <1>1, <2>1
  <2>3. \A j \in Runs : Phase(j)' = Phase(j)
    BY <1>1, <1>6, <2>1 DEF TypeOK, RunRec, AppendSkipped, Phase, InFlight
  <2>4. Phase(k) = "over" /\ logs[k] \notin FinalStatus
    BY <2>1, <2>2 DEF RunOK, Phase, InFlight
  <2> HIDE DEF k
  <2>5. CASE logs' = logs
    BY <1>6, <2>3, <2>5, Unseen DEF AppendSkipped
  <2>6. CASE logs' = [logs EXCEPT ![k] = "skipped"]
    <3>1. Abs!Skipped(k)
      BY <1>6, <2>1, <2>3, <2>4, <2>6 DEF Abs!Skipped, Abs!Final, FinalStatus, AppendSkipped
    <3> QED BY <2>1, <3>1, AbsMoves
  <2> QED BY <1>6, <2>5, <2>6 DEF AppendSkipped, Attempt, k
<1>7. CASE CancelRun(c)
  <2>1. \A j \in Runs : Phase(j)' = Phase(j)
    BY <1>1, <1>7 DEF TypeOK, RunRec, CancelRun, Phase, InFlight
  <2> QED BY <1>7, <2>1, Unseen DEF CancelRun
<1> QED BY <1>2, <1>3, <1>4, <1>5, <1>6, <1>7 DEF Resume

\* Start shows nothing; a crash ends what had begun.
LEMMA ProcessSteps ==
  ASSUME IInv, Start \/ Crash
  PROVE  Abs!AbsNext \/ UNCHANGED Abs!AbsVars
<1>1. TypeOK
  BY DEF IInv
<1>2. CASE Start
  <2>1. run' = run /\ active' = active /\ logs' = logs
    BY <1>2 DEF Start
  <2> QED BY <2>1, Unseen DEF Phase, InFlight
<1>3. CASE Crash
  <2> DEFINE S == {k \in Runs : run[k].pc # "unused"}
  <2>1. active' = [t \in Tasks |-> Nil] /\ logs' = logs
    BY <1>3 DEF Crash
  <2>2. \A k \in Runs : Phase(k) = "running" => k \in S
    BY DEF Phase, InFlight
  <2>3. ASSUME NEW k \in Runs
        PROVE  Phase(k)' = IF k \in S THEN "over" ELSE Phase(k)
    <3>1. run'[k].pc = IF k \in S THEN "lost" ELSE "unused"
      BY <1>1, <1>3 DEF TypeOK, RunRec, Crash, FreeRun
    <3> QED BY <3>1 DEF Phase, InFlight
  <2>4. Abs!Die(S)
    BY <2>1, <2>2, <2>3 DEF Abs!Die
  <2> QED BY <2>4, AbsMoves
<1> QED BY <1>2, <1>3

\* Every step of the scheduler is one of TaskRuns or a stutter.
LEMMA ViewStep == IInv /\ [Next]_vars => [Abs!AbsNext]_(Abs!AbsVars)
<1> SUFFICES ASSUME IInv, [Next]_vars
             PROVE  Abs!AbsNext \/ UNCHANGED Abs!AbsVars
  OBVIOUS
<1>1. CASE UNCHANGED vars
  <2>1. run' = run /\ active' = active /\ logs' = logs
    BY <1>1 DEF vars
  <2> QED BY <2>1, Unseen DEF Phase, InFlight
<1>2. CASE Next
  BY <1>2, CallSteps, ResumeSteps, LoopSteps, RunSteps, ProcessSteps DEF Next
<1> QED BY <1>1, <1>2

LEMMA ViewInit == Init => Abs!AbsInit
BY DEF Init, Abs!AbsInit, Phase, InFlight, FreeRun

\* Every step of the scheduler, whatever the number of tasks, callers and runs, is
\* a step of TaskRuns or leaves what TaskRuns sees unchanged: no interleaving,
\* store fault or crash lets a run write a log outside its slot.
THEOREM Refines == Spec => ImplementsTaskRuns
BY ViewInit, ViewStep, Inductive, PTL DEF Spec, ImplementsTaskRuns, Abs!AbsSpec

\* A final log on disk is never overwritten, by a late progress report
\* (run_progress.go) or by any other writer.  It follows from the refinement: in
\* TaskRuns nothing writes a log that is final.
THEOREM FinalLogStays == Spec => FinalLogSticks
<1> DEFINE Sticks == \A k \in Runs : logs[k] \in FinalStatus => logs'[k] \in {logs[k], "none"}
<1>1. TypeOK /\ Abs!AbsNext => Sticks
  BY DEF TypeOK, Abs!AbsNext, Abs!Begin, Abs!End, Abs!Refuse, Abs!Skipped, Abs!Write, Abs!Erase, Abs!Die, Abs!Final, FinalStatus
<1>2. UNCHANGED Abs!AbsVars => Sticks
  BY DEF Abs!AbsVars
<1>3. TypeOK /\ [Abs!AbsNext]_(Abs!AbsVars) => Sticks
  BY <1>1, <1>2
<1>4. IInv /\ [Next]_vars => [Sticks]_vars
  BY <1>3, ViewStep DEF IInv
<1> QED BY <1>4, Inductive, PTL DEF Spec, FinalLogSticks

-----------------------------------------------------------------------------
(* What a run leaves behind.                                               *)

\* A run has an outcome only at its end, and then its log has it too, unless a
\* write failed or the task was deleted; without faults and crashes a running log
\* is that of a run between its first log and its last.
LogOK(k) ==
  /\ run[k].final # "none" => run[k].pc \in {"finishing", "releasing", "done"}
  /\ ~StoreFaults /\ run[k].final # "none" => logs[k] \in {run[k].final, "none"}
  /\ ~StoreFaults /\ MaxCrashes = 0 /\ logs[k] = "running" =>
       run[k].pc \in {"executing", "saving", "logging"}

\* A slot is held by a run in flight of its task.
SlotOK(t) ==
  active[t] # Nil => InFlight(active[t]) /\ run[active[t]].task = t

\* A call that waits for a manual run is no StopRun, and a StopRun that returns an
\* outcome has waited for that run's handle.
AnswerOK(c) ==
  /\ cl[c].pc \in {"begin", "skip", "run", "start"} => cl[c].op # "stop_run"
  /\ cl[c].pc = "ret" /\ cl[c].op = "stop_run" /\ cl[c].res \in FinalStatus =>
       /\ cl[c].run \in Runs
       /\ HandleDone(cl[c].run)
       /\ run[cl[c].run].final = cl[c].res

Settled ==
  /\ \A k \in Runs : LogOK(k)
  /\ \A t \in Tasks : SlotOK(t)
  /\ \A c \in Callers : AnswerOK(c)

\* Nothing of a process is left when it has died.
DeadOK ==
  life = "none" => /\ \A r \in Regs : reg[r].task = Nil
                   /\ \A c \in Callers : cl[c].pc = "idle"

\* The loop may still fire: it is not over, nor is its context.
CanFire(r) == reg[r].loop \notin {"none", "exited"} /\ ~CtxDone(r)

Looped ==
  /\ DeadOK
  /\ \A c \in Callers : cl[c].pc = "replacing" => c \in Mutators /\ tasks[cl[c].task] = Nil
  /\ \A r \in Regs : CanFire(r) => tasks[reg[r].task] = r

-----------------------------------------------------------------------------
(* Settled *)

\* A step that leaves every run's place and outcome, and makes logs absent at most.
LEMMA RunsStand ==
  ASSUME TypeOK, Settled, active' = active,
         \A k \in Runs : /\ run'[k].pc = run[k].pc /\ run'[k].task = run[k].task
                        /\ run'[k].final = run[k].final
                        /\ logs'[k] \in {logs[k], "none"}
  PROVE  /\ \A k \in Runs : LogOK(k)'
         /\ \A t \in Tasks : SlotOK(t)'
         /\ \A c \in Callers : cl'[c] = cl[c] => AnswerOK(c)'
<1>1. ASSUME NEW k \in Runs PROVE LogOK(k)'
  BY DEF Settled, LogOK
<1>2. ASSUME NEW t \in Tasks PROVE SlotOK(t)'
  BY DEF TypeOK, Settled, SlotOK, InFlight
<1>3. ASSUME NEW c \in Callers, cl'[c] = cl[c] PROVE AnswerOK(c)'
  BY <1>3 DEF Settled, AnswerOK, HandleDone
<1> QED BY <1>1, <1>2, <1>3

\* A step of one caller that neither ends a StopRun nor lets one wait for a
\* manual run.
LEMMA CallerSettles ==
  ASSUME TypeOK, Settled, NEW c \in Callers, active' = active,
         \A k \in Runs : /\ run'[k].pc = run[k].pc /\ run'[k].task = run[k].task
                        /\ run'[k].final = run[k].final
                        /\ logs'[k] \in {logs[k], "none"},
         \A d \in Callers \ {c} : cl'[d] = cl[d],
         AnswerOK(c)'
  PROVE  Settled'
BY RunsStand DEF Settled

\* A step in which a run begins under an unused identity, or is skipped.
LEMMA RunBeginsSettled ==
  ASSUME IInv, Settled, active' = active,
         NEW k \in Runs, run[k].pc \in {"unused", "skip"},
         run'[k].final = run[k].final, run'[k].pc \in {"begun", "skip", "done"},
         logs'[k] \in {logs[k], "skipped"},
         \A j \in Runs \ {k} : run'[j] = run[j] /\ logs'[j] = logs[j]
  PROVE  /\ \A j \in Runs : LogOK(j)'
         /\ \A t \in Tasks : SlotOK(t)'
         /\ \A c \in Callers : cl'[c] = cl[c] => AnswerOK(c)'
<1>1. TypeOK /\ LogOK(k) /\ run[k].final = "none"
  BY DEF IInv, Settled, LogOK
<1>2. ASSUME NEW j \in Runs PROVE LogOK(j)'
  BY <1>1 DEF Settled, LogOK, FinalStatus
<1>3. ASSUME NEW t \in Tasks PROVE SlotOK(t)'
  BY <1>1 DEF TypeOK, Settled, SlotOK, InFlight
<1>4. ASSUME NEW c \in Callers, cl'[c] = cl[c] PROVE AnswerOK(c)'
  BY <1>1, <1>4 DEF Settled, AnswerOK, HandleDone, FinalStatus
<1> QED BY <1>2, <1>3, <1>4

\* A step of one run, up to its own slot, log and outcome.
LEMMA RunSettles ==
  ASSUME IInv, Settled, cl' = cl, NEW k \in Runs,
         \A j \in Runs \ {k} : run'[j] = run[j] /\ logs'[j] = logs[j],
         run'[k].task = run[k].task,
         LogOK(k)',
         HandleDone(k) => HandleDone(k)' /\ run'[k].final = run[k].final,
         \A t \in Tasks : \/ active'[t] = active[t] /\ active[t] # k
                          \/ active'[t] = Nil
                          \/ active'[t] = k /\ InFlight(k)' /\ run[k].task = t
  PROVE  Settled'
<1>1. TypeOK
  BY DEF IInv
<1>2. ASSUME NEW j \in Runs PROVE LogOK(j)'
  BY DEF Settled, LogOK
<1>3. ASSUME NEW t \in Tasks PROVE SlotOK(t)'
  BY <1>1 DEF TypeOK, Settled, SlotOK, InFlight
<1>4. ASSUME NEW c \in Callers PROVE AnswerOK(c)'
  BY DEF Settled, AnswerOK, HandleDone
<1> QED BY <1>2, <1>3, <1>4 DEF Settled

\* A call is issued, or goes on without touching a run, a slot or a log.
LEMMA CallSettles ==
  ASSUME IInv, Settled, NEW c \in Callers, CallStep(c) \/ StopRunTimeout(c)
  PROVE  Settled'
<1>1. TypeOK /\ AnswerOK(c) /\ cl[c] \in CallerRec
  BY DEF IInv, TypeOK, Settled
<1>2. ASSUME UNCHANGED <<run, active, logs>>,
             \A d \in Callers \ {c} : cl'[d] = cl[d], AnswerOK(c)'
      PROVE  Settled'
  BY <1>1, <1>2, CallerSettles
<1>3. ASSUME NEW t \in Tasks, Load(c, t)
      PROVE  Settled'
  <2>1. cl'[c].pc = "idle" /\ \A d \in Callers \ {c} : cl'[d] = cl[d]
    BY <1>1, <1>3 DEF TypeOK, Load, CallerRec
  <2> QED BY <1>2, <1>3, <2>1 DEF AnswerOK, Load
<1>4. ASSUME NEW t \in Tasks, NEW v, Save(c, t, v)
      PROVE  Settled'
  <2>1. cl'[c].pc = "idle" /\ \A d \in Callers \ {c} : cl'[d] = cl[d]
    BY <1>1, <1>4 DEF TypeOK, Save, Issue, CallerRec
  <2> QED BY <1>2, <1>4, <2>1 DEF AnswerOK, Save
<1>5. ASSUME NEW t \in Tasks, Delete(c, t)
      PROVE  Settled'
  <2>1. \A k \in Runs : logs'[k] \in {logs[k], "none"}
    BY <1>5 DEF Delete, Attempt, Erased
  <2> QED BY <1>1, <1>5, <2>1, CallerSettles DEF Delete, AnswerOK, HandleDone
<1>6. CASE Unregister(c) \/ Upsert(c)
  <2>1. ASSUME NEW op, NEW pc \in {"draining", "replacing"}, Detach(c, op, pc)
        PROVE  cl'[c].pc = pc /\ \A d \in Callers \ {c} : cl'[d] = cl[d]
    BY <1>1, <2>1 DEF TypeOK, Detach, CallerRec
  <2> QED BY <1>2, <1>6, <2>1 DEF AnswerOK, Unregister, Upsert, Detach, Dropped
<1>7. CASE Stop(c)
  <2>1. cl'[c].pc = "stopping" /\ \A d \in Callers \ {c} : cl'[d] = cl[d]
    BY <1>1, <1>7 DEF TypeOK, Stop, CallerRec
  <2> QED BY <1>2, <1>7, <2>1 DEF AnswerOK, Stop
<1>8. ASSUME NEW op \in OpNames, Manual(c, op)
      PROVE  Settled'
  <2>1. cl'[c].pc = "begin" /\ cl'[c].op # "stop_run"
    BY <1>1, <1>8 DEF TypeOK, Manual, CallerRec
  <2>2. \A d \in Callers \ {c} : cl'[d] = cl[d]
    BY <1>1, <1>8 DEF TypeOK, Manual, CallerRec
  <2> QED BY <1>2, <1>8, <2>1, <2>2 DEF AnswerOK, Manual
<1>9. ASSUME NEW op \in OpNames, Refused(c, op)
      PROVE  Settled'
  <2>1. cl'[c].pc = "ret" /\ cl'[c].res = "stopped" /\ \A d \in Callers \ {c} : cl'[d] = cl[d]
    BY <1>1, <1>9 DEF TypeOK, Refused, CallerRec
  <2> QED BY <1>2, <1>9, <2>1 DEF AnswerOK, Refused, FinalStatus
<1>10. ASSUME NEW k \in Runs, StopRun(c, k) \/ StopRunMisses(c, k)
       PROVE  Settled'
  <2>1. CASE StopRun(c, k)
    <3>1. cl'[c].pc = "cancel" /\ \A d \in Callers \ {c} : cl'[d] = cl[d]
      BY <1>1, <2>1 DEF TypeOK, StopRun, CallerRec
    <3> QED BY <1>2, <2>1, <3>1 DEF AnswerOK, StopRun
  <2>2. CASE StopRunMisses(c, k)
    <3>1. /\ cl'[c].pc = "ret" /\ cl'[c].res = "not_running"
          /\ \A d \in Callers \ {c} : cl'[d] = cl[d]
      BY <1>1, <2>2 DEF TypeOK, StopRunMisses, CallerRec
    <3> QED BY <1>2, <2>2, <3>1 DEF AnswerOK, StopRunMisses, FinalStatus
  <2> QED BY <1>10, <2>1, <2>2
<1>11. CASE StopRunTimeout(c)
  <2>1. cl'[c].pc = "ret" /\ cl'[c].res = "timeout" /\ \A d \in Callers \ {c} : cl'[d] = cl[d]
    BY <1>1, <1>11 DEF TypeOK, StopRunTimeout, Returns, CallerRec
  <2> QED BY <1>2, <1>11, <2>1 DEF AnswerOK, StopRunTimeout, FinalStatus
<1> QED BY <1>3, <1>4, <1>5, <1>6, <1>7, <1>8, <1>9, <1>10, <1>11 DEF CallStep, OpNames

\* A StopRun that finds the handle done takes the run's outcome for its answer; the
\* other waits end with an answer of their own.
LEMMA ResumeSettles ==
  ASSUME IInv, Settled, NEW c \in Callers, Resume(c)
  PROVE  Settled'
<1> USE NilAssumption
<1>1. TypeOK /\ CallerOK(c) /\ AnswerOK(c) /\ cl[c] \in CallerRec
  BY DEF IInv, TypeOK, Settled
<1>2. ASSUME UNCHANGED <<run, active, logs>>,
             \A d \in Callers \ {c} : cl'[d] = cl[d], AnswerOK(c)'
      PROVE  Settled'
  BY <1>1, <1>2, CallerSettles
<1>3. ASSUME NEW res, Returns(c, res)
      PROVE  /\ cl'[c].pc = "ret" /\ cl'[c].res = res
             /\ cl'[c].op = cl[c].op /\ cl'[c].run = cl[c].run
             /\ \A d \in Callers \ {c} : cl'[d] = cl[d]
  BY <1>1, <1>3 DEF TypeOK, Returns, CallerRec
<1>4. CASE Commit(c) \/ CommitRefused(c) \/ Drained(c)
  <2>1. Returns(c, "ok") \/ Returns(c, "stopped")
    BY <1>4 DEF Commit, CommitRefused, Drained
  <2> QED BY <1>2, <1>3, <1>4, <2>1
          DEF AnswerOK, Commit, CommitRefused, Drained, FinalStatus
<1>5. CASE CancelLifecycle(c)
  <2>1. cl'[c].pc = "draining" /\ \A d \in Callers \ {c} : cl'[d] = cl[d]
    BY <1>1, <1>5 DEF TypeOK, CancelLifecycle, CallerRec
  <2> QED BY <1>2, <1>5, <2>1 DEF AnswerOK, CancelLifecycle
<1>6. CASE Return(c)
  <2>1. cl'[c].pc = "idle" /\ \A d \in Callers \ {c} : cl'[d] = cl[d]
    BY <1>1, <1>6 DEF TypeOK, Return, IdleCaller, CallerRec
  <2> QED BY <1>2, <1>6, <2>1 DEF AnswerOK, Return
<1>7. CASE RunNowDone(c) \/ StartNowDone(c)
  <2>1. cl[c].op # "stop_run"
    BY <1>1, <1>7 DEF AnswerOK, RunNowDone, StartNowDone
  <2>2. PICK res : Returns(c, res)
    BY <1>7 DEF RunNowDone, StartNowDone
  <2> QED BY <1>2, <1>3, <1>7, <2>1, <2>2 DEF AnswerOK, RunNowDone, StartNowDone
<1>8. CASE StopRunDone(c)
  <2> DEFINE res == IF run[cl[c].run].final = "none" THEN "not_running"
                    ELSE run[cl[c].run].final
  <2>1. Returns(c, res) /\ HandleDone(cl[c].run) /\ cl[c].run \in Runs
    BY <1>1, <1>8 DEF StopRunDone, CallerOK
  <2>2. res \in FinalStatus => run[cl[c].run].final = res
    BY DEF FinalStatus
  <2> HIDE DEF res
  <2> QED BY <1>2, <1>3, <1>8, <2>1, <2>2 DEF AnswerOK, HandleDone, StopRunDone
<1>9. CASE CancelRun(c)
  <2>1. /\ \A k \in Runs : /\ run'[k].pc = run[k].pc /\ run'[k].task = run[k].task
                           /\ run'[k].final = run[k].final
        /\ logs' = logs /\ active' = active
    BY <1>1, <1>9 DEF TypeOK, CancelRun, CallerOK, RunRec
  <2>2. cl'[c].pc = "await" /\ \A d \in Callers \ {c} : cl'[d] = cl[d]
    BY <1>1, <1>9 DEF TypeOK, CancelRun, CallerRec
  <2> QED BY <1>1, <2>1, <2>2, CallerSettles DEF AnswerOK
<1>10. ASSUME NEW k \in NextRun, BeginManual(c, k) \/ BeginAdHoc(c, k) \/ BeginSkipped(c, k)
       PROVE  Settled'
  <2>1. k \in Runs /\ run[k].pc = "unused"
    BY NextRunFresh
  <2>2. run[k].final = "none"
    BY <2>1 DEF Settled, LogOK
  <2>3. /\ run'[k].final = "none" /\ run'[k].pc \in {"begun", "skip"}
        /\ \A j \in Runs \ {k} : run'[j] = run[j]
        /\ logs' = logs /\ active' = active
    <3> DEFINE Begins(r, pc) == run' = [run EXCEPT ![k] = NewRun(cl[c].task, cl[c].arg, r, pc)]
    <3>1. BeginManual(c, k) => Begins(cl[c].reg, "begun")
      BY DEF BeginManual
    <3>2. BeginAdHoc(c, k) => \E r \in NextReg : Begins(r, "begun")
      BY DEF BeginAdHoc
    <3>3. BeginSkipped(c, k) => Begins(Nil, "skip")
      BY DEF BeginSkipped
    <3> HIDE DEF Begins
    <3>4. PICK r \in Regs \cup {Nil}, pc \in {"begun", "skip"} : Begins(r, pc)
      BY <1>1, <1>10, <3>1, <3>2, <3>3, NextRegFresh DEF CallerRec
    <3>5. NewRun(cl[c].task, cl[c].arg, r, pc).pc = pc /\ NewRun(cl[c].task, cl[c].arg, r, pc).final = "none"
      BY DEF NewRun, FreeRun
    <3>6. logs' = logs /\ active' = active
      BY <1>10 DEF BeginManual, BeginAdHoc, BeginSkipped
    <3> QED BY <1>1, <2>1, <3>4, <3>5, <3>6 DEF TypeOK, Begins
  <2>4. /\ cl'[c].pc \in {"run", "start", "skip"} /\ cl'[c].op = cl[c].op
        /\ cl[c].pc = "begin"
        /\ \A d \in Callers \ {c} : cl'[d] = cl[d]
    <3>1. PICK pc \in {"run", "start", "skip"} :
            cl' = [cl EXCEPT ![c] = [@ EXCEPT !.pc = pc, !.run = k]]
      BY <1>10 DEF BeginManual, BeginAdHoc, BeginSkipped, ManualWait
    <3>2. cl[c].pc = "begin"
      BY <1>10 DEF BeginManual, BeginAdHoc, BeginSkipped
    <3> QED BY <1>1, <3>1, <3>2 DEF TypeOK, CallerRec
  <2>5. AnswerOK(c)'
    BY <1>1, <2>4 DEF AnswerOK
  <2> QED BY <2>1, <2>2, <2>3, <2>4, <2>5, RunBeginsSettled DEF Settled
<1>11. CASE AppendSkipped(c)
  <2> DEFINE k == cl[c].run
  <2>1. k \in Runs /\ run[k].pc = "skip" /\ cl[c].op # "stop_run"
    BY <1>1, <1>11 DEF AppendSkipped, CallerOK, AnswerOK
  <2>2. /\ run'[k].final = run[k].final /\ run'[k].pc = "done"
        /\ \A j \in Runs \ {k} : run'[j] = run[j] /\ logs'[j] = logs[j]
        /\ logs'[k] \in {logs[k], "skipped"} /\ active' = active
    BY <1>1, <1>11, <2>1 DEF TypeOK, AppendSkipped, Attempt, RunRec
  <2>3. PICK res : Returns(c, res)
    BY <1>11 DEF AppendSkipped
  <2>4. AnswerOK(c)'
    BY <1>3, <2>1, <2>3 DEF AnswerOK
  <2> HIDE DEF k
  <2> QED BY <1>3, <2>1, <2>2, <2>3, <2>4, RunBeginsSettled DEF Settled
<1> QED BY <1>4, <1>5, <1>6, <1>7, <1>8, <1>9, <1>10, <1>11 DEF Resume

\* A timer loop begins a run or skips one.
LEMMA LoopSettles ==
  ASSUME IInv, Settled, NEW r \in Regs, LoopStep(r) \/ Fire(r)
  PROVE  Settled'
<1>1. TypeOK
  BY DEF IInv
<1>2. CASE Persist(r) \/ PersistLater(r) \/ PersistSave(r) \/ FireRetired(r)
           \/ LoopExit(r) \/ Fire(r)
  <2>1. UNCHANGED <<run, active, logs, cl>>
    BY <1>2 DEF Persist, PersistLater, PersistSave, FireRetired, LoopExit, Fire
  <2> QED BY <1>1, <2>1, RunsStand DEF Settled
<1>3. ASSUME NEW k \in NextRun, FireBegin(r, k) \/ FireSkipped(r, k)
      PROVE  Settled'
  <2>1. k \in Runs /\ run[k].pc = "unused"
    BY NextRunFresh
  <2>2. run[k].final = "none"
    BY <2>1 DEF Settled, LogOK
  <2>3. \E q \in Regs \cup {Nil}, pc \in {"begun", "done"} :
          run' = [run EXCEPT ![k] = NewRun(reg[r].task, reg[r].tmp, q, pc)]
    BY <1>3 DEF FireBegin, FireSkipped
  <2>4. /\ run'[k].final = "none" /\ run'[k].pc \in {"begun", "done"}
        /\ \A j \in Runs \ {k} : run'[j] = run[j]
    BY <1>1, <2>1, <2>3 DEF TypeOK, NewRun, FreeRun
  <2>5. /\ logs'[k] \in {logs[k], "skipped"}
        /\ \A j \in Runs \ {k} : logs'[j] = logs[j]
        /\ active' = active /\ cl' = cl
    BY <1>1, <1>3, <2>1 DEF TypeOK, FireBegin, FireSkipped, Attempt
  <2> QED BY <2>1, <2>2, <2>4, <2>5, RunBeginsSettled DEF Settled
<1> QED BY <1>2, <1>3 DEF LoopStep

\* Freeing a run's slot frees no other.
LEMMA UnslotFrees ==
  ASSUME TypeOK, NEW k \in Runs, run[k].task \in Tasks, NEW t \in Tasks,
         active[run[k].task] = k, SlotOK(t)
  PROVE  \/ Unslot(k)[t] = Nil
         \/ Unslot(k)[t] = active[t] /\ active[t] # k
<1> DEFINE u == run[k].task
<1>1. active \in [Tasks -> Runs \cup {Nil}] /\ u \in Tasks
  BY DEF TypeOK
<1>2. k # Nil /\ Unslot(k) = [active EXCEPT ![u] = Nil]
  BY NilAssumption DEF Unslot
<1>3. active[t] = k => t = u
  BY <1>2 DEF SlotOK
<1> HIDE DEF u
<1> QED BY <1>1, <1>2, <1>3

\* The steps of a run goroutine, in the order it takes them.
LEMMA RunStepSettles ==
  ASSUME IInv, Settled, NEW k \in Runs, RunStep(k) \/ Progress(k)
  PROVE  Settled'
<1> USE NilAssumption
<1>1. /\ TypeOK /\ run[k] \in RunRec /\ RunOK(k) /\ LogOK(k)
      /\ \A t \in Tasks : SlotOK(t)
  BY DEF IInv, TypeOK, Settled
<1>2. ASSUME \A j \in Runs \ {k} : run'[j] = run[j] /\ logs'[j] = logs[j],
             run'[k].task = run[k].task, cl' = cl, active' = active, LogOK(k)',
             HandleDone(k) => HandleDone(k)' /\ run'[k].final = run[k].final,
             InFlight(k) => InFlight(k)'
      PROVE  Settled'
  <2>1. ASSUME NEW t \in Tasks
        PROVE  \/ active'[t] = active[t] /\ active[t] # k
               \/ active'[t] = k /\ InFlight(k)' /\ run[k].task = t
    BY <1>1, <1>2 DEF SlotOK
  <2> QED BY <1>2, <2>1, RunSettles
<1>3. ASSUME \A j \in Runs \ {k} : run'[j] = run[j] /\ logs'[j] = logs[j],
             run'[k].task = run[k].task, cl' = cl, active' = Unslot(k), InFlight(k),
             LogOK(k)'
      PROVE  Settled'
  <2>1. run[k].task \in Tasks /\ active[run[k].task] = k /\ ~HandleDone(k)
    BY <1>1, <1>3 DEF RunOK, InFlight, HandleDone
  <2>2. \A t \in Tasks : \/ active'[t] = Nil
                         \/ active'[t] = active[t] /\ active[t] # k
    BY <1>1, <1>3, <2>1, UnslotFrees
  <2> QED BY <1>3, <2>1, <2>2, RunSettles
<1>4. CASE RegisterActive(k)
  <2>1. run[k].task \in Tasks /\ run'[k].pc = "active" /\ run'[k].task = run[k].task
    BY <1>1, <1>4 DEF TypeOK, RunRec, RegisterActive, RunOK
  <2>2. LogOK(k)' /\ ~HandleDone(k) /\ \A j \in Runs \ {k} : run'[j] = run[j]
    BY <1>1, <1>4 DEF TypeOK, RunRec, RegisterActive, LogOK, HandleDone
  <2>3. ASSUME NEW t \in Tasks
        PROVE  \/ active'[t] = active[t] /\ active[t] # k
               \/ active'[t] = k /\ InFlight(k)' /\ run[k].task = t
    BY <1>1, <1>4, <2>1 DEF TypeOK, RegisterActive, SlotOK, InFlight
  <2> QED BY <1>4, <2>1, <2>2, <2>3, RunSettles DEF RegisterActive
<1>5. CASE RejectActive(k)
  BY <1>1, <1>2, <1>5 DEF TypeOK, RunRec, RejectActive, LogOK, HandleDone, InFlight
<1>6. CASE StartLog(k)
  BY <1>1, <1>2, <1>6 DEF TypeOK, RunRec, StartLog, LogOK, HandleDone, InFlight
<1>7. CASE StartLogFails(k)
  BY <1>1, <1>3, <1>7 DEF TypeOK, RunRec, StartLogFails, LogOK, InFlight
<1>8. CASE Progress(k)
  BY <1>1, <1>2, <1>8 DEF TypeOK, RunRec, Progress, MayReport, LogOK, HandleDone, InFlight
<1>9. ASSUME NEW st \in Outcomes, NEW late \in BOOLEAN, ExecReturn(k, st, late)
      PROVE  Settled'
  <2>1. /\ run'[k].pc = "saving" /\ run'[k].task = run[k].task /\ run'[k].final = run[k].final
        /\ \A j \in Runs \ {k} : run'[j] = run[j]
        /\ run[k].pc = "executing" /\ UNCHANGED <<active, logs, cl>>
    BY <1>1, <1>9 DEF TypeOK, RunRec, ExecReturn
  <2> QED BY <1>1, <1>2, <2>1 DEF LogOK, HandleDone, InFlight
<1>10. CASE SaveResult(k)
  BY <1>1, <1>2, <1>10 DEF TypeOK, RunRec, SaveResult, LogOK, HandleDone, InFlight
<1>11. CASE SaveResultFails(k)
  BY <1>1, <1>2, <1>11 DEF TypeOK, RunRec, SaveResultFails, LogOK, HandleDone, InFlight
<1>12. CASE LogResult(k)
  <2>1. /\ run'[k].pc = "finishing" /\ run'[k].final = run[k].status
        /\ run'[k].task = run[k].task
        /\ \A j \in Runs \ {k} : run'[j] = run[j]
    BY <1>1, <1>12 DEF TypeOK, RunRec, LogResult
  <2>2. /\ ~StoreFaults => logs'[k] = run[k].status
        /\ \A j \in Runs \ {k} : logs'[j] = logs[j]
    BY <1>1, <1>12 DEF TypeOK, LogResult, Attempt
  <2>3. run[k].status # "running"
    BY <1>1, <1>12 DEF LogResult, RunOK, FinalStatus
  <2> QED BY <1>1, <1>2, <1>12, <2>1, <2>2, <2>3 DEF LogResult, LogOK, HandleDone, InFlight
<1>13. CASE FinishActive(k)
  BY <1>1, <1>3, <1>13 DEF TypeOK, RunRec, FinishActive, LogOK, InFlight
<1>14. CASE Release(k)
  BY <1>1, <1>2, <1>14 DEF TypeOK, RunRec, Release, LogOK, HandleDone, InFlight
<1> QED BY <1>4, <1>5, <1>6, <1>7, <1>8, <1>9, <1>10, <1>11, <1>12, <1>13, <1>14
        DEF RunStep

\* A crash leaves no slot and no call; a run in flight has no outcome then.
LEMMA ProcessSettles ==
  ASSUME IInv, Settled, Start \/ Crash
  PROVE  Settled'
<1>1. TypeOK
  BY DEF IInv
<1>2. CASE Start
  BY <1>1, <1>2, RunsStand DEF Start, Settled
<1>3. CASE Crash
  <2>1. MaxCrashes # 0
    <3>1. crashes \in Nat /\ crashes < MaxCrashes
      BY <1>1, <1>3 DEF Crash, TypeOK
    <3> QED BY <3>1, BoundsAssumption
  <2>2. ASSUME NEW k \in Runs
        PROVE  run'[k].final = "none"
    BY <1>1, <1>3 DEF Crash, FreeRun, Settled, LogOK
  <2>3. \A t \in Tasks : active'[t] = Nil
    BY <1>3 DEF Crash
  <2>4. \A c \in Callers : cl'[c].pc = "idle"
    BY <1>3 DEF Crash, IdleCaller
  <2> QED BY <2>1, <2>2, <2>3, <2>4 DEF Settled, LogOK, SlotOK, AnswerOK
<1> QED BY <1>2, <1>3

\* Settled is inductive together with IInv.
LEMMA SettledInit == Init => Settled
BY NilAssumption DEF Init, Settled, LogOK, SlotOK, AnswerOK, FreeRun, IdleCaller

LEMMA SettledStep ==
  ASSUME IInv, Settled, [Next]_vars
  PROVE  Settled'
<1>1. CASE UNCHANGED vars
  BY <1>1 DEF vars, Settled, LogOK, SlotOK, AnswerOK, InFlight, HandleDone
<1>2. CASE Next
  BY <1>2, CallSettles, ResumeSettles, LoopSettles, RunStepSettles, ProcessSettles
     DEF Next
<1> QED BY <1>1, <1>2

\* The outcome, the log and the slot of a run agree at every moment, and with what a
\* StopRun that waited for the run is about to return (active_runs.go, run_executor.go).
THEOREM SettledHolds ==
  Spec => []Settled
<1>1. IInv /\ Settled /\ [Next]_vars => Settled'
  BY SettledStep
<1> QED BY <1>1, SettledInit, Inductive, PTL DEF Spec

LEMMA SettledAnswers ==
  ASSUME IInv, Settled
  PROVE  StopRunAnswer
<1> SUFFICES ASSUME NEW c \in Callers,
                    cl[c].pc = "ret", cl[c].op = "stop_run", cl[c].res \in FinalStatus
             PROVE  /\ run[cl[c].run].final = cl[c].res
                    /\ ~InFlight(cl[c].run)
                    /\ active[run[cl[c].run].task] # cl[c].run
                    /\ StoreFaults \/ logs[cl[c].run] \in {cl[c].res, "none"}
  BY DEF StopRunAnswer
<1> DEFINE k == cl[c].run
<1>1. k \in Runs /\ HandleDone(k) /\ run[k].final = cl[c].res
  BY DEF Settled, AnswerOK
<1> HIDE DEF k
<1>2. ~InFlight(k) /\ run[k].pc # "unused"
  BY <1>1 DEF HandleDone, InFlight
<1>3. run[k].task \in Tasks
  BY <1>1, <1>2 DEF IInv, RunOK
<1>4. active[run[k].task] # k
  BY <1>1, <1>2, <1>3, NilAssumption DEF Settled, SlotOK
<1>5. StoreFaults \/ logs[k] \in {cl[c].res, "none"}
  BY <1>1, BoundsAssumption DEF Settled, LogOK, FinalStatus
<1> QED BY <1>1, <1>2, <1>4, <1>5 DEF k

\* A StopRun that reports an outcome reports that run's, the one its log has, and
\* the run no longer holds the task's slot (StopRun, active_runs.go).
THEOREM StopRunAnswersTruly ==
  Spec => []StopRunAnswer
<1>1. IInv /\ Settled => StopRunAnswer
  BY SettledAnswers
<1> QED BY <1>1, Inductive, SettledHolds, PTL

\* In a process that neither crashes nor fails to write, every running log on disk
\* is that of a run in flight: a run's last log replaces it before the slot is
\* freed (run_executor.go).  Nothing repairs the log of a run that a crash took.
THEOREM RunningLogsAreLive ==
  ~StoreFaults /\ MaxCrashes = 0 => (Spec => []RunningLogIsLive)
<1> SUFFICES ASSUME ~StoreFaults, MaxCrashes = 0
             PROVE  Spec => []RunningLogIsLive
  OBVIOUS
<1>1. Settled => RunningLogIsLive
  BY DEF Settled, LogOK, RunningLogIsLive, InFlight
<1> QED BY <1>1, SettledHolds, PTL

-----------------------------------------------------------------------------
(* Looped *)

\* A step that leaves s.tasks alone and gives no loop a second life.
LEMMA TasksStand ==
  ASSUME TypeOK, Looped, UNCHANGED tasks,
         life' # "none", life # "none",
         \A r \in Regs : CanFire(r)' => CanFire(r) /\ reg'[r].task = reg[r].task,
         \A c \in Callers : cl'[c].pc = "replacing" =>
                              cl[c].pc = "replacing" /\ cl'[c].task = cl[c].task
  PROVE  Looped'
BY DEF Looped, DeadOK

\* Only Start does anything in a process that is not up.
LEMMA OnlyStartWakes ==
  ASSUME IInv, Looped, Next
  PROVE  Start \/ life # "none"
<1> USE NilAssumption
<1> SUFFICES ASSUME life = "none", ~Start
             PROVE  FALSE
  OBVIOUS
<1>1. /\ \A r \in Regs : reg[r].task = Nil /\ reg[r].loop = "none"
      /\ \A k \in Runs : ~Unfinished(k)
      /\ \A c \in Callers : cl[c].pc = "idle"
  BY DEF IInv, Looped, DeadOK, RegOK, RunOK
<1>2. ~Crash
  BY DEF Crash
<1>3. ASSUME NEW c \in Callers, CallStep(c) \/ Resume(c) \/ StopRunTimeout(c)
      PROVE  FALSE
  <2>1. ~CallStep(c)
    BY DEF CallStep, Load, Save, Delete, Unregister, Upsert, Detach, Stop, Manual, Refused,
           StopRun, StopRunMisses, Issue
  <2>2. ~Resume(c) /\ ~StopRunTimeout(c)
    BY <1>1 DEF Resume, Commit, CommitRefused, Drained, CancelLifecycle, BeginManual,
                BeginAdHoc, BeginSkipped, AppendSkipped, RunNowDone, StartNowDone,
                CancelRun, StopRunDone, Return, StopRunTimeout
  <2> QED BY <1>3, <2>1, <2>2
<1>4. ASSUME NEW r \in Regs, LoopStep(r) \/ Fire(r)
      PROVE  FALSE
  BY <1>1, <1>4 DEF LoopStep, Persist, PersistLater, MayPersist, PersistSave, Fire,
                    FireBegin, FireSkipped, FireRetired, LoopExit
<1>5. ASSUME NEW k \in Runs, RunStep(k) \/ Progress(k)
      PROVE  FALSE
  BY <1>1, <1>5 DEF RunStep, RegisterActive, RejectActive, StartLog, StartLogFails,
                    SaveResult, SaveResultFails, LogResult, FinishActive, Release,
                    ExecReturn, Progress, MayReport, Unfinished, InFlight
<1> QED BY <1>2, <1>3, <1>4, <1>5 DEF Next

\* A loop that moves was not over before.
LEMMA LoopStepLoops ==
  ASSUME IInv, Looped, life # "none", NEW r \in Regs, LoopStep(r) \/ Fire(r)
  PROVE  Looped'
<1>1. TypeOK /\ reg[r] \in RegRec
  BY DEF IInv, TypeOK
<1>2. reg[r].loop \notin {"none", "exited"} /\ UNCHANGED <<tasks, life, cl>>
  BY DEF LoopStep, Persist, PersistLater, MayPersist, PersistSave, Fire,
         FireBegin, FireSkipped, FireRetired, LoopExit
<1>3. /\ reg'[r].task = reg[r].task /\ reg'[r].ctxDone = reg[r].ctxDone
      /\ \A q \in Regs \ {r} : reg'[q] = reg[q]
  <2>1. CASE Persist(r)
    BY <1>1, <2>1 DEF TypeOK, RegRec, Persist
  <2>2. CASE PersistLater(r)
    BY <1>1, <2>2 DEF TypeOK, RegRec, PersistLater
  <2>3. CASE PersistSave(r)
    BY <1>1, <2>3 DEF TypeOK, RegRec, PersistSave
  <2>4. CASE Fire(r)
    BY <1>1, <2>4 DEF TypeOK, RegRec, Fire
  <2>5. CASE FireRetired(r)
    BY <1>1, <2>5 DEF TypeOK, RegRec, FireRetired
  <2>6. CASE LoopExit(r)
    BY <1>1, <2>6 DEF TypeOK, RegRec, LoopExit
  <2>7. ASSUME NEW k, FireBegin(r, k)
        PROVE  /\ reg'[r].task = reg[r].task /\ reg'[r].ctxDone = reg[r].ctxDone
               /\ \A q \in Regs \ {r} : reg'[q] = reg[q]
    BY <1>1, <2>7 DEF TypeOK, RegRec, FireBegin
  <2>8. ASSUME NEW k, FireSkipped(r, k)
        PROVE  /\ reg'[r].task = reg[r].task /\ reg'[r].ctxDone = reg[r].ctxDone
               /\ \A q \in Regs \ {r} : reg'[q] = reg[q]
    BY <1>1, <2>8 DEF TypeOK, RegRec, FireSkipped
  <2> QED BY <2>1, <2>2, <2>3, <2>4, <2>5, <2>6, <2>7, <2>8 DEF LoopStep
<1>4. ASSUME NEW q \in Regs
      PROVE  CanFire(q)' => CanFire(q) /\ reg'[q].task = reg[q].task
  BY <1>2, <1>3 DEF CanFire, CtxDone
<1> QED BY <1>1, <1>2, <1>4, TasksStand

\* A run writes what its registration remembers and which run it has, nothing else.
LEMMA RunStepLoops ==
  ASSUME IInv, Looped, life # "none", NEW k \in Runs, RunStep(k) \/ Progress(k)
  PROVE  Looped'
<1>1. TypeOK
  BY DEF IInv
<1>2. UNCHANGED <<tasks, life, cl>>
  BY DEF RunStep, RegisterActive, RejectActive, StartLog, StartLogFails, SaveResult,
         SaveResultFails, LogResult, FinishActive, Release, ExecReturn, Progress
<1>3. ASSUME NEW q \in Regs
      PROVE  /\ reg'[q].task = reg[q].task /\ reg'[q].ctxDone = reg[q].ctxDone
             /\ reg'[q].loop = reg[q].loop
  <2>1. CASE RegisterActive(k) \/ RejectActive(k) \/ StartLog(k) \/ StartLogFails(k)
             \/ SaveResult(k) \/ SaveResultFails(k) \/ LogResult(k) \/ FinishActive(k)
             \/ Progress(k)
    BY <2>1 DEF RegisterActive, RejectActive, StartLog, StartLogFails, SaveResult,
                SaveResultFails, LogResult, FinishActive, Progress
  <2>2. CASE Release(k)
    BY <1>1, <2>2 DEF TypeOK, RegRec, Release
  <2>3. ASSUME NEW st \in Outcomes, NEW late \in BOOLEAN, ExecReturn(k, st, late)
        PROVE  /\ reg'[q].task = reg[q].task /\ reg'[q].ctxDone = reg[q].ctxDone
               /\ reg'[q].loop = reg[q].loop
    <3>1. PICK r, v : reg' = [reg EXCEPT ![r] = [@ EXCEPT !.val = v]]
      BY <2>3 DEF ExecReturn
    <3> QED BY <1>1, <3>1 DEF TypeOK, RegRec
  <2> QED BY <2>1, <2>2, <2>3 DEF RunStep
<1>4. ASSUME NEW q \in Regs
      PROVE  CanFire(q)' => CanFire(q) /\ reg'[q].task = reg[q].task
  BY <1>2, <1>3 DEF CanFire, CtxDone
<1> QED BY <1>1, <1>2, <1>4, TasksStand

\* No two callers wait to replace the registration of one task.  The code leaves
\* this to its clients: neither Upsert nor the Task API's MutationRunner serialises
\* them (registration.go, mutation_runner.go).
ReplaceApart ==
  \A c, d \in Callers :
    /\ cl[c].pc = "replacing" /\ cl[d].pc = "replacing"
    /\ cl[c].task = cl[d].task
    => c = d

\* stop() makes the context of a registration done, and of no other.
LEMMA RetireFires ==
  ASSUME TypeOK, NEW S \in SUBSET Regs, reg' = Retire(S), life' = life, NEW q \in Regs
  PROVE  /\ reg'[q].task = reg[q].task
         /\ CanFire(q)' => q \notin S /\ CanFire(q)
<1>1. reg'[q].task = reg[q].task /\ reg'[q].loop = reg[q].loop
  BY RetireType
<1>2. CASE q \in S
  <2>1. reg[q] \in RegRec /\ reg'[q] = [reg[q] EXCEPT !.retired = TRUE, !.ctxDone = TRUE]
    BY <1>2 DEF TypeOK, Retire
  <2>2. reg'[q].ctxDone
    BY <2>1 DEF RegRec
  <2> QED BY <1>1, <2>2 DEF CanFire, CtxDone
<1>3. CASE q \notin S
  <2>1. reg'[q] = reg[q]
    BY <1>3 DEF Retire
  <2> QED BY <1>3, <2>1 DEF CanFire, CtxDone
<1> QED BY <1>1, <1>2, <1>3

\* Unregister and Upsert drop a task's entry and end its loop in one section.
LEMMA DetachLoops ==
  ASSUME IInv, Looped, NEW c \in Callers, NEW op, NEW pc, Detach(c, op, pc)
  PROVE  Looped'
<1> USE NilAssumption
<1> DEFINE t == cl[c].task
<1>1. /\ TypeOK /\ t \in Tasks /\ c \in Mutators /\ cl[c].pc = "idle"
      /\ life # "none" /\ life' = life
      /\ \A r \in Regs : RegOK(r)
  BY DEF IInv, TypeOK, CallerRec, Detach, Issue
<1>2. reg' = Retire(Registered(t)) /\ Registered(t) \in SUBSET Regs
  BY <1>1 DEF TypeOK, Detach, Registered
<1>3. /\ tasks'[t] = Nil
      /\ \A u \in Tasks \ {t} : tasks'[u] = tasks[u]
  BY <1>1 DEF TypeOK, Detach, Dropped
<1>4. cl'[c].task = t /\ \A d \in Callers \ {c} : cl'[d] = cl[d]
  BY <1>1 DEF TypeOK, Detach, CallerRec
<1> HIDE DEF t
<1>5. ASSUME NEW d \in Callers, cl'[d].pc = "replacing"
      PROVE  d \in Mutators /\ tasks'[cl'[d].task] = Nil
  <2>1. cl[d].task # Nil => cl[d].task \in Tasks
    BY <1>1 DEF TypeOK, CallerRec
  <2>2. cl[d].pc = "replacing" => cl[d].task # Nil
    BY DEF IInv, CallerOK
  <2> QED BY <1>1, <1>3, <1>4, <1>5, <2>1, <2>2 DEF Looped
<1>6. ASSUME NEW q \in Regs, CanFire(q)'
      PROVE  tasks'[reg'[q].task] = q
  <2>1. reg'[q].task = reg[q].task /\ q \notin Registered(t) /\ CanFire(q)
    BY <1>1, <1>2, <1>6, RetireFires
  <2>2. tasks[reg[q].task] = q /\ reg[q].task \in Tasks
    BY <1>1, <2>1 DEF Looped, RegOK, CanFire, TypeOK, RegRec
  <2>3. reg[q].task # t
    BY <2>1, <2>2 DEF Registered
  <2> QED BY <1>3, <2>1, <2>2, <2>3
<1> QED BY <1>1, <1>5, <1>6 DEF Looped, DeadOK

\* Stop drops every entry and ends every loop that s.tasks leads to.
LEMMA StopLoops ==
  ASSUME IInv, Looped, NEW c \in Callers, Stop(c)
  PROVE  Looped'
<1> USE NilAssumption
<1> DEFINE S == {tasks[t] : t \in Tasks} \ {Nil}
<1>1. /\ TypeOK /\ life # "none" /\ life' = life /\ S \in SUBSET Regs
      /\ \A r \in Regs : RegOK(r)
  BY DEF IInv, TypeOK, Stop, Issue
<1>2. reg' = Retire(S) /\ tasks' = [t \in Tasks |-> Nil]
  BY DEF Stop
<1>3. cl'[c].pc = "stopping" /\ \A d \in Callers \ {c} : cl'[d] = cl[d]
  BY <1>1 DEF TypeOK, Stop, CallerRec
<1>4. ASSUME NEW q \in Regs
      PROVE  ~CanFire(q)'
  <2>1. CanFire(q)' => q \notin S /\ CanFire(q)
    BY <1>1, <1>2, RetireFires
  <2>2. CanFire(q) => q \in S
    BY <1>1 DEF Looped, RegOK, CanFire, TypeOK, RegRec
  <2> QED BY <2>1, <2>2
<1> HIDE DEF S
<1>5. ASSUME NEW d \in Callers, cl'[d].pc = "replacing"
      PROVE  d \in Mutators /\ tasks'[cl'[d].task] = Nil
  <2>1. cl'[d] = cl[d] /\ cl[d].pc = "replacing" /\ cl[d].task \in Tasks
    BY <1>1, <1>3, <1>5 DEF IInv, CallerOK, TypeOK, CallerRec
  <2> QED BY <1>2, <2>1 DEF Looped
<1> QED BY <1>1, <1>4, <1>5 DEF Looped, DeadOK

\* commitRegistration puts the new loop where the caller has left no other.
LEMMA CommitLoops ==
  ASSUME IInv, Looped, ReplaceApart, life # "none", NEW c \in Callers, Commit(c)
  PROVE  Looped'
<1> USE NilAssumption
<1> DEFINE t == cl[c].task
<1>1. /\ TypeOK /\ t \in Tasks /\ c \in Mutators /\ tasks[t] = Nil
      /\ life' = life
      /\ \A r \in Regs : RegOK(r)
  BY DEF IInv, TypeOK, CallerRec, CallerOK, Commit, Looped
<1>2. PICK r \in NextReg :
        /\ reg' = [reg EXCEPT ![r] = LoopReg(t, cl[c].arg)]
        /\ tasks' = [tasks EXCEPT ![t] = r]
  BY DEF Commit
<1>3. r \in Regs /\ reg'[r].task = t
  BY <1>1, <1>2, NextRegFresh DEF TypeOK, LoopReg, FreeReg
<1>4. cl'[c].pc = "ret" /\ \A d \in Callers \ {c} : cl'[d] = cl[d]
  BY <1>1 DEF TypeOK, Commit, Returns, CallerRec
<1>5. ASSUME NEW d \in Callers, cl'[d].pc = "replacing"
      PROVE  d \in Mutators /\ tasks'[cl'[d].task] = Nil
  <2>1. cl'[d] = cl[d] /\ cl[d].pc = "replacing" /\ cl[c].pc = "replacing" /\ d # c
    BY <1>4, <1>5 DEF Commit
  <2>2. cl[d].task \in Tasks /\ cl[d].task # t
    BY <1>1, <2>1 DEF ReplaceApart, IInv, CallerOK, TypeOK, CallerRec
  <2> QED BY <1>1, <1>2, <2>1, <2>2 DEF Looped, TypeOK
<1> HIDE DEF t
<1>6. ASSUME NEW q \in Regs, CanFire(q)'
      PROVE  tasks'[reg'[q].task] = q
  <2>1. CASE q = r
    BY <1>1, <1>2, <1>3, <2>1 DEF TypeOK
  <2>2. CASE q # r
    <3>1. reg'[q] = reg[q]
      BY <1>1, <1>2, <2>2 DEF TypeOK
    <3>2. CanFire(q)
      BY <1>1, <1>6, <3>1 DEF CanFire, CtxDone
    <3>3. tasks[reg[q].task] = q /\ reg[q].task \in Tasks
      BY <1>1, <3>2 DEF Looped, RegOK, CanFire, TypeOK, RegRec
    <3> QED BY <1>1, <1>2, <3>1, <3>3 DEF TypeOK
  <2> QED BY <2>1, <2>2
<1> QED BY <1>1, <1>5, <1>6 DEF Looped, DeadOK

\* The other steps of a call: an ad-hoc registration has no loop, and the end of the
\* lifecycle context ends every loop.
LEMMA CallLoops ==
  ASSUME IInv, Looped, ReplaceApart, life # "none", NEW c \in Callers,
         CallStep(c) \/ Resume(c) \/ StopRunTimeout(c)
  PROVE  Looped'
<1>1. TypeOK /\ cl[c] \in CallerRec
  BY DEF IInv, TypeOK
<1>2. ASSUME UNCHANGED <<tasks, reg, life>>, cl'[c].pc # "replacing",
             \A d \in Callers \ {c} : cl'[d] = cl[d]
      PROVE  Looped'
  BY <1>1, <1>2, TasksStand DEF CanFire, CtxDone
<1>3. ASSUME NEW res, Returns(c, res)
      PROVE  cl'[c].pc # "replacing" /\ \A d \in Callers \ {c} : cl'[d] = cl[d]
  BY <1>1, <1>3 DEF TypeOK, Returns, CallerRec
<1>4. CASE CallStep(c)
  <2>1. ASSUME NEW t \in Tasks, Load(c, t)
        PROVE  Looped'
    BY <1>1, <1>2, <2>1 DEF TypeOK, Load, CallerRec
  <2>2. ASSUME NEW t \in Tasks, NEW v, Save(c, t, v)
        PROVE  Looped'
    BY <1>1, <1>2, <2>2 DEF TypeOK, Save, Issue, CallerRec
  <2>3. ASSUME NEW t \in Tasks, Delete(c, t)
        PROVE  Looped'
    BY <1>1, <1>2, <2>3 DEF Delete, Issue
  <2>4. ASSUME NEW op, Manual(c, op)
        PROVE  Looped'
    <3>1. cl'[c].pc = "begin" /\ \A d \in Callers \ {c} : cl'[d] = cl[d]
      BY <1>1, <2>4 DEF TypeOK, Manual, CallerRec
    <3> QED BY <1>2, <2>4, <3>1 DEF Manual
  <2>5. ASSUME NEW op, Refused(c, op)
        PROVE  Looped'
    <3>1. cl'[c].pc = "ret" /\ \A d \in Callers \ {c} : cl'[d] = cl[d]
      BY <1>1, <2>5 DEF TypeOK, Refused, CallerRec
    <3> QED BY <1>2, <2>5, <3>1 DEF Refused
  <2>6. ASSUME NEW k, StopRun(c, k)
        PROVE  Looped'
    <3>1. cl'[c].pc = "cancel" /\ \A d \in Callers \ {c} : cl'[d] = cl[d]
      BY <1>1, <2>6 DEF TypeOK, StopRun, CallerRec
    <3> QED BY <1>2, <2>6, <3>1 DEF StopRun
  <2>7. ASSUME NEW k, StopRunMisses(c, k)
        PROVE  Looped'
    <3>1. cl'[c].pc = "ret" /\ \A d \in Callers \ {c} : cl'[d] = cl[d]
      BY <1>1, <2>7 DEF TypeOK, StopRunMisses, CallerRec
    <3> QED BY <1>2, <2>7, <3>1 DEF StopRunMisses
  <2>8. CASE Unregister(c) \/ Upsert(c)
    BY <2>8, DetachLoops DEF Unregister, Upsert
  <2> QED BY <1>4, <2>1, <2>2, <2>3, <2>4, <2>5, <2>6, <2>7, <2>8, StopLoops DEF CallStep
<1>5. CASE CommitRefused(c) \/ Drained(c) \/ RunNowDone(c) \/ StartNowDone(c)
           \/ StopRunDone(c) \/ StopRunTimeout(c) \/ AppendSkipped(c)
  <2>1. \E res : Returns(c, res)
    BY <1>5 DEF CommitRefused, Drained, RunNowDone, StartNowDone, StopRunDone,
                StopRunTimeout, AppendSkipped
  <2>2. UNCHANGED <<tasks, reg, life>>
    BY <1>5 DEF CommitRefused, Drained, RunNowDone, StartNowDone, StopRunDone,
                StopRunTimeout, AppendSkipped
  <2> QED BY <1>2, <1>3, <2>1, <2>2
<1>6. CASE CancelRun(c)
  BY <1>1, <1>2, <1>6 DEF TypeOK, CancelRun, CallerRec
<1>7. CASE Return(c)
  <2>1. cl'[c].pc = "idle" /\ \A d \in Callers \ {c} : cl'[d] = cl[d]
    BY <1>1, <1>7 DEF TypeOK, Return, IdleCaller, CallerRec
  <2> QED BY <1>2, <1>7, <2>1 DEF Return
<1>8. CASE CancelLifecycle(c)
  <2>1. cl'[c].pc = "draining" /\ \A d \in Callers \ {c} : cl'[d] = cl[d]
    BY <1>1, <1>8 DEF TypeOK, CancelLifecycle, CallerRec
  <2>2. tasks' = tasks /\ life' = "cancelled"
    BY <1>8 DEF CancelLifecycle
  <2>3. \A q \in Regs : ~CanFire(q)'
    BY <2>2 DEF CanFire, CtxDone
  <2> QED BY <1>1, <2>1, <2>2, <2>3, TasksStand
<1>9. ASSUME NEW k \in NextRun, BeginManual(c, k) \/ BeginAdHoc(c, k) \/ BeginSkipped(c, k)
      PROVE  Looped'
  <2>1. UNCHANGED <<tasks, life>>
    BY <1>9 DEF BeginManual, BeginAdHoc, BeginSkipped
  <2>2. cl'[c].pc # "replacing" /\ \A d \in Callers \ {c} : cl'[d] = cl[d]
    <3>1. \E pc \in {"run", "start", "skip"} :
            cl' = [cl EXCEPT ![c] = [@ EXCEPT !.pc = pc, !.run = k]]
      BY <1>9 DEF BeginManual, BeginAdHoc, BeginSkipped, ManualWait
    <3> QED BY <1>1, <3>1 DEF TypeOK, CallerRec
  <2>3. ASSUME NEW q \in Regs
        PROVE  CanFire(q)' => CanFire(q) /\ reg'[q].task = reg[q].task
    <3>1. CASE BeginManual(c, k)
      BY <1>1, <2>1, <3>1 DEF TypeOK, RegRec, BeginManual, CanFire, CtxDone
    <3>2. CASE BeginSkipped(c, k)
      BY <1>1, <2>1, <3>2 DEF TypeOK, RegRec, BeginSkipped, CanFire, CtxDone
    <3>3. CASE BeginAdHoc(c, k)
      <4>1. PICK r \in NextReg :
              \E done : reg' = [reg EXCEPT ![r] = AdHocReg(cl[c].task, cl[c].arg, done, k)]
        BY <3>3 DEF BeginAdHoc
      <4>2. r \in Regs /\ reg'[r].loop = "none"
        BY <1>1, <4>1, NextRegFresh DEF TypeOK, AdHocReg, FreeReg
      <4>3. q # r => reg'[q] = reg[q]
        BY <1>1, <4>1 DEF TypeOK
      <4> QED BY <2>1, <4>2, <4>3 DEF CanFire, CtxDone
    <3> QED BY <1>9, <3>1, <3>2, <3>3
  <2> QED BY <1>1, <2>1, <2>2, <2>3, TasksStand
<1> QED BY <1>4, <1>5, <1>6, <1>7, <1>8, <1>9, CommitLoops DEF Resume

\* Start registers each task once, in a process that has no registration yet.
LEMMA ProcessLoops ==
  ASSUME IInv, Looped, Start \/ Crash
  PROVE  Looped'
<1> USE NilAssumption
<1>1. TypeOK
  BY DEF IInv
<1>2. CASE Crash
  <2>1. life' = "none" /\ \A c \in Callers : cl'[c].pc = "idle"
    BY <1>2 DEF Crash, IdleCaller
  <2>2. \A r \in Regs : reg'[r].task = Nil /\ reg'[r].loop = "none"
    BY <1>2 DEF Crash, FreeReg
  <2> QED BY <2>1, <2>2 DEF Looped, DeadOK, CanFire
<1>3. CASE Start
  <2> DEFINE T == {t \in Tasks : file[t] # Nil /\ Enabled(file[t])}
  <2>1. /\ life' = "live" /\ cl' = cl
        /\ \A r \in Regs : reg[r].loop = "none"
        /\ \A c \in Callers : cl[c].pc = "idle"
    BY <1>3 DEF Start, Looped, DeadOK, IInv, RegOK
  <2>2. PICK f \in Assignments(T) :
          /\ tasks' = [t \in Tasks |-> IF t \in DOMAIN f THEN f[t] ELSE Nil]
          /\ reg' = [r \in Regs |->
                       IF \E t \in DOMAIN f : f[t] = r
                       THEN LET t == CHOOSE u \in DOMAIN f : f[u] = r
                            IN  LoopReg(t, file[t])
                       ELSE reg[r]]
    BY <1>3 DEF Start
  <2>3. DOMAIN f \subseteq Tasks
    <3> DEFINE S == {g \in [T -> FreshRegs] : \A t, u \in T : g[t] = g[u] => t = u}
    <3>1. f \in OneOf(S)
      BY DEF Assignments
    <3>2. S # {} /\ f \in S
      BY <3>1 DEF OneOf
    <3> QED BY <3>2
  <2>4. ASSUME NEW q \in Regs, CanFire(q)'
        PROVE  tasks'[reg'[q].task] = q
    <3>1. \E t \in DOMAIN f : f[t] = q
      BY <2>1, <2>2, <2>4 DEF CanFire
    <3> DEFINE t == CHOOSE u \in DOMAIN f : f[u] = q
    <3>2. t \in DOMAIN f /\ f[t] = q
      BY <3>1
    <3>3. reg'[q].task = t
      BY <2>2, <3>1 DEF LoopReg, FreeReg
    <3> HIDE DEF t
    <3> QED BY <2>2, <2>3, <3>2, <3>3
  <2> QED BY <2>1, <2>4 DEF Looped, DeadOK
<1> QED BY <1>2, <1>3

\* Every step keeps Looped when the callers' replacements do not overlap before it.
LEMMA LoopedStep ==
  ASSUME IInv, Looped, ReplaceApart, [Next]_vars
  PROVE  Looped'
<1>1. CASE UNCHANGED vars
  BY <1>1 DEF vars, Looped, DeadOK, CanFire, CtxDone
<1>2. CASE Next
  BY <1>2, OnlyStartWakes, ProcessLoops, CallLoops, LoopStepLoops, RunStepLoops
     DEF Next
<1> QED BY <1>1, <1>2

\* Before Start nothing is registered.
LEMMA LoopedInit == Init => Looped
BY NilAssumption DEF Init, Looped, DeadOK, CanFire, FreeReg, IdleCaller

\* A task has one loop that can still fire.
OneLoopPerTask == \A q, r \in Regs : CanFire(q) /\ CanFire(r) /\ reg[q].task = reg[r].task => q = r

\* As long as no two callers replace the registration of one task at the same time, a
\* task has one loop, and none once Unregister has returned, whatever is saved,
\* upserted or stopped, and whatever crashes.  The run scheduler_overlap shows that
\* the code does not do without that condition (commitRegistration overwrites).
THEOREM OneLoop ==
  Spec /\ []ReplaceApart => [](OneLoopPerTask /\ UnregisterSilences)
<1>1. IInv /\ Looped /\ ReplaceApart /\ [Next]_vars => Looped'
  BY LoopedStep
<1>2. Looped => OneLoopPerTask
  BY DEF Looped, OneLoopPerTask
<1>3. Looped => UnregisterSilences
  BY NilAssumption DEF Looped, UnregisterSilences, CanFire
<1> QED BY <1>1, <1>2, <1>3, LoopedInit, Inductive, PTL DEF Spec
=============================================================================
