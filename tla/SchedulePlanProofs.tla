-------------------------- MODULE SchedulePlanProofs --------------------------
(***************************************************************************)
(* What SchedulePlan promises for every plan, horizon and number of          *)
(* requests and crashes, as long as each plan has a next instant.            *)
(***************************************************************************)
EXTENDS SchedulePlan, TLAPS

\* Every interval is a positive Duration (IntervalSeconds did not overflow it),
\* and every cron schedule has a first instant after each clock value.
Advancing ==
  /\ \A n \in Intervals : Duration(n) \in Nat \ {0}
  /\ \A S \in Crons, t \in 0..Horizon :
       \E u \in S : u > t /\ \A v \in S : v > t => u <= v

\* Every copy of the task, wherever it is held, has the stored plan, and its
\* NextRunAt, if any, belongs to that plan.
Fits(f) == f.plan = file.plan /\ (f.next # Zero => OwnInstant(f.plan, f.next))
CopiesFit ==
  /\ Fits(file) /\ Fits(mem) /\ Fits(req.task)
  /\ \A f \in loopCopy \cup runCopy : Fits(f)
  /\ loop \in Running => plan = file.plan

\* The inductive invariant for a schedule that does not change.
FitInv == PlanInv /\ CopiesFit /\ WaitsForItsPlan

-----------------------------------------------------------------------------
(* The operators of schedule_plan.go *)

\* What the assumption on the constants says of one plan.
LEMMA PlansAre ==
  ASSUME NEW p \in Plans
  PROVE  \/ p.every \in Intervals /\ p.every # 0
         \/ p.every = 0 /\ p.at \in Crons
BY PlansAssumption DEF Plans

\* A plan's next instant is an integer later than t, and one of its own.
LEMMA AfterAdvances ==
  ASSUME Advancing, NEW p \in Plans, NEW t \in 0..Horizon
  PROVE  /\ After(p, t) \in Int /\ After(p, t) > t
         /\ p.every # 0 => After(p, t) = t + Duration(p.every)
         /\ p.every = 0 => After(p, t) \in p.at
<1>1. CASE p.every # 0
  BY <1>1, PlansAre, LimitsAssumption DEF After, Advancing
<1>2. CASE p.every = 0
  <2>1. p.at \in Crons /\ p.at \subseteq Nat
    BY <1>2, PlansAre, PlansAssumption
  <2> DEFINE later == {u \in p.at : u > t}
  <2>2. \E u \in later : \A v \in later : u <= v
    BY <2>1 DEF Advancing
  <2>3. (CHOOSE u \in later : \A v \in later : u <= v) \in later
    BY <2>2
  <2>4. After(p, t) \in later
    BY <1>2, <2>2, <2>3 DEF After, CronNext
  <2> QED BY <1>2, <2>1, <2>4
<1> QED BY <1>1, <1>2

\* initialNext gives an instant after the clock, the stored one or the plan's next.
LEMMA InitialAdvances ==
  ASSUME Advancing, NEW p \in Plans, NEW s \in Int, NEW t \in 0..Horizon
  PROVE  /\ InitialNext(p, s, t) \in Int /\ InitialNext(p, s, t) > t
         /\ (InitialNext(p, s, t) = s /\ s > t) \/ InitialNext(p, s, t) = After(p, t)
BY AfterAdvances DEF InitialNext

\* nextAfter gives an instant after the clock, the plan's next after one of the two.
LEMMA NextAdvances ==
  ASSUME Advancing, NEW p \in Plans, NEW t \in 0..Horizon, NEW s \in 0..t
  PROVE  /\ NextAfter(p, s, t) \in Int /\ NextAfter(p, s, t) > t
         /\ NextAfter(p, s, t) \in {After(p, s), After(p, t)}
<1>1. s \in 0..Horizon
  BY LimitsAssumption
<1> QED BY <1>1, AfterAdvances DEF NextAfter

\* The task Update computes is a task.
LEMMA RefreshedType ==
  ASSUME Advancing, NEW f \in TaskType, NEW p \in Plans, NEW on \in BOOLEAN,
         NEW changed \in BOOLEAN, NEW t \in 0..Horizon
  PROVE  /\ Refreshed(f, p, on, changed, t) \in TaskType
         /\ Refreshed(f, p, on, changed, t).plan = p
         /\ Refreshed(f, p, on, changed, t).next
              \in {Zero, f.next, InitialNext(p, f.next, t)}
BY InitialAdvances DEF Refreshed, Task, TaskType, Zero

\* No request is a request.
LEMMA NoRequestType ==
  ASSUME NEW f \in TaskType
  PROVE  NoRequest(f) \in [op : {"none", "run", "update"}, task : TaskType]
BY DEF NoRequest

-----------------------------------------------------------------------------
(* The invariant *)

\* The initial states satisfy the invariant.
LEMMA InitPlanInv == Advancing /\ Init => PlanInv
<1> SUFFICES ASSUME Advancing, Init PROVE PlanInv
  OBVIOUS
<1>1. PICK p \in Plans : file \in {Task(p, FALSE, Zero), Task(p, TRUE, After(p, 1))}
  BY DEF Init
<1>2. After(p, 1) \in Int
  BY AfterAdvances, LimitsAssumption
<1>3. /\ Task(p, FALSE, Zero) \in TaskType
      /\ Task(p, TRUE, After(p, 1)) \in TaskType
  BY <1>2 DEF Task, TaskType, Zero
<1>4. file \in TaskType /\ file.plan \in Plans
  BY <1>1, <1>3 DEF TaskType
<1>5. req \in [op : {"none", "run", "update"}, task : TaskType]
  BY <1>4, NoRequestType DEF Init
<1>6. loopCopy \subseteq TaskType /\ runCopy \subseteq TaskType
  BY DEF Init
<1>7. busy \in BOOLEAN
  BY DEF Init
<1>8. PlanTypeOK
  BY <1>4, <1>5, <1>6, <1>7, LimitsAssumption DEF Init, PlanTypeOK, Running, Zero
<1> QED BY <1>8 DEF Init, PlanInv, PlanTypeOK, Ahead, Ready, Zero

\* A registration takes the task's plan and leaves the instants to its loop.
LEMMA Registering ==
  ASSUME PlanInv, NEW f \in TaskType, Register(f)
  PROVE  /\ loop' \in {"init", "off"} /\ plan' \in Plans /\ mem' \in TaskType
         /\ loop' = "init" => plan' = f.plan
         /\ mem' \in {f, mem}
         /\ next' = next /\ loopCopy' = loopCopy
BY DEF Register, PlanInv, PlanTypeOK, TaskType

\* Every step preserves it, one case per action.
LEMMA NextPlanInv == Advancing /\ PlanInv /\ [Next]_vars => PlanInv'
<1> SUFFICES ASSUME Advancing, PlanInv, [Next]_vars PROVE PlanInv'
  OBVIOUS
<1> USE LimitsAssumption DEF PlanInv, PlanTypeOK, Ahead
<1>0. now \in 0..Horizon
  OBVIOUS
<1>1. CASE UNCHANGED vars
  BY <1>1 DEF vars
<1>2. CASE Tick
  BY <1>2 DEF Tick
<1>3. CASE Start
  BY <1>3, Registering DEF Start, Ready, Running
<1>4. CASE Crash
  <2>1. req' \in [op : {"none", "run", "update"}, task : TaskType]
    BY <1>4, NoRequestType DEF Crash
  <2>2. loopCopy' \subseteq TaskType /\ runCopy' \subseteq TaskType
    BY <1>4 DEF Crash
  <2>3. busy' \in BOOLEAN
    BY <1>4 DEF Crash
  <2> QED BY <1>4, <2>1, <2>2, <2>3 DEF Crash, Ready
<1>5. CASE Fire
  BY <1>5 DEF Fire, Ready, Running
<1>6. CASE Advance
  <2>1. next \in 0..now
    BY <1>6 DEF Advance
  <2>2. next' \in Int /\ next' > now
    BY <1>6, <1>0, <2>1, NextAdvances DEF Advance
  <2> QED BY <1>6, <2>2 DEF Advance, Ready, Running
<1>7. CASE SaveNext
  BY <1>7 DEF SaveNext, Ready, Running
<1>8. CASE CopyResult \/ SaveResult \/ RunFails
  BY <1>8 DEF CopyResult, SaveResult, RunFails
<1>9. CASE LoadToRun
  BY <1>9 DEF LoadToRun, Request
<1>10. CASE LoadToUpdate
  <2>1. PICK p \in Plans, on \in BOOLEAN, changed \in BOOLEAN :
          Request("update", Refreshed(file, p, on, changed, now))
    BY <1>10 DEF LoadToUpdate
  <2>2. Refreshed(file, p, on, changed, now) \in TaskType
    BY <1>0, RefreshedType
  <2> QED BY <2>1, <2>2 DEF Request
<1>11. CASE RunNow \/ RunAdHoc
  BY <1>11, NoRequestType DEF RunNow, RunAdHoc
<1>12. CASE Update
  BY <1>12, Registering DEF Update, NoRequest, Ready, Running
<1>13. CASE Begin
  <2>1. plan \in Plans /\ mem.next \in Int
    BY DEF TaskType
  <2>2. next' \in Int /\ next' > now
    BY <1>13, <1>0, <2>1, InitialAdvances DEF Begin
  <2> QED BY <1>13, <2>2 DEF Begin, Ready, Running
<1>14. CASE PersistNext
  <2>1. mem' \in TaskType
    BY <1>14 DEF PersistNext, TaskType
  <2> QED BY <1>14, <2>1 DEF PersistNext, Ready, Running
<1> QED BY <1>1, <1>2, <1>3, <1>4, <1>5, <1>6, <1>7, <1>8, <1>9, <1>10, <1>11, <1>12,
           <1>13, <1>14 DEF Next

\* The types and Ahead, the order of the instants, hold in every reachable state.
THEOREM PlanInductive == Advancing => (Spec => []PlanInv)
<1> SUFFICES ASSUME Advancing PROVE Spec => []PlanInv
  OBVIOUS
<1>1. Init => PlanInv
  BY InitPlanInv
<1>2. PlanInv /\ [Next]_vars => PlanInv'
  BY NextPlanInv
<1> QED BY <1>1, <1>2, PTL DEF Spec

\* No instant fires twice: the timer takes the loop from "wait" to "fired", and a loop
\* that waits is ahead of the last instant that fired, even one started from a stale
\* NextRunAt (schedule_plan.go:45).
THEOREM NeverTwice == Advancing => (Spec => FiresOnce)
<1> SUFFICES ASSUME Advancing PROVE Spec => FiresOnce
  OBVIOUS
<1>1. PlanInv /\ [Next]_vars => [loop = "wait" /\ loop' = "fired" => fired' > fired]_vars
  BY DEF PlanInv, Ahead, Ready, Next, vars, Tick, Start, Crash, Begin, Fire, Advance,
         PersistNext, SaveNext, CopyResult, SaveResult, RunFails, Register,
         LoadToRun, LoadToUpdate, Request, RunNow, RunAdHoc, Update
<1> QED BY <1>1, PlanInductive, PTL DEF Spec, FiresOnce

\* A loop never waits for an instant that has passed when it computes it, so a
\* process that slept through many instants runs the task once (nextAfter).
THEOREM NeverBursts == Advancing => (Spec => NoBurst)
<1> SUFFICES ASSUME Advancing PROVE Spec => NoBurst
  OBVIOUS
<1> DEFINE Step == (loop \in {"init", "fired"} /\ loop' \in Ready) => next' > now
<1>1. ASSUME PlanInv, Next PROVE Step
  <2> USE <1>1
  <2>1. now \in 0..Horizon /\ plan \in Plans /\ mem.next \in Int
    BY LimitsAssumption DEF PlanInv, PlanTypeOK, TaskType
  <2>2. CASE Begin
    BY <2>1, <2>2, InitialAdvances DEF Begin
  <2>3. CASE Advance
    <3>1. next \in 0..now
      BY <2>1, <2>3 DEF Advance, PlanInv, PlanTypeOK, Ahead
    <3> QED BY <2>1, <2>3, <3>1, NextAdvances DEF Advance
  <2>4. CASE Start \/ Update
    BY <2>4 DEF Start, Update, Register, Ready
  <2>5. CASE Tick \/ Crash \/ Fire \/ PersistNext \/ SaveNext \/ CopyResult \/ SaveResult
             \/ RunFails \/ LoadToRun \/ LoadToUpdate \/ RunNow \/ RunAdHoc
    BY <2>5 DEF Tick, Crash, Fire, PersistNext, SaveNext, CopyResult, SaveResult, RunFails,
                LoadToRun, LoadToUpdate, Request, RunNow, RunAdHoc, Ready
  <2> QED BY <2>2, <2>3, <2>4, <2>5 DEF Next
<1>2. PlanInv /\ [Next]_vars => [Step]_vars
  BY <1>1
<1> QED BY <1>2, PlanInductive, PTL DEF Spec, NoBurst

-----------------------------------------------------------------------------
(* Waiting for the task's own plan, while no Update changes it *)

\* What a plan computes at the clock is one of its own instants, and stays so.
LEMMA OwnAfter ==
  ASSUME Advancing, PlanTypeOK, NEW p \in Plans, NEW t \in 0..now
  PROVE  OwnInstant(p, After(p, t))
<1>1. t \in 0..Horizon
  BY LimitsAssumption DEF PlanTypeOK
<1>2. CASE p.every # 0
  <2>1. Duration(p.every) \in Nat
    BY <1>2, PlansAre DEF Advancing
  <2> QED BY <1>1, <1>2, <2>1, AfterAdvances DEF OwnInstant, PlanTypeOK
<1> QED BY <1>1, <1>2, AfterAdvances DEF OwnInstant

\* An instant of a plan's own remains one as the clock goes on.
LEMMA OwnStays ==
  ASSUME Advancing, PlanTypeOK, NEW p \in Plans, NEW at \in Int, OwnInstant(p, at),
         now' \in Int, now' >= now
  PROVE  OwnInstant(p, at)'
<1>1. CASE p.every # 0
  <2>1. Duration(p.every) \in Nat
    BY <1>1, PlansAre DEF Advancing
  <2> QED BY <1>1, <2>1 DEF OwnInstant, PlanTypeOK
<1> QED BY <1>1 DEF OwnInstant

\* The initial states fit.
LEMMA InitFits == Advancing /\ Init => FitInv
<1> SUFFICES ASSUME Advancing, Init PROVE FitInv
  OBVIOUS
<1>1. PlanInv /\ PlanTypeOK
  BY InitPlanInv DEF PlanInv
<1>2. PICK p \in Plans : file \in {Task(p, FALSE, Zero), Task(p, TRUE, After(p, 1))}
  BY DEF Init
<1>3. OwnInstant(p, After(p, 1))
  BY <1>1, OwnAfter DEF Init
<1>4. Fits(file)
  BY <1>2, <1>3 DEF Fits, Task
<1> QED BY <1>1, <1>4 DEF Init, FitInv, CopiesFit, Fits, NoRequest, WaitsForItsPlan,
                            Ready, Running

\* A step that hands copies around keeps them fitting.
LEMMA CopiesMove ==
  ASSUME Advancing, FitInv, now' \in Int, now' >= now,
         file'.plan = file.plan,
         NEW f \in TaskType, Fits(f)
  PROVE  Fits(f)'
<1>1. f.plan \in Plans /\ f.next \in Int /\ PlanTypeOK
  BY DEF TaskType, FitInv, PlanInv
<1> QED BY <1>1, OwnStays DEF Fits

\* A loop that holds its plan's next instant, or the fitting task's own, waits for
\* one of the plan's instants.
LEMMA InitialFits ==
  ASSUME PlanTypeOK, Advancing, NEW f \in TaskType, Fits(f)
  PROVE  OwnInstant(f.plan, InitialNext(f.plan, f.next, now))
<1>1. f.plan \in Plans /\ f.next \in Int /\ now \in 0..Horizon /\ now \in 0..now
  BY LimitsAssumption DEF PlanTypeOK, TaskType
<1>2. CASE f.next > now
  BY <1>1, <1>2 DEF InitialNext, Fits, Zero
<1>3. CASE ~(f.next > now)
  BY <1>1, <1>3, OwnAfter DEF InitialNext
<1> QED BY <1>2, <1>3

\* Every step keeps the copies fitting as long as the schedule is not changed.
LEMMA NextFits == Advancing /\ ~Reschedules /\ FitInv /\ [Next]_vars => FitInv'
<1> SUFFICES ASSUME Advancing, ~Reschedules, FitInv, [Next]_vars PROVE FitInv'
  OBVIOUS
<1> USE DEF FitInv, CopiesFit, WaitsForItsPlan, Ready, Running
<1>1. PlanInv' /\ PlanInv /\ PlanTypeOK /\ PlanTypeOK' /\ Ahead
  BY NextPlanInv DEF PlanInv
<1>2. /\ file \in TaskType /\ mem \in TaskType /\ req.task \in TaskType
      /\ loopCopy \subseteq TaskType /\ runCopy \subseteq TaskType
      /\ plan \in Plans /\ next \in Int /\ now \in Int /\ now \in 0..Horizon /\ now' \in Int
  BY <1>1, LimitsAssumption DEF PlanTypeOK
<1>3. CASE UNCHANGED vars
  BY <1>1, <1>3 DEF vars, Fits, OwnInstant
<1>4. CASE Tick
  <2>1. now' >= now /\ now' \in Int /\ file'.plan = file.plan
    BY <1>2, <1>4 DEF Tick
  <2>2. \A f \in TaskType : Fits(f) => Fits(f)'
    BY <2>1, CopiesMove
  <2>3. OwnInstant(plan, next) => OwnInstant(plan, next)'
    <3>1. \A p \in Plans, at \in Int : OwnInstant(p, at) => OwnInstant(p, at)'
      BY <1>1, <1>2, <2>1, OwnStays
    <3> QED BY <1>2, <1>4, <3>1 DEF Tick, OwnInstant
  <2> QED BY <1>1, <1>2, <1>4, <2>2, <2>3 DEF Tick, Fits, OwnInstant
<1>5. ASSUME now' = now, file'.plan = file.plan
      PROVE  \A f \in TaskType : Fits(f) => Fits(f)'
  BY <1>5 DEF Fits, OwnInstant
<1>6. CASE Start
  BY <1>1, <1>2, <1>5, <1>6, Registering DEF Start, Fits, OwnInstant
<1>7. CASE Crash
  BY <1>1, <1>2, <1>7 DEF Crash, Fits, NoRequest, OwnInstant
<1>8. CASE Fire
  BY <1>1, <1>2, <1>8 DEF Fire, Fits, OwnInstant
<1>9. CASE Advance
  <2>1. next \in 0..now
    BY <1>1, <1>9 DEF Advance, Ahead
  <2>2. OwnInstant(plan, next') /\ next' \in Int
    <3>1. next' \in {After(plan, next), After(plan, now)} /\ next' \in Int
      BY <1>2, <1>9, <2>1, NextAdvances DEF Advance
    <3>2. OwnInstant(plan, After(plan, next)) /\ OwnInstant(plan, After(plan, now))
      <4>1. now \in 0..now
        BY <1>2
      <4> QED BY <1>1, <1>2, <2>1, <4>1, OwnAfter
    <3> QED BY <3>1, <3>2
  <2>3. OwnInstant(plan, next)'
    BY <1>9, <2>2 DEF Advance, OwnInstant
  <2> QED BY <1>1, <1>2, <1>5, <1>9, <2>3 DEF Advance, Fits, OwnInstant
<1>10. CASE SaveNext
  BY <1>1, <1>2, <1>10 DEF SaveNext, Fits, OwnInstant
<1>11. CASE CopyResult \/ SaveResult \/ RunFails
  BY <1>1, <1>2, <1>11 DEF CopyResult, SaveResult, RunFails, Fits, OwnInstant
<1>12. CASE LoadToRun
  BY <1>1, <1>2, <1>12 DEF LoadToRun, Request, Fits, OwnInstant
<1>13. CASE LoadToUpdate
  <2>1. PICK on \in BOOLEAN, changed \in BOOLEAN :
          Request("update", Refreshed(file, file.plan, on, changed, now))
    BY <1>13 DEF LoadToUpdate
  <2> DEFINE f == Refreshed(file, file.plan, on, changed, now)
  <2>2. file.plan \in Plans /\ file.next \in Int
    BY <1>2 DEF TaskType
  <2>3. f.plan = file.plan /\ f.next \in {Zero, file.next, InitialNext(file.plan, file.next, now)}
    BY <1>2, <2>2, RefreshedType
  <2>4. OwnInstant(file.plan, After(file.plan, now))
    BY <1>1, <1>2, <2>2, OwnAfter
  <2>5. InitialNext(file.plan, file.next, now) = file.next
        \/ InitialNext(file.plan, file.next, now) = After(file.plan, now)
    BY DEF InitialNext
  <2>6. Fits(f)
    BY <2>3, <2>4, <2>5 DEF Fits
  <2>7. req'.task = f /\ now' = now /\ file' = file
    BY <2>1 DEF Request
  <2>8. Fits(req.task)'
    BY <2>6, <2>7 DEF Fits, OwnInstant
  <2> QED BY <1>1, <1>2, <2>1, <2>8 DEF Request, Fits, OwnInstant
<1>14. CASE RunNow \/ RunAdHoc
  BY <1>1, <1>2, <1>14 DEF RunNow, RunAdHoc, NoRequest, Fits, OwnInstant
<1>15. CASE Update
  <2>1. now' = now /\ file' = req.task /\ file'.plan = file.plan /\ Register(req.task)
    BY <1>15 DEF Update, Fits
  <2> QED BY <1>1, <1>2, <1>5, <1>15, <2>1, Registering DEF Update, NoRequest, Fits
<1>16. CASE Begin
  <2>1. OwnInstant(plan, next')
    BY <1>1, <1>2, <1>16, InitialFits DEF Begin, Fits
  <2>2. OwnInstant(plan, next)'
    BY <1>16, <2>1 DEF Begin, OwnInstant
  <2> QED BY <1>1, <1>2, <1>5, <1>16, <2>2 DEF Begin, Fits, OwnInstant
<1>17. CASE PersistNext
  <2>1. mem'.plan = mem.plan /\ mem'.next = next /\ OwnInstant(mem.plan, next)
    BY <1>2, <1>17 DEF PersistNext, TaskType, Fits
  <2>2. Fits(mem)'
    BY <1>17, <2>1 DEF PersistNext, Fits, OwnInstant
  <2> QED BY <1>1, <1>2, <1>5, <1>17, <2>2 DEF PersistNext, Fits, OwnInstant
<1> QED BY <1>3, <1>4, <1>6, <1>7, <1>8, <1>9, <1>10, <1>11, <1>12, <1>13, <1>14, <1>15,
           <1>16, <1>17 DEF Next

\* While no Update changes the schedule, a stale NextRunAt, saved by a run or left
\* by a crash, never makes a loop wait for an instant its plan does not have.
\* (SchedulePlan_update.cfg shows that a change of schedule does.)
THEOREM OwnPlan == Advancing /\ ~Reschedules => (Spec => []WaitsForItsPlan)
<1> SUFFICES ASSUME Advancing, ~Reschedules PROVE Spec => []WaitsForItsPlan
  OBVIOUS
<1>1. Init => FitInv
  BY InitFits
<1>2. FitInv /\ [Next]_vars => FitInv'
  BY NextFits
<1>3. FitInv => WaitsForItsPlan
  BY DEF FitInv
<1> QED BY <1>1, <1>2, <1>3, PTL DEF Spec
=============================================================================
