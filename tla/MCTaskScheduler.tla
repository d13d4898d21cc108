--------------------------- MODULE MCTaskScheduler ---------------------------
(***************************************************************************)
(* TaskScheduler where no store call fails, nothing crashes, and clients   *)
(* neither save, delete nor start a run without waiting for it: Next       *)
(* without the actions that are never enabled then, which the requests of  *)
(* MCTaskMutations take.                                                   *)
(***************************************************************************)
EXTENDS TaskScheduler

ASSUME LiveInstance ==
  /\ ~StoreFaults /\ MaxCrashes = 0
  /\ Ops = {"unregister", "upsert", "run_now", "stop_run", "stop"}

LiveCallStep(c) ==
  \/ \E t \in Tasks : Load(c, t)
  \/ Unregister(c) \/ Upsert(c) \/ Stop(c) \/ Manual(c, "run_now")
  \/ \E op \in {"unregister", "upsert", "stop", "run_now"} : Refused(c, op)
  \/ \E k \in Runs : StopRun(c, k) \/ StopRunMisses(c, k)

LiveResume(c) ==
  \/ Commit(c) \/ CommitRefused(c) \/ Drained(c) \/ CancelLifecycle(c)
  \/ \E k \in NextRun : BeginManual(c, k) \/ BeginAdHoc(c, k) \/ BeginSkipped(c, k)
  \/ AppendSkipped(c) \/ RunNowDone(c) \/ CancelRun(c) \/ StopRunDone(c) \/ Return(c)

LiveRunStep(k) ==
  \/ RegisterActive(k) \/ RejectActive(k) \/ StartLog(k)
  \/ SaveResult(k) \/ LogResult(k) \/ FinishActive(k) \/ Release(k)
  \/ \E st \in Outcomes, late \in BOOLEAN : ExecReturn(k, st, late)

LiveNext ==
  \/ Start
  \/ \E c \in Callers : LiveCallStep(c) \/ LiveResume(c) \/ StopRunTimeout(c)
  \/ \E r \in Regs : LoopStep(r) \/ Fire(r)
  \/ \E k \in Runs : LiveRunStep(k) \/ Progress(k)

LiveSpec == Init /\ [][LiveNext]_vars /\ Fairness
=============================================================================
