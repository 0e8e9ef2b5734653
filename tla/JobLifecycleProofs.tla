------------------------- MODULE JobLifecycleProofs -------------------------
(***************************************************************************)
(* Proofs about JobLifecycle for every set of jobs and every limit: type   *)
(* correctness, the inductive invariant IInv, the safety properties it     *)
(* implies, and the refinement of JobBoard.                                *)
(***************************************************************************)
EXTENDS JobLifecycle, FiniteSetTheorems, TLAPS

-----------------------------------------------------------------------------
(* Type correctness *)

(* A mark leaves the state, the control point and the pending writes typed. *)
LEMMA MarkType ==
  ASSUME TypeOK, NEW j \in Jobs, NEW s \in JobState,
         NEW a \in WorkerPc, NEW b \in WorkerPc, Mark(j, s, a, b)
  PROVE  /\ state' \in [Jobs -> JobState \cup {"Absent"}]
         /\ worker' \in [Jobs -> WorkerPc]
         /\ writes' \in SUBSET Write
  BY DEF TypeOK, Mark, Goto, Spawned, Write

(* A worker step preserves the types. *)
LEMMA WorkerType ==
  ASSUME TypeOK, NEW j \in Jobs, WorkerStep(j)
  PROVE  TypeOK'
<1> USE DEF WorkerPc, LoopPc, RunPc, EndPc, JobState
<1>1. CASE WorkerStart(j)
  BY <1>1 DEF WorkerStart, Goto, TypeOK, notWorker, schedVars
<1>2. CASE WorkerStopped(j) \/ WorkerSeesCancelled(j)
  BY <1>2 DEF WorkerStopped, WorkerSeesCancelled, Goto, TypeOK, notWorker, schedVars
<1>3. CASE WorkerIterates(j)
  <2>1. iteration' \in [Jobs -> 0..MaxIterations]
    BY <1>3, LimitsAssumption DEF WorkerIterates, TypeOK
  <2> QED BY <1>3, <2>1 DEF WorkerIterates, Goto, TypeOK, notWorker, schedVars
<1>4. CASE WorkerActs(j) \/ WorkerPlanEnds(j) \/ WorkerTimeout(j) \/ WorkerReads(j)
  BY <1>4 DEF WorkerActs, WorkerPlanEnds, WorkerTimeout, WorkerReads, Goto,
              TypeOK, notWorker, schedVars
<1>5. CASE WorkerClaims(j)
  <2>1. Mark(j, "Completed", "post", "failing")
    BY <1>5 DEF WorkerClaims
  <2>2. QED BY <1>5, <2>1, MarkType DEF WorkerClaims, TypeOK, notWorker, schedVars
<1>6. CASE WorkerGivesUp(j)
  <2>1. Mark(j, "Stuck", "post", "failing")
    BY <1>6 DEF WorkerGivesUp
  <2>2. QED BY <1>6, <2>1, MarkType DEF WorkerGivesUp, TypeOK, notWorker, schedVars
<1>7. CASE WorkerMarks(j)
  <2>1. \E s \in {"Completed", "Failed", "Stuck"} : Mark(j, s, "ok", "err")
    BY <1>7 DEF WorkerMarks
  <2>2. QED BY <1>7, <2>1, MarkType DEF WorkerMarks, TypeOK, notWorker, schedVars
<1>8. QED
  BY <1>1, <1>2, <1>3, <1>4, <1>5, <1>6, <1>7 DEF WorkerStep

(* Scheduling leaves what it changes typed. *)
LEMMA ScheduleType ==
  ASSUME TypeOK, NEW j \in Jobs, Schedule(j)
  PROVE  /\ state' \in [Jobs -> JobState \cup {"Absent"}]
         /\ jobs' \in SUBSET Jobs
         /\ worker' \in [Jobs -> WorkerPc]
  BY DEF TypeOK, Schedule, JobState, WorkerPc, LoopPc

(* Every variable keeps its type in every step. *)
LEMMA TypeStep == TypeOK /\ [Next]_vars => TypeOK'
<1> SUFFICES ASSUME TypeOK, [Next]_vars PROVE TypeOK'
  OBVIOUS
<1> USE DEF contextVars, schedVars, workerVars, dbVars, JobState
<1>1. ASSUME NEW j \in Jobs, CreateJob(j) PROVE TypeOK'
  BY <1>1 DEF CreateJob, TypeOK, DispatchPc
<1>2. ASSUME NEW j \in Jobs, SaveJob(j) PROVE TypeOK'
  BY <1>2 DEF SaveJob, TypeOK, DispatchPc
<1>3. ASSUME NEW j \in Jobs, DispatchFails(j) PROVE TypeOK'
  BY <1>3 DEF DispatchFails, TypeOK, DispatchPc
<1>4. ASSUME NEW j \in Jobs, DispatchSchedule(j) PROVE TypeOK'
  <2>1. Schedule(j)
    BY <1>4 DEF DispatchSchedule
  <2>2. QED
    BY <1>4, <2>1, ScheduleType DEF DispatchSchedule, Schedule, TypeOK, DispatchPc
<1>5. ASSUME NEW j \in Jobs, Cleanup(j) PROVE TypeOK'
  BY <1>5 DEF Cleanup, TypeOK
<1>6. ASSUME NEW j \in Jobs, WorkerStep(j) PROVE TypeOK'
  BY <1>6, WorkerType
<1>7. ASSUME NEW j \in Jobs, ChatCancel(j) PROVE TypeOK'
  BY <1>7 DEF ChatCancel, TypeOK, ChatOps, notChat
<1>8. ASSUME NEW j \in Jobs, ChatHelp(j) PROVE TypeOK'
  BY <1>8 DEF ChatHelp, Recover, TypeOK, ChatOps
<1>9. ASSUME NEW j \in Jobs, CancelTool(j) PROVE TypeOK'
  BY <1>9 DEF CancelTool, TypeOK
<1>10. ASSUME NEW j \in Jobs, WebCancel(j) PROVE TypeOK'
  BY <1>10 DEF WebCancel, Spawned, Write, TypeOK
<1>11. CASE StopEnds
  BY <1>11 DEF StopEnds, TypeOK, ChatOps, notChat, Spawned, Write, WorkerPc, EndPc
<1>12. CASE ChatPersist
  BY <1>12 DEF ChatPersist, Updated, TypeOK, ChatOps, Idle, notChat
<1>13. CASE ChatReschedule
  <2>1. chat.job \in Jobs /\ Schedule(chat.job)
    BY <1>13 DEF ChatReschedule, TypeOK
  <2>2. QED
    BY <1>13, <2>1, ScheduleType DEF ChatReschedule, Schedule, TypeOK, ChatOps, Idle
<1>14. CASE RepairScan
  BY <1>14 DEF RepairScan, StuckJobs, TypeOK
<1>15. ASSUME NEW f \in found, RepairJob(f) PROVE TypeOK'
  BY <1>15 DEF RepairJob, Recover, TypeOK
<1>16. ASSUME NEW w \in writes, WriteLands(w) PROVE TypeOK'
  BY <1>16 DEF WriteLands, Updated, Write, TypeOK
<1>17. CASE UNCHANGED vars
  BY <1>17 DEF vars, TypeOK
<1>18. QED
  BY <1>1, <1>2, <1>3, <1>4, <1>5, <1>6, <1>7, <1>8, <1>9, <1>10, <1>11,
     <1>12, <1>13, <1>14, <1>15, <1>16, <1>17 DEF Next

(* The variables of JobLifecycle have their types in every reachable state, *)
(* whatever the set of jobs and the limits.                                 *)
THEOREM TypeCorrect == Spec => []TypeOK
<1>1. Init => TypeOK
  BY LimitsAssumption DEF Init, TypeOK, DispatchPc, WorkerPc, Idle, ChatOps
<1>2. QED
  BY <1>1, TypeStep, PTL DEF Spec

-----------------------------------------------------------------------------
(* The inductive invariant *)

(* A step that leaves the control state of a job alone leaves JobInv alone. *)
LEMMA JobInvUnchanged ==
  ASSUME NEW j \in Jobs, JobInv(j),
         state'[j] = state[j], worker'[j] = worker[j],
         dispatch'[j] = dispatch[j], repairs'[j] = repairs[j],
         j \in jobs' => j \in jobs
  PROVE  JobInv(j)'
  BY DEF JobInv, StateFits, Alive

(* A worker step keeps JobInv of its own job and touches no other. *)
LEMMA WorkerJobInv ==
  ASSUME TypeOK, NEW j \in Jobs, WorkerStep(j), \A i \in Jobs : JobInv(i)
  PROVE  \A i \in Jobs : JobInv(i)'
<1> USE DEF notWorker, schedVars, Goto
<1>1. ASSUME NEW i \in Jobs, i # j PROVE JobInv(i)'
  <2>1. /\ state'[i] = state[i]
        /\ worker'[i] = worker[i]
        /\ dispatch'[i] = dispatch[i]
        /\ repairs'[i] = repairs[i]
        /\ jobs' = jobs
    BY <1>1 DEF WorkerStep, WorkerStart, WorkerStopped, WorkerSeesCancelled,
                WorkerIterates, WorkerActs, WorkerPlanEnds, WorkerClaims,
                WorkerGivesUp, WorkerTimeout, WorkerReads, WorkerMarks, Mark, TypeOK
  <2>2. QED BY <1>1, <2>1, JobInvUnchanged
<1>2. JobInv(j)'
  <2> USE DEF JobInv, StateFits, Alive, LoopPc, RunPc, EndPc, TypeOK
  <2>1. CASE WorkerStart(j)
    BY <2>1 DEF WorkerStart
  <2>2. CASE WorkerStopped(j) \/ WorkerSeesCancelled(j)
    BY <2>2 DEF WorkerStopped, WorkerSeesCancelled
  <2>3. CASE WorkerIterates(j)
    BY <2>3 DEF WorkerIterates
  <2>4. CASE WorkerActs(j) \/ WorkerPlanEnds(j)
    BY <2>4 DEF WorkerActs, WorkerPlanEnds
  <2>5. CASE WorkerClaims(j) \/ WorkerGivesUp(j)
    BY <2>5 DEF WorkerClaims, WorkerGivesUp, Mark, CanTransition, Transitions
  <2>6. CASE WorkerTimeout(j)
    BY <2>6 DEF WorkerTimeout
  <2>7. CASE WorkerReads(j)
    BY <2>7 DEF WorkerReads, Terminal
  <2>8. CASE WorkerMarks(j)
    BY <2>8 DEF WorkerMarks, Mark, CanTransition, Transitions
  <2>9. QED
    BY <2>1, <2>2, <2>3, <2>4, <2>5, <2>6, <2>7, <2>8 DEF WorkerStep
<1>3. QED
  BY <1>1, <1>2

(* Only a job whose dispatch has just been saved can be started: a job with *)
(* a worker, past or present, is refused unless it is stuck.                *)
LEMMA ScheduleStarts ==
  ASSUME TypeOK, NEW j \in Jobs, JobInv(j), CanSchedule(j)
  PROVE  \/ worker[j] = "none" /\ state[j] = "Pending"
         \/ state[j] = "Stuck"
  <1>1. state[j] \in {"Pending", "Stuck"}
    BY DEF CanSchedule, CanTransition, Transitions
  <1>2. state[j] = "Pending" => worker[j] = "none"
    BY DEF JobInv, StateFits, TypeOK, WorkerPc, LoopPc, RunPc, EndPc
  <1>3. QED BY <1>1, <1>2

(* ControlInv is preserved. *)
LEMMA ControlStep ==
  ASSUME TypeOK, ControlInv, [Next]_vars
  PROVE  ControlInv'
<1>0. \A j \in Jobs : JobInv(j)
  BY DEF ControlInv
<1> DEFINE ChatOk == /\ chat.op = "reschedule" => repairs[chat.job] = 1
                     /\ chat.op = "stopping" => worker[chat.job] # "none"
<1>a. ChatOk
  BY DEF ControlInv
<1>b. ASSUME \A i \in Jobs : JobInv(i)', ChatOk' PROVE ControlInv'
  BY <1>b DEF ControlInv
<1> HIDE DEF ChatOk
<1> SUFFICES (\A i \in Jobs : JobInv(i)') /\ ChatOk'
  BY <1>b
<1> USE DEF contextVars, schedVars, workerVars, dbVars
<1>1. ASSUME NEW j \in Jobs, CreateJob(j)
      PROVE  (\A i \in Jobs : JobInv(i)') /\ ChatOk'
  BY <1>0, <1>1, <1>a DEF CreateJob, JobInv, StateFits, Alive, RunPc, LoopPc, EndPc, TypeOK, ChatOk
<1>2. ASSUME NEW j \in Jobs, SaveJob(j) \/ DispatchFails(j)
      PROVE  (\A i \in Jobs : JobInv(i)') /\ ChatOk'
  BY <1>0, <1>2, <1>a DEF SaveJob, DispatchFails, JobInv, TypeOK, StateFits, Alive, RunPc, ChatOk
<1>3. ASSUME NEW j \in Jobs, DispatchSchedule(j)
      PROVE  (\A i \in Jobs : JobInv(i)') /\ ChatOk'
  <2>1. worker[j] = "none" /\ repairs[j] = 0 /\ state[j] \in {"Pending", "Cancelled"}
    BY <1>0, <1>3 DEF DispatchSchedule, JobInv, StateFits, Alive, RunPc, EndPc, TypeOK
  <2>2. QED
    BY <1>0, <1>3, <1>a, <2>1
       DEF DispatchSchedule, Schedule, JobInv, StateFits, Alive, RunPc, LoopPc, EndPc, TypeOK, ChatOk
<1>4. ASSUME NEW j \in Jobs, Cleanup(j) \/ WebCancel(j)
      PROVE  (\A i \in Jobs : JobInv(i)') /\ ChatOk'
  BY <1>0, <1>4, <1>a DEF Cleanup, WebCancel, JobInv, StateFits, Alive, RunPc, ChatOk
<1>5. ASSUME NEW j \in Jobs, WorkerStep(j)
      PROVE  (\A i \in Jobs : JobInv(i)') /\ ChatOk'
  <2>1. /\ UNCHANGED <<chat, repairs>>
        /\ \A i \in Jobs : worker[i] # "none" => worker'[i] # "none"
    BY <1>5 DEF WorkerStep, WorkerStart, WorkerStopped, WorkerSeesCancelled,
                WorkerIterates, WorkerActs, WorkerPlanEnds, WorkerClaims,
                WorkerGivesUp, WorkerTimeout, WorkerReads, WorkerMarks, Mark,
                Goto, notWorker, TypeOK
  <2>2. QED BY <1>0, <1>5, <1>a, <2>1, WorkerJobInv DEF ChatOk, TypeOK
<1>6. ASSUME NEW j \in Jobs, ChatCancel(j)
      PROVE  (\A i \in Jobs : JobInv(i)') /\ ChatOk'
  BY <1>0, <1>6 DEF ChatCancel, JobInv, StateFits, Alive, RunPc, notChat, ChatOk
<1>7. ASSUME NEW j \in Jobs, Recover(j), UNCHANGED <<worker, dispatch, jobs>>
      PROVE  (\A i \in Jobs : JobInv(i)') /\ repairs'[j] = 1
  <2>1. worker[j] \in {"post"} \cup EndPc /\ repairs[j] = 0
    BY <1>0, <1>7 DEF Recover, JobInv, StateFits, Alive, RunPc, TypeOK, WorkerPc, LoopPc, EndPc
  <2>2. QED
    BY <1>0, <1>7, <2>1 DEF Recover, JobInv, StateFits, Alive, RunPc, TypeOK, LoopPc, EndPc
<1>8. ASSUME NEW j \in Jobs, ChatHelp(j)
      PROVE  (\A i \in Jobs : JobInv(i)') /\ ChatOk'
  BY <1>7, <1>8 DEF ChatHelp, ChatOk
<1>9. ASSUME NEW j \in Jobs, CancelTool(j)
      PROVE  (\A i \in Jobs : JobInv(i)') /\ ChatOk'
  BY <1>0, <1>9, <1>a
     DEF CancelTool, CanTransition, Transitions, JobInv, StateFits, Alive, RunPc, LoopPc, EndPc,
         TypeOK, ChatOk
<1>10. CASE StopEnds
  <2>1. PICK j \in Jobs : j = chat.job
    BY <1>10 DEF StopEnds, TypeOK
  <2>2. /\ worker' = [worker EXCEPT ![j] = IF @ \in EndPc THEN @ ELSE "aborted"]
        /\ state' = [state EXCEPT ![j] =
                       IF CanTransition(@, "Cancelled") THEN "Cancelled" ELSE @]
        /\ UNCHANGED <<repairs, dispatch, jobs>>
        /\ chat'.op = "persist"
    BY <1>10, <2>1 DEF StopEnds, notChat
  <2>3. worker[j] # "none"
    BY <1>10, <1>a, <2>1 DEF StopEnds, ChatOk
  <2>4. ASSUME NEW i \in Jobs, i # j PROVE JobInv(i)'
    BY <1>0, <2>1, <2>2, <2>4, JobInvUnchanged DEF TypeOK
  <2>5. JobInv(j)'
    <3>1. state[j] \in {"InProgress", "Completed", "Failed", "Stuck", "Cancelled"}
      BY <1>0, <2>1, <2>3 DEF JobInv, StateFits, Alive, RunPc, TypeOK, WorkerPc, LoopPc, EndPc
    <3>2. state'[j] \in {"Completed", "Failed", "Cancelled"}
      BY <2>1, <2>2, <3>1 DEF CanTransition, Transitions, TypeOK
    <3>3. worker'[j] \in EndPc
      BY <2>1, <2>2 DEF EndPc, TypeOK
    <3>4. QED
      BY <1>0, <2>1, <2>2, <2>3, <3>1, <3>2, <3>3
         DEF JobInv, StateFits, Alive, RunPc, LoopPc, EndPc, TypeOK
  <2>6. QED
    BY <2>2, <2>4, <2>5 DEF ChatOk
<1>11. CASE ChatPersist
  BY <1>0, <1>11 DEF ChatPersist, Idle, notChat, JobInv, StateFits, Alive, RunPc, ChatOk
<1>12. CASE ChatReschedule
  <2> DEFINE j == chat.job
  <2>1. j \in Jobs /\ JobInv(j) /\ Schedule(j) /\ dispatch' = dispatch
    BY <1>0, <1>12 DEF ChatReschedule, TypeOK
  <2>2. ~CanSchedule(j)
    <3>1. state[j] # "Stuck" /\ worker[j] # "none"
      BY <1>12, <1>a, <2>1 DEF ChatReschedule, ChatOk, JobInv, EndPc
    <3>2. QED BY <2>1, <3>1, ScheduleStarts
  <2>3. UNCHANGED <<state, worker, dispatch, repairs, jobs>> /\ chat' = Idle
    BY <1>12, <2>1, <2>2 DEF ChatReschedule, Schedule
  <2>4. QED
    BY <1>0, <2>3 DEF JobInv, StateFits, Alive, RunPc, Idle, ChatOk
<1>13. CASE RepairScan
  BY <1>0, <1>13, <1>a DEF RepairScan, JobInv, StateFits, Alive, RunPc, ChatOk
<1>14. ASSUME NEW f \in found, RepairJob(f)
       PROVE  (\A i \in Jobs : JobInv(i)') /\ ChatOk'
  <2>1. f.job \in Jobs
    BY DEF TypeOK
  <2>2. CASE Recover(f.job)
    <3>1. repairs[f.job] # 1
      BY <1>0, <2>1, <2>2 DEF Recover, JobInv
    <3>2. QED
      BY <1>7, <1>14, <1>a, <2>1, <2>2, <3>1 DEF RepairJob, Recover, ChatOk, TypeOK
  <2>3. CASE UNCHANGED contextVars
    BY <1>0, <1>14, <1>a, <2>3 DEF RepairJob, JobInv, StateFits, Alive, RunPc, ChatOk
  <2>4. QED BY <1>14, <2>2, <2>3 DEF RepairJob
<1>15. ASSUME NEW w \in writes, WriteLands(w)
       PROVE  (\A i \in Jobs : JobInv(i)') /\ ChatOk'
  BY <1>0, <1>15, <1>a DEF WriteLands, JobInv, StateFits, Alive, RunPc, ChatOk
<1>16. CASE UNCHANGED vars
  BY <1>0, <1>16, <1>a DEF vars, JobInv, StateFits, Alive, RunPc, ChatOk
<1>17. QED
  BY <1>1, <1>2, <1>3, <1>4, <1>5, <1>6, <1>8, <1>9, <1>10, <1>11, <1>12,
     <1>13, <1>14, <1>15, <1>16 DEF Next

-----------------------------------------------------------------------------
(* Refinement of JobBoard *)

Recovered == {j \in Jobs : repairs[j] > 0}

(* JobBoard reads JobStates as JobLifecycle does. *)
LEMMA BoardActive == Board!Active = ActiveJobs
  BY DEF Board!Active, Board!IsActive, Board!JobState, Board!Terminal, ActiveJobs,
         IsActive, JobState, Terminal

(* The instance counts as this module does. *)
LEMMA BoardCount == \A S : Board!Cardinality(S) = Cardinality(S)
  BY DEF Board!Cardinality, Cardinality, Board!IsFiniteSet, IsFiniteSet

(* A step that changes the state of one job along an edge of the board. *)
LEMMA BoardMove ==
  ASSUME TypeOK, NEW j \in Jobs, NEW to,
         state' = [state EXCEPT ![j] = to], UNCHANGED repairs,
         \/ state[j] = "Pending" /\ to = "InProgress"
         \/ state[j] = "InProgress" /\ to \in {"Completed", "Failed"}
         \/ state[j] = "InProgress" /\ to = "Stuck" /\ repairs[j] = 0
         \/ state[j] \in {"Pending", "InProgress", "Stuck"} /\ to = "Cancelled"
  PROVE  Board!Next
<1>1. Recovered' = Recovered
  BY DEF Recovered
<1>2. CASE state[j] = "Pending" /\ to = "InProgress"
  <2>1. Board!Start(j)
    BY <1>1, <1>2 DEF Board!Start, Board!Move, Recovered
  <2>2. QED BY <2>1 DEF Board!Next
<1>3. CASE state[j] = "InProgress" /\ to \in {"Completed", "Failed"}
  <2>1. Board!End(j)
    BY <1>1, <1>3 DEF Board!End, Board!Move, Recovered
  <2>2. QED BY <2>1 DEF Board!Next
<1>4. CASE state[j] = "InProgress" /\ to = "Stuck" /\ repairs[j] = 0
  <2>1. Board!GetStuck(j)
    BY <1>1, <1>4 DEF Board!GetStuck, Board!Move, Recovered
  <2>2. QED BY <2>1 DEF Board!Next
<1>5. CASE state[j] \in {"Pending", "InProgress", "Stuck"} /\ to = "Cancelled"
  <2>1. Board!Cancel(j)
    BY <1>1, <1>5 DEF Board!Cancel, Board!Move, Recovered
  <2>2. QED BY <2>1 DEF Board!Next
<1>6. QED
  BY <1>2, <1>3, <1>4, <1>5

(* attempt_recovery is the board's Recover. *)
LEMMA BoardRecover ==
  ASSUME TypeOK, NEW j \in Jobs, Recover(j)
  PROVE  Board!Next
<1>1. Recovered' = Recovered \cup {j}
  BY DEF Recover, Recovered, TypeOK
<1>2. Board!Recover(j)
  BY <1>1 DEF Recover, Board!Recover, Board!Move, Recovered
<1>3. QED BY <1>2 DEF Board!Next

(* Every step of JobLifecycle is a step of the board or leaves it alone. *)
LEMMA BoardStep ==
  ASSUME TypeOK, ControlInv, [Next]_vars
  PROVE  [Board!Next]_(Board!vars)
<1>0. \A j \in Jobs : JobInv(j)
  BY DEF ControlInv
<1>u. ASSUME UNCHANGED contextVars PROVE [Board!Next]_(Board!vars)
  BY <1>u DEF contextVars, Board!vars
<1>1. ASSUME NEW j \in Jobs, CreateJob(j) PROVE Board!Next
  <2>1. state[j] = "Absent"
    BY <1>0, <1>1 DEF CreateJob, JobInv
  <2>2. Board!Admit(j)
    <3>1. Recovered' = Recovered
      BY <1>1 DEF CreateJob, Recovered
    <3>2. QED
      BY <1>1, <2>1, <3>1, BoardActive, BoardCount DEF CreateJob, Recovered, Board!Admit, Board!Move
  <2>3. QED BY <2>2 DEF Board!Next
<1>2. ASSUME NEW j \in Jobs, SaveJob(j) \/ DispatchFails(j) \/ Cleanup(j)
                             \/ ChatCancel(j) \/ WebCancel(j)
      PROVE  UNCHANGED contextVars
  BY <1>2 DEF SaveJob, DispatchFails, Cleanup, ChatCancel, WebCancel
<1>3. ASSUME NEW j \in Jobs, DispatchSchedule(j)
      PROVE  UNCHANGED contextVars \/ Board!Next
  <2>1. CASE CanSchedule(j)
    <3>1. state[j] = "Pending"
      BY <1>0, <1>3, <2>1 DEF DispatchSchedule, CanSchedule, CanTransition,
                              Transitions, JobInv, StateFits
    <3>2. state' = [state EXCEPT ![j] = "InProgress"] /\ UNCHANGED repairs
      BY <1>3, <2>1 DEF DispatchSchedule, Schedule
    <3>3. QED BY <3>1, <3>2, BoardMove
  <2>2. CASE ~CanSchedule(j)
    BY <1>3, <2>2 DEF DispatchSchedule, Schedule, contextVars
  <2>3. QED BY <2>1, <2>2
<1>4. ASSUME NEW j \in Jobs, NEW s, NEW a, NEW b, Mark(j, s, a, b), UNCHANGED repairs,
             \/ s = "Completed"
             \/ s \in {"Failed", "Stuck"} /\ worker[j] \in LoopPc \cup {"failing", "timedOut"}
      PROVE  UNCHANGED contextVars \/ Board!Next
  <2>1. CASE CanTransition(state[j], s)
    <3>1. state' = [state EXCEPT ![j] = s]
      BY <1>4, <2>1 DEF Mark
    <3>2. state[j] = "InProgress"
      BY <1>0, <1>4, <2>1 DEF CanTransition, Transitions, JobInv, StateFits, LoopPc
    <3>3. s = "Stuck" => repairs[j] = 0
      BY <1>0, <1>4 DEF JobInv, LoopPc, EndPc, TypeOK
    <3>4. QED BY <1>4, <3>1, <3>2, <3>3, BoardMove
  <2>2. CASE ~CanTransition(state[j], s)
    BY <1>4, <2>2 DEF Mark, contextVars
  <2>3. QED BY <2>1, <2>2
<1>5. ASSUME NEW j \in Jobs, WorkerStep(j)
      PROVE  UNCHANGED contextVars \/ Board!Next
  <2>1. UNCHANGED repairs
    BY <1>5 DEF WorkerStep, WorkerStart, WorkerStopped, WorkerSeesCancelled,
                WorkerIterates, WorkerActs, WorkerPlanEnds, WorkerClaims,
                WorkerGivesUp, WorkerTimeout, WorkerReads, WorkerMarks, notWorker
  <2>2. \/ UNCHANGED state
        \/ WorkerClaims(j) \/ WorkerGivesUp(j) \/ WorkerMarks(j)
    BY <1>5 DEF WorkerStep, WorkerStart, WorkerStopped, WorkerSeesCancelled,
                WorkerIterates, WorkerActs, WorkerPlanEnds, WorkerTimeout, WorkerReads
  <2>3. CASE WorkerClaims(j)
    <3>1. Mark(j, "Completed", "post", "failing")
      BY <2>3 DEF WorkerClaims
    <3>2. QED BY <1>4, <2>1, <3>1
  <2>4. CASE WorkerGivesUp(j)
    <3>1. Mark(j, "Stuck", "post", "failing") /\ worker[j] \in LoopPc
      BY <2>4 DEF WorkerGivesUp, LoopPc
    <3>2. QED BY <1>4, <2>1, <3>1
  <2>5. CASE WorkerMarks(j)
    <3>1. \/ Mark(j, "Completed", "ok", "err")
          \/ worker[j] = "failing" /\ Mark(j, "Failed", "ok", "err")
          \/ worker[j] = "timedOut" /\ Mark(j, "Stuck", "ok", "err")
      BY <2>5 DEF WorkerMarks
    <3>2. QED BY <1>4, <2>1, <3>1
  <2>6. QED BY <2>1, <2>2, <2>3, <2>4, <2>5 DEF contextVars
<1>6. ASSUME NEW j \in Jobs, ChatHelp(j) PROVE Board!Next
  BY <1>6, BoardRecover DEF ChatHelp
<1>7. ASSUME NEW j \in Jobs, CancelTool(j) PROVE Board!Next
  <2>1. state[j] \in {"Pending", "InProgress", "Stuck"}
    BY <1>7 DEF CancelTool, CanTransition, Transitions
  <2>2. QED BY <1>7, <2>1, BoardMove DEF CancelTool
<1>8. CASE StopEnds
  <2>1. PICK j \in Jobs : j = chat.job
    BY <1>8 DEF StopEnds, TypeOK
  <2>2. /\ state' = [state EXCEPT ![j] =
                       IF CanTransition(@, "Cancelled") THEN "Cancelled" ELSE @]
        /\ UNCHANGED repairs
    BY <1>8, <2>1 DEF StopEnds
  <2>3. CASE CanTransition(state[j], "Cancelled")
    <3>1. state[j] \in {"Pending", "InProgress", "Stuck"}
      BY <2>3 DEF CanTransition, Transitions
    <3>2. state' = [state EXCEPT ![j] = "Cancelled"]
      BY <2>2, <2>3 DEF TypeOK
    <3>3. QED BY <2>2, <3>1, <3>2, BoardMove
  <2>4. CASE ~CanTransition(state[j], "Cancelled")
    <3>1. state' = state
      BY <2>2, <2>4 DEF TypeOK
    <3>2. QED BY <1>u, <2>2, <3>1 DEF contextVars
  <2>5. QED BY <2>3, <2>4
<1>9. CASE ChatPersist \/ RepairScan
  BY <1>u, <1>9 DEF ChatPersist, RepairScan
<1>10. CASE ChatReschedule
  <2>1. chat.job \in Jobs /\ JobInv(chat.job) /\ Schedule(chat.job)
    BY <1>0, <1>10 DEF ChatReschedule, TypeOK
  <2>2. ~CanSchedule(chat.job)
    <3>1. state[chat.job] # "Stuck" /\ worker[chat.job] # "none"
      BY <1>10, <2>1 DEF ChatReschedule, ControlInv, JobInv, EndPc
    <3>2. QED BY <2>1, <3>1, ScheduleStarts
  <2>3. QED BY <1>u, <2>1, <2>2 DEF Schedule, contextVars
<1>11. ASSUME NEW f \in found, RepairJob(f)
       PROVE  UNCHANGED contextVars \/ Board!Next
  BY <1>11, BoardRecover DEF RepairJob, TypeOK
<1>12. ASSUME NEW w \in writes, WriteLands(w) PROVE UNCHANGED contextVars
  BY <1>12 DEF WriteLands
<1>13. CASE UNCHANGED vars
  BY <1>u, <1>13 DEF vars, contextVars
<1>14. QED
  BY <1>u, <1>1, <1>2, <1>3, <1>5, <1>6, <1>7, <1>8, <1>9, <1>10, <1>11,
     <1>12, <1>13 DEF Next

-----------------------------------------------------------------------------
(* Capacity, slots and persistence *)

LEMMA FiniteParts ==
  /\ \A S \in SUBSET Jobs : IsFiniteSet(S) /\ Cardinality(S) \in Nat
  /\ \A S \in SUBSET Jobs : \A T \in SUBSET S : Cardinality(T) <= Cardinality(S)
<1>1. \A S \in SUBSET Jobs : IsFiniteSet(S)
  BY JobsAssumption, FS_Subset
<1>2. QED
  BY <1>1, FS_Subset, FS_CardinalityType

(* A board step admits one job when there is room, or makes no job active. *)
LEMMA CapacityStep ==
  ASSUME TypeOK, CapacityBound, [Board!Next]_(Board!vars)
  PROVE  CapacityBound'
<1>1. ActiveJobs \in SUBSET Jobs /\ ActiveJobs' \in SUBSET Jobs
  BY DEF ActiveJobs
<1>2. CASE ActiveJobs' \subseteq ActiveJobs
  BY <1>1, <1>2, FiniteParts, LimitsAssumption DEF CapacityBound
<1>3. ASSUME NEW j \in Jobs, Board!Admit(j) PROVE CapacityBound'
  <2>1. Cardinality(ActiveJobs) < MaxParallelJobs
    BY <1>3, BoardActive, BoardCount DEF Board!Admit
  <2>2. ActiveJobs' = ActiveJobs \cup {j}
    BY <1>3 DEF Board!Admit, Board!Move, ActiveJobs, IsActive, JobState, Terminal, TypeOK
  <2>3. Cardinality(ActiveJobs \cup {j}) <= Cardinality(ActiveJobs) + 1
    BY <1>1, FiniteParts, FS_AddElement
  <2>4. QED
    BY <1>1, <2>1, <2>2, <2>3, FiniteParts, LimitsAssumption DEF CapacityBound
<1>4. ASSUME NEW j \in Jobs,
             Board!Start(j) \/ Board!End(j) \/ Board!GetStuck(j) \/ Board!Recover(j)
               \/ Board!Cancel(j)
      PROVE  ActiveJobs' \subseteq ActiveJobs
  BY <1>4 DEF Board!Start, Board!End, Board!GetStuck, Board!Recover, Board!Cancel,
              Board!Move, ActiveJobs, IsActive, JobState, Terminal, TypeOK
<1>5. CASE UNCHANGED Board!vars
  <2>1. state' = state
    BY <1>5 DEF Board!vars
  <2>2. QED BY <1>2, <2>1 DEF ActiveJobs
<1>6. QED
  BY <1>2, <1>3, <1>4, <1>5 DEF Board!Next

(* Completed, Failed and Cancelled are for good. *)
LEMMA OutcomeStable ==
  ASSUME TypeOK, [Board!Next]_(Board!vars), NEW j \in Jobs,
         state[j] \in {"Completed", "Failed", "Cancelled"}
  PROVE  state'[j] = state[j]
  BY DEF Board!Next, Board!vars, Board!Admit, Board!Start, Board!End, Board!GetStuck,
         Board!Recover, Board!Cancel, Board!Move, TypeOK

(* What a step can do to Scheduler.jobs, the entry stop() holds, and the    *)
(* set of running workers.                                                  *)
LEMMA SlotStep ==
  ASSUME TypeOK, ControlInv, SlotInv, [Next]_vars
  PROVE  SlotInv'
<1>0. \A j \in Jobs : JobInv(j)
  BY DEF ControlInv
<1> USE DEF contextVars, schedVars, workerVars, dbVars
<1>t. Stopping \in SUBSET Jobs /\ jobs \cup Stopping \in SUBSET Jobs
  BY DEF Stopping, TypeOK
<1>g. ASSUME LiveWorkers' \subseteq LiveWorkers, jobs' = jobs, Stopping' = Stopping
      PROVE  SlotInv'
  BY <1>g DEF SlotInv
<1>1. ASSUME NEW j \in Jobs,
             CreateJob(j) \/ SaveJob(j) \/ DispatchFails(j) \/ CancelTool(j) \/ WebCancel(j)
      PROVE  SlotInv'
  <2>1. UNCHANGED <<worker, jobs, chat>>
    BY <1>1 DEF CreateJob, SaveJob, DispatchFails, CancelTool, WebCancel
  <2>2. QED BY <1>g, <2>1 DEF LiveWorkers, Alive, Stopping
<1>2. ASSUME NEW j \in Jobs, Schedule(j),
             UNCHANGED chat \/ (chat.op = "reschedule" /\ chat' = Idle)
      PROVE  SlotInv'
  <2>1. Stopping = {} /\ Stopping' = {}
    BY <1>2 DEF Schedule, JobsLockFree, Stopping, Idle
  <2>2. CASE CanSchedule(j)
    <3>1. /\ jobs' = jobs \cup {j}
          /\ LiveWorkers' \subseteq LiveWorkers \cup {j}
      BY <1>2, <2>2 DEF Schedule, LiveWorkers, Alive, TypeOK
    <3>2. Cardinality(jobs \cup {j}) <= Cardinality(jobs) + 1
      BY FiniteParts, FS_AddElement DEF TypeOK
    <3>3. Cardinality(jobs) < MaxParallelJobs /\ jobs \in SUBSET Jobs
      BY <2>2 DEF CanSchedule, TypeOK
    <3>4. Cardinality(jobs \cup {j}) <= MaxParallelJobs
      BY <1>2, <3>2, <3>3, FiniteParts, LimitsAssumption
    <3>5. QED
      BY <2>1, <3>1, <3>4 DEF SlotInv
  <2>3. CASE ~CanSchedule(j)
    <3>1. UNCHANGED <<worker, jobs>>
      BY <1>2, <2>3 DEF Schedule
    <3>2. QED BY <1>g, <2>1, <3>1 DEF LiveWorkers, Alive
  <2>4. QED BY <2>2, <2>3
<1>3. ASSUME NEW j \in Jobs, DispatchSchedule(j) PROVE SlotInv'
  BY <1>2, <1>3 DEF DispatchSchedule
<1>4. ASSUME NEW j \in Jobs, Cleanup(j) PROVE SlotInv'
  <2>1. /\ jobs' = jobs \ {j}
        /\ Stopping' = Stopping
        /\ LiveWorkers' = LiveWorkers
        /\ j \notin LiveWorkers
    BY <1>4 DEF Cleanup, Stopping, LiveWorkers, Alive, EndPc, LoopPc, RunPc
  <2>2. jobs' \cup Stopping' \in SUBSET (jobs \cup Stopping)
    BY <2>1
  <2>3. Cardinality(jobs' \cup Stopping') <= MaxParallelJobs
    BY <1>t, <2>2, FiniteParts, LimitsAssumption DEF SlotInv
  <2>4. QED BY <2>1, <2>3 DEF SlotInv
<1>5. ASSUME NEW j \in Jobs, WorkerStep(j) PROVE SlotInv'
  <2>1. UNCHANGED <<jobs, chat>> /\ LiveWorkers' \subseteq LiveWorkers
    BY <1>5 DEF WorkerStep, WorkerStart, WorkerStopped, WorkerSeesCancelled,
                WorkerIterates, WorkerActs, WorkerPlanEnds, WorkerClaims,
                WorkerGivesUp, WorkerTimeout, WorkerReads, WorkerMarks, Mark,
                Goto, notWorker, LiveWorkers, Alive, LoopPc, RunPc, TypeOK
  <2>2. QED BY <1>g, <2>1 DEF Stopping
<1>6. ASSUME NEW j \in Jobs, ChatCancel(j) PROVE SlotInv'
  <2>1. Stopping = {} /\ LiveWorkers' = LiveWorkers
    BY <1>6 DEF ChatCancel, Stopping, LiveWorkers, Alive
  <2>2. jobs' \cup Stopping' = jobs
    BY <1>6 DEF ChatCancel, Stopping
  <2>3. QED BY <2>1, <2>2 DEF SlotInv
<1>7. ASSUME NEW j \in Jobs, ChatHelp(j) PROVE SlotInv'
  BY <1>7, <1>g DEF ChatHelp, Stopping, LiveWorkers, Alive
<1>8. CASE StopEnds
  <2>1. PICK j \in Jobs : j = chat.job
    BY <1>8 DEF StopEnds, TypeOK
  <2>2. /\ Stopping = {j} /\ Stopping' = {}
        /\ jobs' = jobs
        /\ LiveWorkers' \subseteq LiveWorkers \ {j}
    BY <1>8, <2>1 DEF StopEnds, Stopping, notChat, LiveWorkers, Alive, EndPc, LoopPc,
                      RunPc, TypeOK
  <2>3. jobs \in SUBSET (jobs \cup Stopping)
    OBVIOUS
  <2>4. Cardinality(jobs) <= MaxParallelJobs
    BY <1>t, <2>3, FiniteParts, LimitsAssumption DEF SlotInv, TypeOK
  <2>5. QED BY <2>2, <2>4 DEF SlotInv
<1>9. CASE ChatPersist
  BY <1>9, <1>g DEF ChatPersist, Idle, Stopping, LiveWorkers, Alive
<1>10. CASE ChatReschedule
  BY <1>2, <1>10 DEF ChatReschedule, TypeOK
<1>11. CASE RepairScan \/ (\E f \in found : RepairJob(f)) \/ (\E w \in writes : WriteLands(w))
  <2>1. UNCHANGED <<worker, jobs, chat>>
    BY <1>11 DEF RepairScan, RepairJob, WriteLands
  <2>2. QED BY <1>g, <2>1 DEF LiveWorkers, Alive, Stopping
<1>12. CASE UNCHANGED vars
  BY <1>12, <1>g DEF vars, LiveWorkers, Alive, Stopping
<1>13. QED
  BY <1>1, <1>3, <1>4, <1>5, <1>6, <1>7, <1>8, <1>9, <1>10, <1>11, <1>12 DEF Next

(* Rows and pending writes follow the contexts: what ends a job is written  *)
(* after its transition and the transition is never undone.                 *)
LEMMA PersistStep ==
  ASSUME TypeOK, ControlInv, PersistInv, [Next]_vars
  PROVE  PersistInv'
<1>0. \A j \in Jobs : JobInv(j)
  BY DEF ControlInv
<1>s. \A j \in Jobs : state[j] \in {"Completed", "Failed"} => state'[j] = state[j]
  BY BoardStep, OutcomeStable
<1> USE DEF contextVars, schedVars, workerVars, dbVars
<1>g. ASSUME \A j \in Jobs : \A s \in {"Completed", "Failed"} :
               \/ db'[j] = s
               \/ [job |-> j, status |-> s] \in writes'
               => \/ db[j] = s \/ [job |-> j, status |-> s] \in writes
                  \/ state'[j] = s
      PROVE  PersistInv'
  BY <1>s, <1>g DEF PersistInv
<1>u. ASSUME UNCHANGED dbVars PROVE PersistInv'
  BY <1>g, <1>u
<1>1. ASSUME NEW j \in Jobs,
             CreateJob(j) \/ DispatchFails(j) \/ DispatchSchedule(j) \/ Cleanup(j)
               \/ ChatCancel(j) \/ ChatHelp(j) \/ CancelTool(j)
      PROVE  PersistInv'
  BY <1>1, <1>u DEF CreateJob, DispatchFails, DispatchSchedule, Schedule, Cleanup,
                    ChatCancel, ChatHelp, CancelTool
<1>2. ASSUME NEW j \in Jobs, SaveJob(j) PROVE PersistInv'
  BY <1>2, <1>g DEF SaveJob, TypeOK
<1>3. ASSUME NEW j \in Jobs, WebCancel(j) PROVE PersistInv'
  BY <1>3, <1>g DEF WebCancel, Spawned
<1>4. ASSUME NEW j \in Jobs, NEW s \in JobState, NEW a, NEW b,
             Mark(j, s, a, b), UNCHANGED db
      PROVE  PersistInv'
  BY <1>4, <1>g DEF Mark, Spawned, TypeOK
<1>5. ASSUME NEW j \in Jobs, WorkerStep(j) PROVE PersistInv'
  <2>1. CASE WorkerClaims(j) \/ WorkerGivesUp(j) \/ WorkerMarks(j)
    <3>1. /\ UNCHANGED db
          /\ \E s \in {"Completed", "Failed", "Stuck"} : \E a, b : Mark(j, s, a, b)
      BY <2>1 DEF WorkerClaims, WorkerGivesUp, WorkerMarks, notWorker
    <3>2. QED BY <1>4, <3>1 DEF JobState
  <2>2. CASE ~(WorkerClaims(j) \/ WorkerGivesUp(j) \/ WorkerMarks(j))
    <3>1. UNCHANGED dbVars
      BY <1>5, <2>2 DEF WorkerStep, WorkerStart, WorkerStopped, WorkerSeesCancelled,
                        WorkerIterates, WorkerActs, WorkerPlanEnds, WorkerTimeout,
                        WorkerReads, notWorker
    <3>2. QED BY <1>u, <3>1
  <2>3. QED BY <2>1, <2>2
<1>6. CASE StopEnds
  BY <1>6, <1>g DEF StopEnds, Spawned
<1>7. CASE ChatPersist
  BY <1>7, <1>g DEF ChatPersist, Updated, TypeOK
<1>8. CASE ChatReschedule \/ RepairScan \/ \E f \in found : RepairJob(f)
  BY <1>8, <1>u DEF ChatReschedule, Schedule, RepairScan, RepairJob
<1>9. ASSUME NEW w \in writes, WriteLands(w) PROVE PersistInv'
  <2>1. w = [job |-> w.job, status |-> w.status]
    BY DEF TypeOK, Write
  <2>2. QED BY <1>9, <1>g, <2>1 DEF WriteLands, Updated, TypeOK
<1>10. CASE UNCHANGED vars
  BY <1>10, <1>u DEF vars
<1>11. QED
  BY <1>1, <1>2, <1>3, <1>5, <1>6, <1>7, <1>8, <1>9, <1>10 DEF Next

-----------------------------------------------------------------------------
(* Theorems *)

LEMMA Initial == Init => IInv
<1> SUFFICES ASSUME Init PROVE IInv
  OBVIOUS
<1>1. TypeOK
  BY LimitsAssumption DEF Init, TypeOK, DispatchPc, WorkerPc, Idle, ChatOps
<1>2. ControlInv
  BY DEF Init, ControlInv, JobInv, StateFits, Alive, Idle, LoopPc, EndPc
<1>3. jobs \cup Stopping = {} /\ LiveWorkers = {} /\ ActiveJobs = {}
  BY DEF Init, Stopping, Idle, LiveWorkers, Alive, LoopPc, RunPc, ActiveJobs,
         IsActive, JobState
<1>4. SlotInv /\ CapacityBound
  BY <1>3, FS_EmptySet, LimitsAssumption DEF SlotInv, CapacityBound
<1>5. PersistInv
  BY DEF Init, PersistInv
<1>6. QED
  BY <1>1, <1>2, <1>4, <1>5 DEF IInv

LEMMA Inductive == IInv /\ [Next]_vars => IInv'
  BY TypeStep, ControlStep, BoardStep, SlotStep, CapacityStep, PersistStep DEF IInv

(* The inductive invariant holds in every reachable state. *)
THEOREM Invariance == Spec => []IInv
  BY Initial, Inductive, PTL DEF Spec

(* However many dispatches, recoveries and reschedules race, the number of  *)
(* active contexts stays within max_parallel_jobs.                          *)
THEOREM CapacityHolds == Spec => []CapacityBound
<1>1. IInv => CapacityBound
  BY DEF IInv
<1>2. QED BY <1>1, Invariance, PTL

(* Never more worker tasks than max_parallel_jobs, stop() included. *)
THEOREM WorkersHold == Spec => []WorkersBounded
<1>1. IInv => WorkersBounded
  <2> SUFFICES ASSUME IInv PROVE WorkersBounded
    OBVIOUS
  <2>1. jobs \cup Stopping \in SUBSET Jobs /\ LiveWorkers \in SUBSET (jobs \cup Stopping)
    BY DEF IInv, SlotInv, Stopping, TypeOK, LiveWorkers
  <2>2. Cardinality(LiveWorkers) <= Cardinality(jobs \cup Stopping)
    BY <2>1, FiniteParts
  <2>3. LiveWorkers \in SUBSET Jobs
    BY DEF LiveWorkers
  <2>4. QED
    BY <2>1, <2>2, <2>3, FiniteParts, LimitsAssumption DEF IInv, SlotInv, WorkersBounded
<1>2. QED BY <1>1, Invariance, PTL

(* The job of a worker task that is gone is not in progress any more,       *)
(* unless it was recovered.                                                 *)
THEOREM WorkedOnHolds == Spec => []InProgressIsWorkedOn
<1>1. IInv => InProgressIsWorkedOn
  BY DEF IInv, ControlInv, JobInv, InProgressIsWorkedOn
<1>2. QED BY <1>1, Invariance, PTL

(* A job is recovered at most once: the repair limit is never reached. *)
THEOREM RecoveryHolds == Spec => []RecoveredAtMostOnce
<1>1. IInv => RecoveredAtMostOnce
  BY DEF IInv, ControlInv, JobInv, RecoveredAtMostOnce
<1>2. QED BY <1>1, Invariance, PTL

(* A row that says completed or failed tells the truth. *)
THEOREM PersistenceHolds == Spec => []PersistedOutcomeIsReal
<1>1. IInv => PersistedOutcomeIsReal
  BY DEF IInv, PersistInv, PersistedOutcomeIsReal
<1>2. QED BY <1>1, Invariance, PTL

(* A worker task that has ended is never replaced by another. *)
THEOREM SingleWorker == Spec => NoSecondWorker
<1>1. ASSUME IInv, [Next]_vars
      PROVE  [\A j \in Jobs : worker[j] \in EndPc => worker'[j] \in EndPc]_vars
  <2>0. TypeOK /\ ControlInv /\ \A j \in Jobs : JobInv(j)
    BY <1>1 DEF IInv, ControlInv
  <2> DEFINE P == \A j \in Jobs : worker[j] \in EndPc => worker'[j] \in EndPc
  <2>u. ASSUME UNCHANGED worker PROVE P
    BY <2>u
  <2>1. ASSUME NEW j \in Jobs, WorkerStep(j) PROVE P
    BY <2>0, <2>1 DEF WorkerStep, WorkerStart, WorkerStopped, WorkerSeesCancelled,
                WorkerIterates, WorkerActs, WorkerPlanEnds, WorkerClaims,
                WorkerGivesUp, WorkerTimeout, WorkerReads, WorkerMarks, Mark,
                Goto, LoopPc, EndPc, TypeOK
  <2>2. ASSUME NEW j \in Jobs, DispatchSchedule(j) PROVE P
    BY <2>0, <2>2 DEF DispatchSchedule, Schedule, JobInv, EndPc, TypeOK
  <2>3. CASE ChatReschedule
    <3>1. chat.job \in Jobs /\ Schedule(chat.job)
      BY <2>0, <2>3 DEF ChatReschedule, TypeOK
    <3>2. state[chat.job] # "Stuck" /\ worker[chat.job] # "none"
      BY <2>0, <2>3, <3>1 DEF ChatReschedule, ControlInv, JobInv, EndPc
    <3>3. ~CanSchedule(chat.job)
      BY <2>0, <3>1, <3>2, ScheduleStarts
    <3>4. QED BY <3>1, <3>3 DEF Schedule
  <2>4. CASE StopEnds
    BY <2>0, <2>4 DEF StopEnds, EndPc, TypeOK
  <2>5. ASSUME NEW j \in Jobs,
               CreateJob(j) \/ SaveJob(j) \/ DispatchFails(j) \/ Cleanup(j)
                 \/ ChatCancel(j) \/ ChatHelp(j) \/ CancelTool(j) \/ WebCancel(j)
        PROVE  P
    BY <2>5 DEF CreateJob, SaveJob, DispatchFails, Cleanup, ChatCancel, ChatHelp,
                CancelTool, WebCancel, workerVars
  <2>6. CASE ChatPersist \/ RepairScan \/ (\E f \in found : RepairJob(f))
               \/ (\E w \in writes : WriteLands(w)) \/ UNCHANGED vars
    BY <2>6 DEF ChatPersist, RepairScan, RepairJob, WriteLands, vars, workerVars
  <2>7. QED
    BY <1>1, <2>1, <2>2, <2>3, <2>4, <2>5, <2>6 DEF Next
<1>2. QED
  BY <1>1, Invariance, PTL DEF Spec, NoSecondWorker

(* JobLifecycle implements JobBoard. *)
THEOREM Refinement == Spec => BoardSpec
<1>1. Init => Board!Init
  BY DEF Init, Board!Init
<1>2. IInv /\ [Next]_vars => [Board!Next]_(Board!vars)
  BY BoardStep DEF IInv
<1>3. QED
  BY <1>1, <1>2, Invariance, PTL DEF Spec, BoardSpec, Board!Spec
=============================================================================
