---------------------------- MODULE JobLifecycle ----------------------------
(***************************************************************************)
(* Agent jobs: the ContextManager that holds their state, the Scheduler    *)
(* that runs one worker task per job, the Worker, the self-repair loop,    *)
(* the chat commands /cancel and /help, the cancel_job tool, the web       *)
(* cancel handler, and the rows of agent_jobs in the database.             *)
(*                                                                         *)
(* A step is what one task does between two await points at which another  *)
(* task can interfere.  An identifier is a fresh UUID: it is dispatched at *)
(* most once.                                                              *)
(***************************************************************************)
EXTENDS Naturals, FiniteSets, JobStates

CONSTANTS
  Jobs,               (* identifiers a dispatch can draw                     *)
  NoJob,              (* not an identifier                                   *)
  MaxParallelJobs,    (* config.max_parallel_jobs, used twice (see README)   *)
  MaxRepairAttempts,  (* config.max_repair_attempts                          *)
  MaxIterations,      (* max_iterations of the direct tool-selection loop    *)
  UsePlanning,        (* config.use_planning                                 *)
  HasStore            (* a database is configured (store: Option)            *)

ASSUME JobsAssumption     == IsFiniteSet(Jobs) /\ NoJob \notin Jobs
ASSUME LimitsAssumption   == /\ MaxParallelJobs \in Nat
                             /\ MaxRepairAttempts \in Nat
                             /\ MaxIterations \in Nat
ASSUME OptionsAssumption  == UsePlanning \in BOOLEAN /\ HasStore \in BOOLEAN

VARIABLES
  state,      (* ContextManager.contexts[j].state, or "Absent"               *)
  repairs,    (* ContextManager.contexts[j].repair_attempts                  *)
  dispatch,   (* how far Scheduler::dispatch_job(j) has come                 *)
  jobs,       (* keys of Scheduler.jobs                                      *)
  stopSent,   (* jobs with WorkerMessage::Stop in their channel              *)
  worker,     (* control point of the worker task                            *)
  iteration,  (* iteration counter of execution_loop                         *)
  chat,       (* the command the agent's serial message loop is executing    *)
  found,      (* stuck jobs the repair pass has yet to visit                 *)
  db,         (* agent_jobs.status, or "Absent"                              *)
  writes,     (* update_job_status calls spawned and not yet executed        *)
  halted      (* history: workers that returned because of a Stop message    *)

contextVars == <<state, repairs>>
schedVars   == <<dispatch, jobs, stopSent>>
workerVars  == <<worker, iteration>>
dbVars      == <<db, writes>>
vars == <<contextVars, schedVars, workerVars, chat, found, dbVars, halted>>

-----------------------------------------------------------------------------
(* Control points *)

DispatchPc == {"none", "created", "saved", "done"}

(* Inside execution_loop, where the job timeout can strike ... *)
LoopPc == {"start", "loop", "act", "plan", "claims", "givesUp"}
(* ... after it, in Worker::run ... *)
RunPc  == {"post", "finish", "failing", "timedOut"}
(* ... and when the task has ended: run returned Ok or Err, or was aborted. *)
EndPc  == {"ok", "err", "aborted"}

WorkerPc == {"none"} \cup LoopPc \cup RunPc \cup EndPc

Alive(j)     == worker[j] \in LoopPc \cup RunPc
LiveWorkers  == {j \in Jobs : Alive(j)}
ActiveJobs   == {j \in Jobs : IsActive(state[j])}
StuckJobs    == {j \in Jobs : state[j] = "Stuck"}

(* Mutant: stop() gives the lock back while it waits for the worker. *)
StopReleasesLock == TRUE

(* Scheduler::stop holds the write lock on Scheduler.jobs from its first    *)
(* line to its last, the 100 ms it gives the worker included.               *)
JobsLockFree == chat.op # "stopping"

Idle      == [op |-> "idle", job |-> NoJob]
ChatOps   == {"idle", "stopping", "persist", "reschedule"}
Write     == [job : Jobs, status : JobState]

(* An update_job_status spawned without awaiting it, if there is a store. *)
Spawned(j, status) == IF HasStore THEN {[job |-> j, status |-> status]} ELSE {}

(* The UPDATE of an existing row. *)
Updated(j, status) == [db EXCEPT ![j] = IF @ = "Absent" THEN @ ELSE status]

Init ==
  /\ state = [j \in Jobs |-> "Absent"]
  /\ repairs = [j \in Jobs |-> 0]
  /\ dispatch = [j \in Jobs |-> "none"]
  /\ jobs = {}
  /\ stopSent = {}
  /\ worker = [j \in Jobs |-> "none"]
  /\ iteration = [j \in Jobs |-> 0]
  /\ chat = Idle
  /\ found = {}
  /\ db = [j \in Jobs |-> "Absent"]
  /\ writes = {}
  /\ halted = {}

-----------------------------------------------------------------------------
(* Scheduler::dispatch_job.  Several can be in flight: the message loop,    *)
(* routines and the create_job tool of running workers all call it.         *)

(* ContextManager::create_job_for_user, under the contexts write lock. *)
CreateJob(j) ==
  /\ dispatch[j] = "none"
  /\ Cardinality(ActiveJobs) < MaxParallelJobs
  /\ state' = [state EXCEPT ![j] = "Pending"]
  /\ dispatch' = [dispatch EXCEPT ![j] = "created"]
  /\ UNCHANGED <<repairs, jobs, stopSent, workerVars, chat, found, dbVars,
                 halted>>

(* get_context and save_job, if there is a store.  The context may have been *)
(* cancelled between the two: then the row still says pending.              *)
SaveJob(j) ==
  /\ dispatch[j] = "created"
  /\ \E status \in {"Pending", state[j]} :
       db' = IF HasStore THEN [db EXCEPT ![j] = status] ELSE db
  /\ dispatch' = [dispatch EXCEPT ![j] = "saved"]
  /\ UNCHANGED <<contextVars, jobs, stopSent, workerVars, chat, found, writes,
                 halted>>

(* save_job fails and `?` returns, or the task that dispatches is itself    *)
(* aborted or timed out: the context stays as it is.                        *)
DispatchFails(j) ==
  /\ dispatch[j] \in {"created", "saved"}
  /\ dispatch' = [dispatch EXCEPT ![j] = "done"]
  /\ UNCHANGED <<contextVars, jobs, stopSent, workerVars, chat, found, dbVars,
                 halted>>

(* Mutant: schedule() does not consult the state machine. *)
CanScheduleAnyState(j) == j \notin jobs /\ Cardinality(jobs) < MaxParallelJobs

CanSchedule(j) ==
  /\ j \notin jobs
  /\ Cardinality(jobs) < MaxParallelJobs
  /\ CanTransition(state[j], "InProgress")

(* Scheduler::schedule: the job starts, or an early return changes nothing. *)
Schedule(j) ==
  /\ JobsLockFree
  /\ \/ /\ CanSchedule(j)
        /\ state' = [state EXCEPT ![j] = "InProgress"]
        /\ jobs' = jobs \cup {j}
        /\ worker' = [worker EXCEPT ![j] = "start"]
     \/ /\ ~CanSchedule(j)
        /\ UNCHANGED <<state, jobs, worker>>
  /\ UNCHANGED <<repairs, stopSent, iteration, found, dbVars, halted>>

DispatchSchedule(j) ==
  /\ dispatch[j] = "saved"
  /\ dispatch' = [dispatch EXCEPT ![j] = "done"]
  /\ Schedule(j)
  /\ UNCHANGED chat

(* Mutant: only a worker that returned Ok gives its slot back. *)
CleanupSuccessOnly(j) ==
  /\ JobsLockFree
  /\ j \in jobs
  /\ worker[j] = "ok"
  /\ jobs' = jobs \ {j}
  /\ UNCHANGED <<contextVars, dispatch, stopSent, workerVars, chat, found,
                 dbVars, halted>>

(* The per-job cleanup task schedule() spawns, and cleanup_finished. *)
Cleanup(j) ==
  /\ JobsLockFree
  /\ j \in jobs
  /\ worker[j] \in EndPc
  /\ jobs' = jobs \ {j}
  /\ UNCHANGED <<contextVars, dispatch, stopSent, workerVars, chat, found,
                 dbVars, halted>>

-----------------------------------------------------------------------------
(* Worker *)

Goto(j, pc) == worker' = [worker EXCEPT ![j] = pc]

(* Mutant: the row is written whether or not the transition is accepted. *)
MarkPersistsFirst(j, status, ifOk, ifErr) ==
  /\ writes' = writes \cup Spawned(j, status)
  /\ \/ /\ CanTransition(state[j], status)
        /\ state' = [state EXCEPT ![j] = status]
        /\ Goto(j, ifOk)
     \/ /\ ~CanTransition(state[j], status)
        /\ Goto(j, ifErr)
        /\ UNCHANGED state

(* mark_completed, mark_failed, mark_stuck: the transition under the        *)
(* contexts lock and the fire-and-forget write behind it, or the error.     *)
Mark(j, status, ifOk, ifErr) ==
  \/ /\ CanTransition(state[j], status)
     /\ state' = [state EXCEPT ![j] = status]
     /\ writes' = writes \cup Spawned(j, status)
     /\ Goto(j, ifOk)
  \/ /\ ~CanTransition(state[j], status)
     /\ Goto(j, ifErr)
     /\ UNCHANGED <<state, writes>>

notWorker == <<repairs, schedVars, chat, found, db>>

(* Planning, when it is on and the LLM returns a plan; else the loop. *)
WorkerStart(j) ==
  /\ worker[j] = "start"
  /\ Goto(j, "loop") \/ (UsePlanning /\ Goto(j, "plan"))
  /\ UNCHANGED <<state, iteration, writes, halted, notWorker>>

(* try_recv sees Stop, at the head of an iteration or of a planned action. *)
WorkerStopped(j) ==
  /\ worker[j] \in {"loop", "plan"}
  /\ j \in stopSent
  /\ Goto(j, "post")
  /\ halted' = halted \cup {j}
  /\ UNCHANGED <<state, iteration, writes, notWorker>>

WorkerSeesCancelled(j) ==
  /\ worker[j] = "loop"
  /\ j \notin stopSent
  /\ state[j] = "Cancelled"
  /\ Goto(j, "post")
  /\ UNCHANGED <<state, iteration, writes, halted, notWorker>>

(* The head of an iteration: the loop goes on or has run out of iterations. *)
WorkerIterates(j) ==
  /\ worker[j] = "loop"
  /\ j \notin stopSent
  /\ state[j] # "Cancelled"
  /\ \/ /\ iteration[j] < MaxIterations
        /\ iteration' = [iteration EXCEPT ![j] = @ + 1]
        /\ Goto(j, "act")
     \/ /\ iteration[j] >= MaxIterations
        /\ Goto(j, "givesUp")
        /\ UNCHANGED iteration
  /\ UNCHANGED <<state, writes, halted, notWorker>>

(* The LLM answers: tools ran, it claims completion, or the call failed. *)
WorkerActs(j) ==
  /\ worker[j] = "act"
  /\ \E pc \in {"loop", "claims", "failing"} : Goto(j, pc)
  /\ UNCHANGED <<state, iteration, writes, halted, notWorker>>

(* The last planned action ran and the LLM was asked whether it is done. *)
WorkerPlanEnds(j) ==
  /\ worker[j] = "plan"
  /\ \E pc \in {"claims", "givesUp", "failing"} : Goto(j, pc)
  /\ UNCHANGED <<state, iteration, writes, halted, notWorker>>

WorkerClaims(j) ==
  /\ worker[j] = "claims"
  /\ Mark(j, "Completed", "post", "failing")
  /\ UNCHANGED <<iteration, halted, notWorker>>

WorkerGivesUp(j) ==
  /\ worker[j] = "givesUp"
  /\ Mark(j, "Stuck", "post", "failing")
  /\ UNCHANGED <<iteration, halted, notWorker>>

(* tokio::time::timeout drops execution_loop at an await point. *)
WorkerTimeout(j) ==
  /\ worker[j] \in LoopPc
  /\ Goto(j, "timedOut")
  /\ UNCHANGED <<state, iteration, writes, halted, notWorker>>

(* execution_loop returned Ok: run reads the state, later acts on it. *)
WorkerReads(j) ==
  /\ worker[j] = "post"
  /\ \/ state[j] \in Terminal \cup {"Stuck"} /\ Goto(j, "ok")
     \/ state[j] \notin Terminal \cup {"Stuck"} /\ Goto(j, "finish")
  /\ UNCHANGED <<state, iteration, writes, halted, notWorker>>

(* Mutant: a worker that timed out ends without marking its job. *)
WorkerMarksNoTimeout(j) ==
  /\ \/ worker[j] = "finish"   /\ Mark(j, "Completed", "ok", "err")
     \/ worker[j] = "failing"  /\ Mark(j, "Failed", "ok", "err")
     \/ worker[j] = "timedOut" /\ Goto(j, "err") /\ UNCHANGED <<state, writes>>
  /\ UNCHANGED <<iteration, halted, notWorker>>

(* The three marks of Worker::run itself. *)
WorkerMarks(j) ==
  /\ \/ worker[j] = "finish"   /\ Mark(j, "Completed", "ok", "err")
     \/ worker[j] = "failing"  /\ Mark(j, "Failed", "ok", "err")
     \/ worker[j] = "timedOut" /\ Mark(j, "Stuck", "ok", "err")
  /\ UNCHANGED <<iteration, halted, notWorker>>

WorkerStep(j) ==
  \/ WorkerStart(j) \/ WorkerStopped(j) \/ WorkerSeesCancelled(j)
  \/ WorkerIterates(j) \/ WorkerActs(j) \/ WorkerPlanEnds(j)
  \/ WorkerClaims(j) \/ WorkerGivesUp(j) \/ WorkerTimeout(j)
  \/ WorkerReads(j) \/ WorkerMarks(j)

-----------------------------------------------------------------------------
(* The message loop: one command at a time. *)

notChat == <<dispatch, iteration, found, halted>>

(* handle_cancel_job up to the point where Scheduler::stop sleeps; a job     *)
(* without an entry in Scheduler.jobs makes stop() return at once.          *)
ChatCancel(j) ==
  /\ chat.op = "idle"
  /\ state[j] # "Absent"
  /\ \/ /\ j \in jobs
        /\ jobs' = jobs \ {j}
        /\ stopSent' = IF Alive(j) THEN stopSent \cup {j} ELSE stopSent
        /\ chat' = [op |-> "stopping", job |-> j]
     \/ /\ j \notin jobs
        /\ chat' = [op |-> "persist", job |-> j]
        /\ UNCHANGED <<jobs, stopSent>>
  /\ UNCHANGED <<contextVars, worker, dbVars, notChat>>

(* Mutant: a worker that has not stopped within 100 ms is left running. *)
StopWithoutAbort ==
  LET j == chat.job IN
  /\ chat.op = "stopping"
  /\ state' = [state EXCEPT ![j] =
                 IF CanTransition(@, "Cancelled") THEN "Cancelled" ELSE @]
  /\ writes' = writes \cup Spawned(j, "Cancelled")
  /\ chat' = [op |-> "persist", job |-> j]
  /\ UNCHANGED <<repairs, jobs, stopSent, worker, db, notChat>>

(* The rest of Scheduler::stop: abort what still runs, cancel the context   *)
(* (a refusal is only logged), spawn the write, release the lock.           *)
StopEnds ==
  LET j == chat.job IN
  /\ chat.op = "stopping"
  /\ worker' = [worker EXCEPT ![j] = IF @ \in EndPc THEN @ ELSE "aborted"]
  /\ state' = [state EXCEPT ![j] =
                 IF CanTransition(@, "Cancelled") THEN "Cancelled" ELSE @]
  /\ writes' = writes \cup Spawned(j, "Cancelled")
  /\ chat' = [op |-> "persist", job |-> j]
  /\ UNCHANGED <<repairs, jobs, stopSent, db, notChat>>

(* The awaited write of handle_cancel_job (its failure is only logged) and  *)
(* the reply "Job ... has been cancelled."                                  *)
ChatPersist ==
  LET j == chat.job IN
  /\ chat.op = "persist"
  /\ \/ HasStore /\ db' = Updated(j, "Cancelled")
     \/ UNCHANGED db
  /\ chat' = Idle
  /\ UNCHANGED <<contextVars, jobs, stopSent, worker, writes, notChat>>

(* attempt_recovery *)
Recover(j) ==
  /\ state[j] = "Stuck"
  /\ state' = [state EXCEPT ![j] = "InProgress"]
  /\ repairs' = [repairs EXCEPT ![j] = @ + 1]

(* handle_help_job: recover, then reschedule. *)
ChatHelp(j) ==
  /\ chat.op = "idle"
  /\ Recover(j)
  /\ chat' = [op |-> "reschedule", job |-> j]
  /\ UNCHANGED <<schedVars, workerVars, found, dbVars, halted>>

ChatReschedule ==
  /\ chat.op = "reschedule"
  /\ Schedule(chat.job)
  /\ chat' = Idle
  /\ UNCHANGED dispatch

-----------------------------------------------------------------------------
(* Self-repair *)

(* detect_stuck_jobs: a snapshot of the stuck jobs and their attempts. *)
RepairScan ==
  /\ found = {}
  /\ StuckJobs # {}
  /\ found' = {[job |-> j, attempts |-> repairs[j]] : j \in StuckJobs}
  /\ UNCHANGED <<contextVars, schedVars, workerVars, chat, dbVars, halted>>

(* Mutant: the attempt being made is counted against the limit. *)
RepairJobOneTooFew(f) ==
  /\ f \in found
  /\ found' = found \ {f}
  /\ \/ f.attempts + 1 < MaxRepairAttempts /\ Recover(f.job)
     \/ /\ f.attempts + 1 >= MaxRepairAttempts \/ state[f.job] # "Stuck"
        /\ UNCHANGED contextVars
  /\ UNCHANGED <<schedVars, workerVars, chat, dbVars, halted>>

(* repair_stuck_job: manual repair needed, recovered, or not stuck any more. *)
RepairJob(f) ==
  /\ f \in found
  /\ found' = found \ {f}
  /\ \/ f.attempts < MaxRepairAttempts /\ Recover(f.job)
     \/ /\ f.attempts >= MaxRepairAttempts \/ state[f.job] # "Stuck"
        /\ UNCHANGED contextVars
  /\ UNCHANGED <<schedVars, workerVars, chat, dbVars, halted>>

-----------------------------------------------------------------------------
(* Cancellation from elsewhere, and the database *)

(* CancelJobTool::execute: the context and nothing else. *)
CancelTool(j) ==
  /\ CanTransition(state[j], "Cancelled")
  /\ state' = [state EXCEPT ![j] = "Cancelled"]
  /\ UNCHANGED <<repairs, schedVars, workerVars, chat, found, dbVars,
                 halted>>

(* jobs_cancel_handler on an agent job: the row and nothing else.  The      *)
(* UPDATE follows the SELECT that found the row active.                     *)
WebCancel(j) ==
  /\ IsActive(db[j])
  /\ writes' = writes \cup Spawned(j, "Cancelled")
  /\ UNCHANGED <<contextVars, schedVars, workerVars, chat, found, db,
                 halted>>

(* A spawned update_job_status runs, in no particular order, or fails. *)
WriteLands(w) ==
  /\ w \in writes
  /\ writes' = writes \ {w}
  /\ \/ db' = Updated(w.job, w.status)
     \/ UNCHANGED db
  /\ UNCHANGED <<contextVars, schedVars, workerVars, chat, found, halted>>

-----------------------------------------------------------------------------
Next ==
  \/ \E j \in Jobs :
       \/ CreateJob(j) \/ SaveJob(j) \/ DispatchFails(j) \/ DispatchSchedule(j)
       \/ Cleanup(j)   \/ WorkerStep(j)
       \/ ChatCancel(j) \/ ChatHelp(j)
       \/ CancelTool(j) \/ WebCancel(j)
  \/ StopEnds \/ ChatPersist \/ ChatReschedule
  \/ RepairScan
  \/ \E f \in found : RepairJob(f)
  \/ \E w \in writes : WriteLands(w)

(* Every spawned task makes progress: the LLM and tool calls of a worker    *)
(* are cut by job_timeout, the cleanup and repair loops wake up forever,    *)
(* and the message loop finishes the command it has begun.  Nobody has to   *)
(* give a command.                                                          *)
Fairness ==
  /\ \A j \in Jobs : WF_vars(WorkerStep(j)) /\ WF_vars(Cleanup(j))
  /\ WF_vars(StopEnds) /\ WF_vars(ChatPersist) /\ WF_vars(ChatReschedule)
  /\ WF_vars(RepairScan) /\ WF_vars(\E f \in found : RepairJob(f))
  /\ WF_vars(\E w \in writes : WriteLands(w))

Spec == Init /\ [][Next]_vars
FairSpec == Spec /\ Fairness

-----------------------------------------------------------------------------
TypeOK ==
  /\ state \in [Jobs -> JobState \cup {"Absent"}]
  /\ repairs \in [Jobs -> Nat]
  /\ dispatch \in [Jobs -> DispatchPc]
  /\ jobs \in SUBSET Jobs
  /\ stopSent \in SUBSET Jobs
  /\ worker \in [Jobs -> WorkerPc]
  /\ iteration \in [Jobs -> 0..MaxIterations]
  /\ chat \in [op : ChatOps, job : Jobs \cup {NoJob}]
  /\ chat.op # "idle" => chat.job \in Jobs
  /\ found \in SUBSET [job : Jobs, attempts : Nat]
  /\ db \in [Jobs -> JobState \cup {"Absent"}]
  /\ writes \in SUBSET Write
  /\ halted \in SUBSET Jobs

(* create_job_for_user counts and inserts under one lock so that two        *)
(* dispatches cannot both take the last place; no later step (a recovery, a *)
(* reschedule) brings the number of active jobs above the limit either.     *)
CapacityBound == Cardinality(ActiveJobs) <= MaxParallelJobs

(* However stop, schedule and cleanup interleave, there are never more      *)
(* worker tasks running than max_parallel_jobs: stop gives up the entry     *)
(* first but holds the lock until the task is aborted.                      *)
WorkersBounded == Cardinality(LiveWorkers) <= MaxParallelJobs

(* attempt_recovery happens at most once per job: a recovered job has no    *)
(* worker that could mark it stuck again (so that repair_stuck_job never    *)
(* reports ManualRequired unless max_repair_attempts is 0).                 *)
RecoveredAtMostOnce == \A j \in Jobs : repairs[j] <= 1

(* A job is not left in progress by its worker: whatever ends the task (the *)
(* loop's return, an error, the timeout, a Stop it obeys, an abort) and     *)
(* whoever changes the context meanwhile, the job of a worker that is gone  *)
(* has left InProgress, unless it was recovered since.                      *)
InProgressIsWorkedOn ==
  \A j \in Jobs : state[j] = "InProgress" => Alive(j) \/ repairs[j] > 0

(* What workers persist is true: a row that says completed or failed is the *)
(* row of a job whose context says so, and it stays so although the table   *)
(* allows Completed -> Failed.                                              *)
PersistedOutcomeIsReal ==
  \A j \in Jobs : \A s \in {"Completed", "Failed"} :
    db[j] = s => state[j] = s

(* The lives a job can have are those of JobBoard: the workers, the repair  *)
(* loop and the commands together never take a job out of a final state,    *)
(* never start it twice and never recover it twice.                         *)
Board == INSTANCE JobBoard WITH phase <- state,
                                recovered <- {j \in Jobs : repairs[j] > 0},
                                Limit <- MaxParallelJobs
BoardSpec == Board!Spec

(* No job is executed twice, whatever combination of recovery, /help and    *)
(* dispatch asks for it: a worker task that has ended is never replaced.    *)
NoSecondWorker == [][\A j \in Jobs : worker[j] \in EndPc => worker'[j] \in EndPc]_vars

(* Scheduler.jobs never keeps the entry of a job forever: the slot is given *)
(* back by the cleanup task or by stop.                                     *)
SlotIsFreed == \A j \in Jobs : j \in jobs ~> j \notin jobs

(* A stuck job is noticed by the repair pass (when it may repair at all).   *)
StuckIsAnswered ==
  \A j \in Jobs : state[j] = "Stuck" ~> state[j] # "Stuck"

-----------------------------------------------------------------------------
(* The inductive invariant behind the safety properties. *)

(* Where a job can be while its worker is at a given point. *)
StateFits(j) ==
  /\ worker[j] = "none" => state[j] \in {"Absent", "Pending", "Cancelled"}
  /\ worker[j] \in LoopPc \cup {"failing", "timedOut"} =>
       state[j] \in {"InProgress", "Cancelled"}
  /\ worker[j] = "post" =>
       state[j] \in {"InProgress", "Completed", "Stuck", "Cancelled"}
  /\ worker[j] = "finish" => state[j] \in {"InProgress", "Completed", "Cancelled"}
  /\ worker[j] \in EndPc =>
       state[j] \in {"InProgress", "Completed", "Failed", "Stuck", "Cancelled"}

(* Only a job whose worker is past execution_loop can have been recovered,  *)
(* so it never gets stuck again and schedule() has nothing to start.        *)
JobInv(j) ==
  /\ StateFits(j)
  /\ dispatch[j] = "none" <=> state[j] = "Absent"
  /\ dispatch[j] # "done" => worker[j] = "none"
  /\ j \in jobs => worker[j] # "none"
  /\ state[j] = "InProgress" => Alive(j) \/ repairs[j] = 1
  /\ repairs[j] <= 1
  /\ repairs[j] = 1 => /\ worker[j] \in {"post", "finish"} \cup EndPc
                       /\ state[j] # "Stuck"

ControlInv ==
  /\ \A j \in Jobs : JobInv(j)
  /\ chat.op = "reschedule" => repairs[chat.job] = 1
  /\ chat.op = "stopping" => worker[chat.job] # "none"

(* The entry stop() has taken out of Scheduler.jobs, its task still alive. *)
Stopping == IF chat.op = "stopping" THEN {chat.job} ELSE {}

SlotInv ==
  /\ LiveWorkers \subseteq jobs \cup Stopping
  /\ Cardinality(jobs \cup Stopping) <= MaxParallelJobs

PersistInv ==
  \A j \in Jobs : \A s \in {"Completed", "Failed"} :
    db[j] = s \/ [job |-> j, status |-> s] \in writes => state[j] = s

IInv == TypeOK /\ ControlInv /\ SlotInv /\ CapacityBound /\ PersistInv

-----------------------------------------------------------------------------
(* What comments and replies of the code say and the code does not do.      *)

(* "Job ... recovered and will be retried" (self_repair.rs): a          *)
(* recovered job does not stay in progress for good.                        *)
RecoveredJobIsRetried ==
  \A j \in Jobs : (repairs[j] > 0 /\ state[j] = "InProgress")
                    ~> state[j] # "InProgress"

(* "Job ... has been cancelled." (commands.rs): a worker that obeyed the    *)
(* Stop message of a cancellation has not completed its job.                *)
StoppedIsNotCompleted == \A j \in halted : state[j] # "Completed"
=============================================================================
