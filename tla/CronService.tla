---------------------------- MODULE CronService ----------------------------
(***************************************************************************)
(* The cron service of the gateway (src/cron/service: timer.ts, ops.ts,    *)
(* jobs.ts, locked.ts, store.ts, and schedule.ts): one service and its     *)
(* store file.                                                             *)
(*                                                                         *)
(* Every operation reads and writes the store inside locked(), a chain of  *)
(* promises: a block of it is one action here, and a manual run, which     *)
(* executes its job inside the block, holds the lock between two actions.  *)
(* Outside the lock are the jobs a tick or the start-up catch-up has       *)
(* claimed: their runs, and the timer.  The running marker of a job        *)
(* (state.runningAtMs) is what keeps the others away from it.              *)
(***************************************************************************)
EXTENDS Integers, Sequences, FiniteSets, TLC, Functions

CONSTANTS
    Ids,            \* job ids; an id is never used twice
    NoJob,          \* not an id
    Drafts,         \* [kind, t, keep]: what add is called with
    Patches,        \* what update is called with
    Outcomes,       \* how runs may end: a subset of ok, error, skipped
    Initial,        \* the jobs in the file at first
    Period,         \* of every "every" and "cron" schedule
    Backoff,        \* ERROR_BACKOFF_SCHEDULE_MS
    RefireGap,      \* MIN_REFIRE_GAP_MS
    StuckAfter,     \* STUCK_RUN_MS
    MaxScheduleErrors,  \* MAX_SCHEDULE_ERRORS
    Concurrency,    \* cronConfig.maxConcurrentRuns
    MaxTime, MaxOps, MaxCrashes   \* bounds

NoTime == 0

Kinds  == {"at", "every", "cron", "broken"}
Status == {"none", "ok", "error", "skipped"}
Job == [kind : Kinds, t : Nat, keep : BOOLEAN, enabled : BOOLEAN, next : Nat,
        mark : Nat, status : Status, errs : 0 .. Len(Backoff), bad : Nat]
IsStore(s) == DOMAIN s \subseteq Ids /\ s \in [DOMAIN s -> Job]

ASSUME NoJobAssumption == NoJob \notin Ids
ASSUME InitialAssumption == IsStore(Initial)
ASSUME ScheduleAssumption ==
    /\ Period \in Nat \ {0} /\ RefireGap \in Nat /\ StuckAfter \in Nat
    /\ Backoff \in Seq(Nat) /\ Len(Backoff) > 0
    /\ MaxScheduleErrors \in Nat \ {0} /\ Concurrency \in Nat \ {0}
ASSUME OutcomesAssumption == Outcomes \subseteq Status \ {"none"}
ASSUME DraftsAssumption == Drafts \subseteq [kind : Kinds, t : Nat, keep : BOOLEAN]
ASSUME PatchesAssumption ==
    Patches \subseteq [what : {"on", "off", "name"}]
                        \union [what : {"schedule"}, kind : Kinds, t : Nat]
ASSUME BoundsAssumption == MaxTime \in Nat \ {0} /\ MaxOps \in Nat /\ MaxCrashes \in Nat

VARIABLES
    now,        \* deps.nowMs()
    mem,        \* state.store: jobs by id
    file,       \* the store file
    armed,      \* state.timer is set; it fires within a minute
    tick,       \* onTimer: "idle", or the step of it that is next
    boot,       \* start: "off", the step of it that is next, or "up"
    interrupted, \* startupInterruptedJobIds
    batch,      \* batch[a]: the jobs claimed by a tick or by start, with how
                \* far their runs are, or how and when they ended
    linked,     \* the jobs of the tick's batch are the objects in mem
    manual,     \* the job that run() executes while it holds the lock
    lost,       \* history: jobs whose marker was taken from them on purpose
    edit,       \* history: updates of a job, accepted or thrown out halfway
    used, ops, crashes

vars == <<now, mem, file, armed, tick, boot, interrupted, batch, linked, manual,
          lost, edit, used, ops, crashes>>

Actors   == {"tick", "boot"}
NoBatch  == <<>>
Claims   == [st : {"queued", "busy"} \union Outcomes, at : Nat]

TypeOK ==
    /\ now \in 1 .. MaxTime
    /\ IsStore(mem) /\ IsStore(file)
    /\ armed \in BOOLEAN /\ linked \in BOOLEAN
    /\ tick \in {"idle", "load", "run", "end"}
    /\ boot \in {"off", "missed", "run", "final", "up"}
    /\ interrupted \subseteq Ids /\ lost \subseteq Ids /\ used \subseteq Ids
    /\ DOMAIN batch = Actors
    /\ \A a \in Actors : DOMAIN batch[a] \subseteq Ids /\ batch[a] \in [DOMAIN batch[a] -> Claims]
    /\ tick = "run" <=> batch["tick"] # NoBatch
    /\ boot = "run" <=> batch["boot"] # NoBatch
    /\ manual # NoJob => manual \in DOMAIN mem
    /\ edit \in [Ids -> {"none", "accepted", "rejected"}]
    /\ ops \in 0 .. MaxOps /\ crashes \in 0 .. MaxCrashes

\* What an update of an earlier process did to job j of the file: it is thrown
\* out halfway if it leaves an enabled job malformed, and only an update enables
\* a one-shot job that has run.
Earlier(j) == IF j.enabled /\ j.kind = "broken" THEN "rejected"
              ELSE IF j.enabled /\ j.kind = "at" /\ j.status # "none" THEN "accepted"
              ELSE "none"

Init ==
    /\ now = 1 /\ file = Initial /\ mem = <<>>
    /\ armed = FALSE /\ tick = "idle" /\ boot = "off" /\ interrupted = {}
    /\ batch = [a \in Actors |-> NoBatch] /\ linked = FALSE /\ manual = NoJob
    /\ lost = {} /\ used = DOMAIN Initial
    /\ edit = [i \in Ids |-> IF i \in DOMAIN Initial THEN Earlier(Initial[i]) ELSE "none"]
    /\ ops = 0 /\ crashes = 0

-----------------------------------------------------------------------------
(* Schedules.                                                              *)

AtLeast(a, b) == IF a < b THEN b ELSE a

\* computeNextRunAtMs: the boundary of an "every" period counts as its run,
\* the next occurrence of a cron expression is later than now.
EveryNext(t, n) == IF n < t THEN t ELSE t + Period * AtLeast(1, (n - t + Period - 1) \div Period)
CronNext(t, n)  == t + Period * ((n - t) \div Period + 1)

\* computeJobNextRunAtMs throws on a malformed expression.
Throws(j) == j.enabled /\ j.kind = "broken"

NextRun(j, n) ==
    CASE ~j.enabled        -> NoTime
      [] j.enabled /\ j.kind = "at"    -> IF j.status = "ok" THEN NoTime ELSE j.t
      [] j.enabled /\ j.kind = "every" -> EveryNext(j.t, n)
      [] j.enabled /\ j.kind = "cron"  -> CronNext(j.t, n)

\* recomputeJobNextRunAtMs, with recordScheduleComputeError.
Rescheduled(j, n) ==
    IF Throws(j)
    THEN [j EXCEPT !.next = NoTime, !.bad = @ + 1, !.enabled = j.bad + 1 < MaxScheduleErrors]
    ELSE [j EXCEPT !.next = NextRun(j, n), !.bad = 0]

IsStuck(j, n) == j.enabled /\ j.mark # NoTime /\ n - j.mark > StuckAfter

\* normalizeJobTickState
Tidied(j, n) ==
    IF ~j.enabled THEN [j EXCEPT !.next = NoTime, !.mark = NoTime]
    ELSE IF IsStuck(j, n) THEN [j EXCEPT !.mark = NoTime] ELSE j

\* recomputeNextRuns: missing and past next runs are computed anew.
Recompute(s, n) ==
    [i \in DOMAIN s |-> LET j == Tidied(s[i], n)
                        IN  IF j.enabled /\ n >= j.next THEN Rescheduled(j, n) ELSE j]

\* Mutant: maintenance computes past next runs anew as well.
MaintainAll(s, n) == Recompute(s, n)

\* recomputeNextRunsForMaintenance: only missing ones are.
Maintain(s, n) ==
    [i \in DOMAIN s |-> LET j == Tidied(s[i], n)
                        IN  IF j.enabled /\ j.next = NoTime THEN Rescheduled(j, n) ELSE j]

\* The jobs that lose their marker in either.
Stuck(s) == {i \in DOMAIN s : IsStuck(s[i], now)}

\* nextWakeAtMs: armTimer sets a timer if some enabled job has a next run.
Wakes(s) == \E i \in DOMAIN s : s[i].enabled /\ s[i].next # NoTime

\* Mutant: a tick or a start takes a job that is marked.
RunnableMarked(j) == j.enabled /\ j.next # NoTime /\ now >= j.next

\* isRunnableJob
Runnable(j) == j.enabled /\ j.mark = NoTime /\ j.next # NoTime /\ now >= j.next

-----------------------------------------------------------------------------
(* The result of a run.                                                    *)

\* Mutant: a one-shot job stays enabled after an error.
AfterRetrying(j, outcome, end) ==
    LET done == [j EXCEPT !.mark = NoTime, !.status = outcome, !.errs = 0]
    IN  IF outcome = "error" THEN done ELSE [done EXCEPT !.next = NextRun(done, end)]

\* Mutant: the marker is not cleared with the result.
AfterKeepingMark(j, outcome, end) ==
    IF j.kind = "at" THEN [j EXCEPT !.status = outcome, !.enabled = FALSE, !.next = NoTime]
    ELSE [j EXCEPT !.status = outcome, !.next = NextRun(j, end)]

\* What applyJobResult writes before it computes a next run.
Noted(j, outcome) ==
    [j EXCEPT !.mark = NoTime, !.status = outcome,
              !.errs = IF outcome # "error" THEN 0
                       ELSE IF @ < Len(Backoff) THEN @ + 1 ELSE @]

\* applyJobResult, for a job whose next run can be computed.
After(j, outcome, end) ==
    LET done == Noted(j, outcome)
        next == NextRun(done, end)
    IN  IF j.kind = "at"
        THEN [done EXCEPT !.enabled = FALSE, !.next = NoTime]
        ELSE [done EXCEPT !.next =
                IF ~j.enabled THEN NoTime
                ELSE IF outcome = "error" THEN AtLeast(next, end + Backoff[done.errs])
                ELSE IF j.kind = "cron" THEN AtLeast(next, end + RefireGap)
                ELSE next]

IsDeleted(j, outcome) == j.kind = "at" /\ ~j.keep /\ outcome = "ok"

\* The store with the results of the jobs in S applied.
Settled(s, b, S) ==
    LET gone == {i \in S : IsDeleted(s[i], b[i].st)}
    IN  [i \in DOMAIN s \ gone |-> IF i \in S THEN After(s[i], b[i].st, b[i].at) ELSE s[i]]

\* The block that applies the results of b to the reloaded store.  A job whose
\* schedule cannot be computed throws: the results after it are dropped and
\* nothing is saved.
ApplyResults(b) ==
    LET known  == DOMAIN b \intersect DOMAIN file
        broken == {i \in known : Throws(file[i])}
    IN  IF broken = {}
        THEN /\ mem' = Maintain(Settled(file, b, known), now)
             /\ file' = mem'
             /\ lost' = lost \union (Stuck(file) \ known)
        ELSE /\ \E i \in broken, S \in SUBSET (known \ broken) :
                  mem' = [Settled(file, b, S) EXCEPT ![i] = Noted(@, b[i].st)]
             /\ UNCHANGED <<file, lost>>

-----------------------------------------------------------------------------
(* The timer tick.                                                         *)

LockFree == manual = NoJob

Is(b, stages) == \A i \in DOMAIN b : b[i].st \in stages
Claim(S)      == [i \in S |-> [st |-> "queued", at |-> NoTime]]
Marked(s, S)  == [i \in DOMAIN s |-> IF i \in S THEN [s[i] EXCEPT !.mark = now] ELSE s[i]]

TimePasses ==
    /\ now < MaxTime
    /\ now' = now + 1
    /\ UNCHANGED <<mem, file, armed, tick, boot, interrupted, batch, linked, manual,
                   lost, edit, used, ops, crashes>>

\* onTimer.  A timer that fires while a tick runs is only set again.
Fire ==
    /\ armed /\ tick = "idle"
    /\ armed' = FALSE /\ tick' = "load"
    /\ UNCHANGED <<now, mem, file, boot, interrupted, batch, linked, manual, lost, edit, used, ops, crashes>>

\* The first block of onTimer: reload, and claim what is due.
TickLoad ==
    /\ tick = "load" /\ LockFree
    /\ LET due == {i \in DOMAIN file : Runnable(file[i])}
       IN  IF due = {}
           THEN /\ mem' = Maintain(file, now)
                /\ lost' = lost \union Stuck(file)
                /\ tick' = "end" /\ UNCHANGED <<batch, linked>>
           ELSE /\ mem' = Marked(file, due)
                /\ batch' = [batch EXCEPT !["tick"] = Claim(due)]
                /\ tick' = "run" /\ linked' = TRUE /\ UNCHANGED lost
    /\ file' = mem'
    /\ UNCHANGED <<now, armed, boot, interrupted, manual, edit, used, ops, crashes>>

\* The workers of a tick, and the loop of runMissedJobs, take the next job,
\* even if it was disabled or removed meanwhile.  A tick sets its marker anew.
RunStarts(a, i) ==
    /\ i \in DOMAIN batch[a] /\ batch[a][i].st = "queued"
    /\ Cardinality({k \in DOMAIN batch[a] : batch[a][k].st = "busy"})
         < (IF a = "tick" THEN Concurrency ELSE 1)
    /\ batch' = [batch EXCEPT ![a][i].st = "busy"]
    /\ mem' = IF a = "tick" /\ linked /\ i \in DOMAIN mem THEN Marked(mem, {i}) ELSE mem
    /\ UNCHANGED <<now, file, armed, tick, boot, interrupted, linked, manual, lost, edit, used, ops, crashes>>

\* A run ends, by its result, an error, or its timeout.
RunEnds(a, i, outcome) ==
    /\ i \in DOMAIN batch[a] /\ batch[a][i].st = "busy"
    /\ batch' = [batch EXCEPT ![a][i] = [st |-> outcome, at |-> now]]
    /\ UNCHANGED <<now, mem, file, armed, tick, boot, interrupted, linked, manual, lost, edit, used, ops, crashes>>

\* Mutant: the claims of the tick outlive it.
TickApplyKeepsClaims ==
    /\ tick = "run" /\ LockFree /\ Is(batch["tick"], Outcomes)
    /\ ApplyResults(batch["tick"])
    /\ tick' = "end" /\ linked' = FALSE
    /\ UNCHANGED <<now, armed, boot, interrupted, batch, manual, edit, used, ops, crashes>>

\* The second block of onTimer, once all its runs are over.
TickApply ==
    /\ tick = "run" /\ LockFree /\ Is(batch["tick"], Outcomes)
    /\ ApplyResults(batch["tick"])
    /\ batch' = [batch EXCEPT !["tick"] = NoBatch]
    /\ tick' = "end" /\ linked' = FALSE
    /\ UNCHANGED <<now, armed, boot, interrupted, manual, edit, used, ops, crashes>>

\* Mutant: a tick does not set the timer when it ends.
TickEndsUnarmed ==
    /\ tick = "end" /\ tick' = "idle"
    /\ UNCHANGED <<now, mem, file, armed, boot, interrupted, batch, linked, manual, lost, edit, used, ops, crashes>>

\* The finally block of onTimer, after the session reaper.
TickEnds ==
    /\ tick = "end" /\ tick' = "idle"
    /\ armed' = Wakes(mem)
    /\ UNCHANGED <<now, mem, file, boot, interrupted, batch, linked, manual, lost, edit, used, ops, crashes>>

-----------------------------------------------------------------------------
(* start: the first run of the process.                                    *)

\* Markers of the process before are cleared.
BootLoad ==
    /\ boot = "off" /\ boot' = "missed"
    /\ mem' = [i \in DOMAIN file |-> [file[i] EXCEPT !.mark = NoTime]]
    /\ file' = mem'
    /\ interrupted' = {i \in DOMAIN file : file[i].mark # NoTime}
    /\ UNCHANGED <<now, armed, tick, batch, linked, manual, lost, edit, used, ops, crashes>>

\* The first block of runMissedJobs, on the store in memory.
BootMissed ==
    /\ boot = "missed" /\ LockFree
    /\ LET missed == {i \in DOMAIN mem \ interrupted :
                        Runnable(mem[i]) /\ (mem[i].kind = "at" => mem[i].status = "none")}
       IN  IF missed = {}
           THEN boot' = "final" /\ UNCHANGED <<mem, file, batch>>
           ELSE /\ boot' = "run"
                /\ mem' = Marked(mem, missed) /\ file' = mem'
                /\ batch' = [batch EXCEPT !["boot"] = Claim(missed)]
    /\ UNCHANGED <<now, armed, tick, interrupted, linked, manual, lost, edit, used, ops, crashes>>

\* The second block of runMissedJobs.  If it throws, start is over.
BootApply ==
    /\ boot = "run" /\ LockFree /\ Is(batch["boot"], Outcomes)
    /\ ApplyResults(batch["boot"])
    /\ batch' = [batch EXCEPT !["boot"] = NoBatch]
    /\ boot' = IF \E i \in DOMAIN batch["boot"] \intersect DOMAIN file : Throws(file[i])
               THEN "up" ELSE "final"
    /\ linked' = FALSE
    /\ UNCHANGED <<now, armed, tick, interrupted, manual, edit, used, ops, crashes>>

\* The last block of start.
BootFinal ==
    /\ boot = "final" /\ LockFree /\ boot' = "up" /\ interrupted' = {}
    /\ mem' = Recompute(file, now) /\ file' = mem'
    /\ lost' = lost \union Stuck(file)
    /\ armed' = Wakes(mem') /\ linked' = FALSE
    /\ UNCHANGED <<now, tick, batch, manual, edit, used, ops, crashes>>

-----------------------------------------------------------------------------
(* Operations.                                                             *)

Operation == boot # "off" /\ LockFree /\ ops < MaxOps /\ ops' = ops + 1

Save(s) == mem' = s /\ file' = s /\ armed' = Wakes(s)

\* list and status
Read ==
    /\ Operation
    /\ mem' = Maintain(mem, now)
    /\ file' = IF mem' # mem THEN mem' ELSE file
    /\ lost' = lost \union Stuck(mem)
    /\ UNCHANGED <<now, armed, tick, boot, interrupted, batch, linked, manual, edit, used, crashes>>

\* add; createJob throws before anything is changed.
Add(i, d) ==
    /\ Operation /\ i \notin used /\ d.kind # "broken"
    /\ LET j == [kind |-> d.kind, t |-> d.t, keep |-> d.keep, enabled |-> TRUE, next |-> NoTime,
                 mark |-> NoTime, status |-> "none", errs |-> 0, bad |-> 0]
       IN  Save(Recompute([k \in DOMAIN mem \union {i} |->
                            IF k = i THEN [j EXCEPT !.next = NextRun(j, now)] ELSE mem[k]], now))
    /\ used' = used \union {i}
    /\ lost' = lost \union Stuck(mem)
    /\ UNCHANGED <<now, tick, boot, interrupted, batch, linked, manual, edit, crashes>>

\* applyJobPatch
Patched(j, p) ==
    CASE p.what = "on"       -> [j EXCEPT !.enabled = TRUE]
      [] p.what = "off"      -> [j EXCEPT !.enabled = FALSE]
      [] p.what = "schedule" -> [j EXCEPT !.kind = p.kind, !.t = p.t]
      [] p.what = "name"     -> j

\* update
Update(i, p) ==
    /\ Operation /\ i \in DOMAIN mem
    /\ LET j == Patched(mem[i], p)
           computes == p.what # "name" \/ (j.enabled /\ j.next = NoTime)
       IN  /\ ~(computes /\ Throws(j))
           /\ Save([mem EXCEPT ![i] =
                 IF ~computes THEN j
                 ELSE IF j.enabled THEN [j EXCEPT !.next = NextRun(j, now)]
                 ELSE [j EXCEPT !.next = NoTime, !.mark = NoTime]])
           /\ lost' = IF computes /\ ~j.enabled THEN lost \union {i} ELSE lost
    /\ edit' = [edit EXCEPT ![i] = IF @ = "none" THEN "accepted" ELSE @]
    /\ UNCHANGED <<now, tick, boot, interrupted, batch, linked, manual, used, crashes>>

\* update throws after it has patched the job in memory: a delivery that the
\* job does not support, a schedule that cannot be computed.
UpdateRejected(i, p) ==
    /\ Operation /\ i \in DOMAIN mem
    /\ mem' = [mem EXCEPT ![i] = Patched(@, p)]
    /\ edit' = [edit EXCEPT ![i] = "rejected"]
    /\ UNCHANGED <<now, file, armed, tick, boot, interrupted, batch, linked, manual, lost, used, crashes>>

\* remove
Remove(i) ==
    /\ Operation /\ i \in DOMAIN mem
    /\ Save(Restrict(mem, DOMAIN mem \ {i}))
    /\ UNCHANGED <<now, tick, boot, interrupted, batch, linked, manual, lost, edit, used, crashes>>

\* run, of a job that is due or by force: executeJob inside the lock.
ManualStart(i) ==
    /\ Operation /\ i \in DOMAIN mem /\ mem[i].mark = NoTime
    /\ manual' = i
    /\ mem' = Marked(mem, {i})
    /\ UNCHANGED <<now, file, armed, tick, boot, interrupted, batch, linked, lost, edit, used, crashes>>

ManualEnds(outcome) ==
    /\ manual # NoJob /\ manual' = NoJob
    /\ IF Throws(mem[manual])
       THEN /\ mem' = [mem EXCEPT ![manual] = Noted(@, outcome)]
            /\ UNCHANGED <<file, armed, lost>>
       ELSE /\ LET s == Settled(mem, [i \in {manual} |-> [st |-> outcome, at |-> now]], {manual})
               IN  /\ Save(Recompute(s, now))
                   /\ lost' = lost \union Stuck(s)
    /\ UNCHANGED <<now, tick, boot, interrupted, batch, linked, edit, used, ops, crashes>>

\* The process dies; the file stays.
Crash ==
    /\ boot # "off" /\ crashes < MaxCrashes /\ crashes' = crashes + 1
    /\ mem' = <<>> /\ armed' = FALSE /\ tick' = "idle" /\ boot' = "off" /\ interrupted' = {}
    /\ batch' = [a \in Actors |-> NoBatch] /\ linked' = FALSE /\ manual' = NoJob /\ lost' = {}
    /\ UNCHANGED <<now, file, edit, used, ops>>

-----------------------------------------------------------------------------
TickStep ==
    \/ Fire \/ TickLoad \/ TickApply \/ TickEnds
    \/ \E i \in Ids : RunStarts("tick", i)
    \/ \E i \in Ids, outcome \in Outcomes : RunEnds("tick", i, outcome)

BootStep ==
    \/ BootLoad \/ BootMissed \/ BootApply \/ BootFinal
    \/ \E i \in Ids : RunStarts("boot", i)
    \/ \E i \in Ids, outcome \in Outcomes : RunEnds("boot", i, outcome)

RunEndsLocked == \E outcome \in Outcomes : ManualEnds(outcome)

Next ==
    \/ TimePasses \/ TickStep \/ BootStep \/ RunEndsLocked
    \/ Read
    \/ \E i \in Ids, d \in Drafts : Add(i, d)
    \/ \E i \in Ids, p \in Patches : Update(i, p)
    \/ \E i \in Ids, p \in Patches : UpdateRejected(i, p)
    \/ \E i \in Ids : Remove(i)
    \/ \E i \in Ids : ManualStart(i)
    \/ Crash

Spec == Init /\ [][Next]_vars
-----------------------------------------------------------------------------
(* Properties.                                                             *)

Claimed(i) == manual = i \/ \E a \in Actors : i \in DOMAIN batch[a]
Untouched  == \A i \in Ids : edit[i] # "rejected"

\* A job is run by one of tick, start and run() at a time, from its claim
\* until its result is applied, although none of them holds the lock between:
\* unless an update took its marker or the marker was older than STUCK_RUN_MS.
OneAtATime ==
    \A i \in {k \in Ids \ lost : edit[k] # "rejected"} :
      /\ ~(i \in DOMAIN batch["tick"] /\ i \in DOMAIN batch["boot"])
      /\ manual = i => \A a \in Actors : i \notin DOMAIN batch[a]

\* A job is marked as running exactly while someone has claimed it: reloads,
\* crashes, edits of other jobs and results that land late leave no marker
\* behind, which would keep the job from running for two hours.
MarkerMeansClaim ==
    boot # "off" /\ Untouched =>
      \A i \in DOMAIN mem \ lost : mem[i].mark # NoTime <=> Claimed(i)

\* A run that is due is not skipped by ticks, reads, results, catch-up and the
\* edits of other jobs: the job keeps its time until someone claims it
\* (#13992, #16156, #17852).  add, run and the end of start compute it anew.
DueRunsAreKept ==
    [][used' = used /\ manual' = manual /\ ~(boot = "final" /\ boot' = "up") /\ Untouched =>
         \A i \in DOMAIN mem \intersect DOMAIN mem' :
           edit'[i] = "none" /\ Runnable(mem[i]) /\ ~Claimed(i) => mem'[i].next = mem[i].next]_vars

\* A one-shot job that has run, with whatever result, is not claimed again
\* unless it was edited: not by the tick after its result, nor after a crash.
OneShotsRunOnce ==
    [][\A a \in Actors : \A i \in DOMAIN batch'[a] \ DOMAIN batch[a] :
          mem'[i].kind = "at" /\ edit[i] = "none" => mem'[i].status = "none"]_vars

\* The scheduler does not die: while a job has a next run, the timer is set or
\* a tick is at work that will set it, whatever ticks, operations and the
\* catch-up of start did to the store and to the timer meanwhile (#12025).
TimerIsArmed ==
    boot = "up" /\ Untouched /\ Wakes(mem) => armed \/ tick # "idle"

-----------------------------------------------------------------------------
(* The inductive invariant, in parts about a store s, the jobs C that ticks *)
(* and start have claimed, and the history.                                 *)

Batched == UNION {DOMAIN batch[a] : a \in Actors}

\* A job that may be claimed is not malformed, and a claimed one is marked and
\* enabled: a disabled job would lose its marker.
Held(s, C) ==
    \A i \in DOMAIN s :
      edit[i] # "rejected" =>
        /\ ~Throws(s[i])
        /\ i \in C \ lost => s[i].mark # NoTime /\ s[i].enabled

\* A one-shot job that has run is disabled until it is edited.
Spent(s) ==
    \A i \in DOMAIN s :
      edit[i] = "none" /\ s[i].kind = "at" /\ s[i].enabled => s[i].status = "none"

\* There is no other marker.
Marks(s, C) == \A i \in DOMAIN s \ lost : s[i].mark # NoTime => i \in C

\* A reload finds the next runs of the jobs in memory.
Agree == \A i \in DOMAIN mem \intersect DOMAIN file :
           mem[i].next = file[i].next /\ mem[i].enabled = file[i].enabled

\* An enabled job without a next run is one that maintenance gives none.
IsOver(j)  == j.kind = "at" /\ (j.status = "ok" \/ j.t = NoTime)
Planned(s) == \A i \in DOMAIN s : s[i].enabled /\ s[i].next = NoTime => IsOver(s[i])

Stopped ==
    /\ mem = <<>> /\ ~armed /\ tick = "idle" /\ manual = NoJob

IInv ==
    /\ TypeOK
    /\ DOMAIN mem \union DOMAIN file \union Batched \subseteq used
    /\ boot = "off" => Stopped
    /\ OneAtATime
    /\ Held(mem, Batched) /\ Held(file, Batched)
    /\ Spent(mem) /\ Spent(file)
    /\ manual # NoJob => mem[manual].mark # NoTime
    /\ boot # "off" /\ Untouched =>
         Marks(mem, Batched \union {manual}) /\ Marks(file, Batched) /\ Agree
    /\ boot = "up" /\ Untouched /\ tick # "run" => Planned(mem)
    /\ TimerIsArmed
=============================================================================
