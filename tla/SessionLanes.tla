---------------------------- MODULE SessionLanes ----------------------------
(***************************************************************************)
(* Agent runs on the command queue: runEmbeddedPiAgent pushes a run on the *)
(* lane of its session, and the task of that entry pushes it once more on  *)
(* a global lane (main, cron, ...) whose task is the run itself.  With the *)
(* in-process restart of the gateway (SIGUSR1), which waits for active     *)
(* tasks, closes the server and resets all lanes.                          *)
(*                                                                         *)
(* A lane is a CommandQueue; the steps below say which lanes one           *)
(* synchronous burst of JavaScript touches.                                *)
(***************************************************************************)
EXTENDS Integers, Sequences, FiniteSets

CONSTANTS
  Runs,         (* calls of runEmbeddedPiAgent                               *)
  Sessions,     (* session lanes                                             *)
  Globals,      (* global lanes                                              *)
  SessionOf,    (* resolveSessionLane of a run                               *)
  GlobalOf,     (* resolveGlobalLane of a run                                *)
  Limits,       (* the concurrencies of a lane                               *)
  MaxRestarts   (* bound: in-process restarts                                *)

Lanes == Sessions \cup Globals

ASSUME LanesAssumption == /\ IsFiniteSet(Runs)
                          /\ Sessions \cap Globals = {}
                          /\ SessionOf \in [Runs -> Sessions]
                          /\ GlobalOf \in [Runs -> Globals]
                          /\ MaxRestarts \in Nat

(* Math.max(1, ...) in setCommandLaneConcurrency; lanes begin with 1.       *)
ASSUME LimitsAssumption == Limits \subseteq Nat \ {0} /\ 1 \in Limits

VARIABLES
  queue, activeTaskIds, maxConcurrent, stale,   (* of each lane              *)
  phase,                                 (* of each lane and run             *)
  ticket, nextTicket,                    (* history, of each lane            *)
  gateway,    (* "up", or how far a restart has come                         *)
  watched,    (* activeAtStart of waitForActiveTasks: pairs lane, run        *)
  restarts

history     == <<ticket, nextTicket>>
restartVars == <<gateway, watched, restarts>>
vars == <<queue, activeTaskIds, maxConcurrent, stale, phase, history,
          restartVars>>

RunsOf(l) == {r \in Runs : l \in {SessionOf[r], GlobalOf[r]}}

Lane(l) == INSTANCE CommandQueue WITH
  Entries <- RunsOf(l),
  queue <- queue[l], activeTaskIds <- activeTaskIds[l],
  maxConcurrent <- maxConcurrent[l], stale <- stale[l],
  phase <- [r \in RunsOf(l) |-> phase[l][r]],
  ticket <- [r \in RunsOf(l) |-> ticket[l][r]],
  nextTicket <- nextTicket[l]

Init ==
  /\ queue = [l \in Lanes |-> <<>>]
  /\ activeTaskIds = [l \in Lanes |-> {}]
  /\ maxConcurrent = [l \in Lanes |-> 1]
  /\ stale = [l \in Lanes |-> {}]
  /\ phase = [l \in Lanes |-> [r \in Runs |-> "new"]]
  /\ ticket = [l \in Lanes |-> [r \in Runs |-> 0]]
  /\ nextTicket = [l \in Lanes |-> 0]
  /\ gateway = "up"
  /\ watched = {}
  /\ restarts = 0

-----------------------------------------------------------------------------
FirstOf(q, n) == {q[i] : i \in 1..n}
AsSet(q) == FirstOf(q, Len(q))

(* The orders in which the runs of a set can be pushed.                     *)
Orders(S) == {f \in [1..Cardinality(S) -> S] :
                \A i, j \in DOMAIN f : f[i] = f[j] => i = j}

(* What pump() takes off a lane whose queue is q and whose active set is act. *)
Taken(q, act, max) ==
  LET room == IF Cardinality(act) < max THEN max - Cardinality(act) ELSE 0
  IN  IF Len(q) < room THEN Len(q) ELSE room

(* The runs that start on the session lanes in `drained`: their tasks push  *)
(* them on their global lanes.                                              *)
Arriving(q, act, max, drained) ==
  UNION {FirstOf(q[s], Taken(q[s], act[s], max[s])) : s \in Sessions \cap drained}

(* The entries new[l] are pushed on the lanes, whose queues, active sets,   *)
(* limits and phases are q, act, max and p; a push pumps its lane, and the  *)
(* lanes in `drained` are pumped in any case.                               *)
PushAndPump(new, q, act, max, p, drained) ==
  LET all == [l \in Lanes |-> q[l] \o new[l]]
      n   == [l \in Lanes |-> IF l \in drained \/ new[l] # <<>>
                                THEN Taken(all[l], act[l], max[l]) ELSE 0]
  IN
  /\ queue' = [l \in Lanes |-> SubSeq(all[l], n[l] + 1, Len(all[l]))]
  /\ activeTaskIds' = [l \in Lanes |-> act[l] \cup FirstOf(all[l], n[l])]
  /\ maxConcurrent' = max
  /\ phase' = [l \in Lanes |-> [r \in Runs |->
                 IF r \in FirstOf(all[l], n[l]) THEN "running"
                 ELSE IF r \in AsSet(new[l]) THEN "queued" ELSE p[l][r]]]
  /\ ticket' = [l \in Lanes |-> [r \in Runs |->
                  IF r \in AsSet(new[l])
                    THEN nextTicket[l] + (CHOOSE i \in DOMAIN new[l] : new[l][i] = r)
                    ELSE ticket[l][r]]]
  /\ nextTicket' = [l \in Lanes |-> nextTicket[l] + Len(new[l])]

(* One burst: `push` on the session lanes, and on each global lane the runs *)
(* that start on a session lane meanwhile, in some order.                   *)
Burst(push, q, act, max, p, drained) ==
  LET arriving == Arriving([s \in Sessions |-> q[s] \o push[s]], act, max, drained)
  IN
  \E order \in [Globals -> UNION {Orders(A) : A \in SUBSET arriving}] :
    /\ \A g \in Globals : order[g] \in Orders({r \in arriving : GlobalOf[r] = g})
    /\ PushAndPump([l \in Lanes |-> IF l \in Sessions THEN push[l] ELSE order[l]],
                   q, act, max, p, drained)

NoPush == [s \in Sessions |-> <<>>]
PhaseWith(l, r, to) == [phase EXCEPT ![l][r] = to]

(* runEmbeddedPiAgent *)
Submit(r) ==
  LET s == SessionOf[r] IN
  /\ phase[s][r] = "new"
  /\ Burst([NoPush EXCEPT ![s] = <<r>>], queue, activeTaskIds, maxConcurrent,
           phase, {s})
  /\ UNCHANGED <<stale, restartVars>>

(* Mutant: a task that ends leaves the lane unpumped.                       *)
CompleteUnpumped(l, r) ==
  /\ activeTaskIds' = [activeTaskIds EXCEPT ![l] = @ \ {r}]
  /\ stale' = [stale EXCEPT ![l] = @ \ {r}]
  /\ phase' = PhaseWith(l, r, "returned")
  /\ UNCHANGED <<queue, maxConcurrent, history, restartVars>>

(* The task of r on lane l ends.                                            *)
Complete(l, r) ==
  /\ \/ /\ r \notin stale[l]
        /\ Burst(NoPush, queue, [activeTaskIds EXCEPT ![l] = @ \ {r}],
                 maxConcurrent, PhaseWith(l, r, "returned"), {l})
        /\ UNCHANGED stale
     \/ /\ r \in stale[l]
        /\ stale' = [stale EXCEPT ![l] = @ \ {r}]
        /\ phase' = PhaseWith(l, r, "returned")
        /\ UNCHANGED <<queue, activeTaskIds, maxConcurrent, history>>
  /\ UNCHANGED restartVars

RunEnds(r) ==
  /\ phase[GlobalOf[r]][r] = "running"
  /\ Complete(GlobalOf[r], r)

(* Mutant: the session task does not return the promise of the global one.  *)
SessionEndsEarly(r) ==
  /\ phase[SessionOf[r]][r] = "running"
  /\ Complete(SessionOf[r], r)

(* The task on the session lane awaits the one on the global lane.          *)
SessionEnds(r) ==
  /\ phase[SessionOf[r]][r] = "running"
  /\ phase[GlobalOf[r]][r] = "returned"
  /\ Complete(SessionOf[r], r)

(* clearCommandLane: an interrupt or a stop command for the session.  The   *)
(* abort of the run that goes with it makes the run end, some time later.   *)
ClearSession(s) ==
  /\ queue[s] # <<>>
  /\ queue' = [queue EXCEPT ![s] = <<>>]
  /\ phase' = [phase EXCEPT ![s] =
                 [r \in Runs |-> IF @[r] = "queued" THEN "cleared" ELSE @[r]]]
  /\ UNCHANGED <<activeTaskIds, maxConcurrent, stale, history, restartVars>>

(* setCommandLaneConcurrency, on global lanes only.                         *)
SetConcurrency(g, max) ==
  /\ Burst(NoPush, queue, activeTaskIds, [maxConcurrent EXCEPT ![g] = max],
           phase, {g})
  /\ UNCHANGED <<stale, restartVars>>

-----------------------------------------------------------------------------
(* The restart *)

ActiveTasks == {t \in Lanes \X Runs : t[2] \in activeTaskIds[t[1]]}
laneVars == <<queue, activeTaskIds, maxConcurrent, stale, phase, history>>

(* request("restart"), refused while one is under way.                      *)
RequestRestart ==
  /\ gateway = "up"
  /\ restarts < MaxRestarts
  /\ restarts' = restarts + 1
  /\ watched' = ActiveTasks
  /\ gateway' = "draining"
  /\ UNCHANGED laneVars

(* Mutant: only the tasks of the global lanes are waited for.               *)
WaitEndsGlobals ==
  /\ gateway = "draining"
  /\ gateway' = IF \A t \in watched \cap ActiveTasks : t[1] \in Sessions
                  THEN "drained" ELSE "closing"
  /\ UNCHANGED <<watched, restarts, laneVars>>

(* waitForActiveTasks: drained, or the drain timeout is reached.            *)
WaitEnds ==
  /\ gateway = "draining"
  /\ gateway' = IF watched \cap ActiveTasks = {} THEN "drained" ELSE "closing"
  /\ UNCHANGED <<watched, restarts, laneVars>>

(* Mutant: preserved entries wait for the next enqueue.                     *)
ResetUndrained ==
  /\ gateway \in {"drained", "closing"}
  /\ gateway' = "up"
  /\ watched' = {}
  /\ Burst(NoPush, queue, [l \in Lanes |-> {}], maxConcurrent, phase, {})
  /\ stale' = [l \in Lanes |-> stale[l] \cup activeTaskIds[l]]
  /\ UNCHANGED restarts

(* The server is closed, the loop of the daemon comes round: resetAllLanes. *)
Reset ==
  /\ gateway \in {"drained", "closing"}
  /\ gateway' = "up"
  /\ watched' = {}
  /\ Burst(NoPush, queue, [l \in Lanes |-> {}], maxConcurrent, phase,
           {l \in Lanes : queue[l] # <<>>})
  /\ stale' = [l \in Lanes |-> stale[l] \cup activeTaskIds[l]]
  /\ UNCHANGED restarts

Next ==
  \/ \E r \in Runs : Submit(r) \/ RunEnds(r) \/ SessionEnds(r)
  \/ \E s \in Sessions : ClearSession(s)
  \/ \E g \in Globals, max \in Limits : SetConcurrency(g, max)
  \/ RequestRestart \/ WaitEnds \/ Reset

Spec == Init /\ [][Next]_vars

(* Runs have a timeout, the rest are promise reactions and timers; but a run *)
(* that a restart interrupted may never end.  Nobody has to submit, clear or *)
(* restart anything.                                                        *)
FairSpec ==
  /\ Spec
  /\ \A r \in Runs : WF_vars(r \notin stale[GlobalOf[r]] /\ RunEnds(r))
                   /\ WF_vars(SessionEnds(r))
  /\ WF_vars(WaitEnds) /\ WF_vars(Reset)

-----------------------------------------------------------------------------
(* Every lane is a CommandQueue: what SessionLanes composes from bursts over *)
(* several lanes is, for each lane alone, one operation of command-queue.ts. *)
LanesAreQueues ==
  /\ \A l \in Lanes : Lane(l)!Init
  /\ [][\A l \in Lanes : UNCHANGED Lane(l)!vars \/ Lane(l)!Next]_vars

Executing(r) == phase[GlobalOf[r]][r] = "running"

SameSession(r, s) == r # s /\ SessionOf[r] = SessionOf[s]

(* Two runs of one session execute at once only if a restart has left one   *)
(* of them behind.                                                          *)
OnlyLeftoversOverlap ==
  \A r, s \in Runs :
    SameSession(r, s) /\ Executing(r) /\ Executing(s) =>
      {r, s} \cap stale[SessionOf[r]] # {}

(* "all active tasks drained": no task that was active when the restart was *)
(* requested is still at work when the server is closed.                    *)
DrainedMeansEnded ==
  gateway = "drained" => \A t \in watched : phase[t[1]][t[2]] # "running"

(* Every run that waits for its session is executed or cleared: two lanes   *)
(* that wait for each other, limits and restarts do not make it hang, even  *)
(* if the runs that a restart interrupted never end.                        *)
RunIsServed ==
  \A r \in Runs :
    phase[SessionOf[r]][r] = "queued" ~>
      \/ phase[SessionOf[r]][r] = "cleared"
      \/ phase[GlobalOf[r]][r] \in {"running", "returned"}

-----------------------------------------------------------------------------
(* The inductive invariant.  Its first parts speak of the lanes as pump()   *)
(* finds them.                                                              *)

Phase == {"new", "queued", "running", "returned", "cleared"}
Distinct(q) == \A i, j \in DOMAIN q : q[i] = q[j] => i = j

LanesTyped(q, act, old, max, p) ==
  /\ q \in [Lanes -> Seq(Runs)]
  /\ act \in [Lanes -> SUBSET Runs] /\ old \in [Lanes -> SUBSET Runs]
  /\ max \in [Lanes -> Limits]
  /\ p \in [Lanes -> [Runs -> Phase]]

(* A queue holds runs of its lane that wait, each once.                     *)
QueuesHold(q, p) ==
  \A l \in Lanes : /\ Distinct(q[l])
                   /\ \A i \in DOMAIN q[l] : p[l][q[l][i]] = "queued"
                   /\ \A r \in Runs : p[l][r] # "new" => r \in RunsOf(l)

(* A task that runs is active or was left behind by a restart.              *)
ActiveRun(act, old, p) ==
  \A l \in Lanes : \A r \in Runs :
    /\ p[l][r] = "running" <=> r \in act[l] \cup old[l]
    /\ ~(r \in act[l] /\ r \in old[l])

(* Session lanes take one run at a time.                                    *)
OnePerSession(act, max) ==
  \A s \in Sessions : max[s] = 1 /\ \A r, t \in act[s] : r = t

(* A run is on its global lane only while it holds its session lane.        *)
HoldsSession(p) ==
  \A r \in Runs :
    p[GlobalOf[r]][r] \in {"queued", "running"} => p[SessionOf[r]][r] = "running"

NotYetOnGlobal(p) ==
  \A r \in Runs :
    p[SessionOf[r]][r] \in {"new", "queued", "cleared"} => p[GlobalOf[r]][r] = "new"

WellFormed(q, act, old, max, p) ==
  /\ LanesTyped(q, act, old, max, p)
  /\ QueuesHold(q, p)
  /\ ActiveRun(act, old, p)
  /\ OnePerSession(act, max)
  /\ HoldsSession(p)
  /\ NotYetOnGlobal(p)

(* What a restart waits for has started, and no reset came since.           *)
WatchedOK(w, old, p) ==
  /\ w \subseteq Lanes \X Runs
  /\ \A t \in w : /\ p[t[1]][t[2]] \in {"running", "returned"}
                  /\ t[2] \notin old[t[1]]

IInv ==
  /\ WellFormed(queue, activeTaskIds, stale, maxConcurrent, phase)
  /\ nextTicket \in [Lanes -> Nat]
  /\ gateway \in {"up", "draining", "drained", "closing"}
  /\ WatchedOK(watched, stale, phase)
  /\ DrainedMeansEnded
=============================================================================
