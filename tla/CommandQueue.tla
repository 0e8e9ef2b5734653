---------------------------- MODULE CommandQueue ----------------------------
(***************************************************************************)
(* One lane of the in-process command queue of the TypeScript gateway      *)
(* (src/src/process/command-queue.ts): a LaneState and the entries that    *)
(* are pushed on it.                                                       *)
(*                                                                         *)
(* JavaScript runs a step to its next await, so enqueueing or completing   *)
(* an entry and the pump() that follows are one step, and `draining` is    *)
(* false between two steps.  Task ids and generations are drawn from       *)
(* counters; here an entry is its own task id, and `stale` holds the       *)
(* running tasks whose taskGeneration is not the generation of the lane.   *)
(***************************************************************************)
EXTENDS Integers, Sequences, FiniteSets

CONSTANTS Entries,   (* the entries pushed on this lane, each once          *)
          Limits     (* the values setCommandLaneConcurrency is given       *)

ASSUME EntriesAssumption == IsFiniteSet(Entries)
ASSUME LimitsAssumption  == Limits \subseteq Nat \ {0} /\ 1 \in Limits

VARIABLES
  queue,           (* LaneState.queue                                       *)
  activeTaskIds,   (* LaneState.activeTaskIds                               *)
  maxConcurrent,   (* LaneState.maxConcurrent                               *)
  stale,           (* tasks of earlier generations that have not ended      *)
  phase,           (* of an entry: its task and the promise it settles      *)
  ticket,          (* history: the order in which entries were pushed       *)
  nextTicket       (* history: how many were pushed                         *)

vars == <<queue, activeTaskIds, maxConcurrent, stale, phase, ticket, nextTicket>>

Phase == {"new", "queued", "running", "returned", "cleared"}

Init ==
  /\ queue = <<>>
  /\ activeTaskIds = {}
  /\ maxConcurrent = 1
  /\ stale = {}
  /\ phase = [e \in Entries |-> "new"]
  /\ ticket = [e \in Entries |-> 0]
  /\ nextTicket = 0

-----------------------------------------------------------------------------
(* How many of `waiting` entries the loop of pump() takes off the queue.    *)
Startable(waiting, active, max) ==
  LET room == IF active < max THEN max - active ELSE 0
  IN  IF waiting < room THEN waiting ELSE room

(* The entries q[1..n]. *)
FirstOf(q, n) == {q[i] : i \in 1..n}

(* pump() on a lane whose queue is q and whose active tasks are act.        *)
Pump(q, act, max, p) ==
  LET n == Startable(Len(q), Cardinality(act), max) IN
  /\ queue' = SubSeq(q, n + 1, Len(q))
  /\ activeTaskIds' = act \cup FirstOf(q, n)
  /\ phase' = [e \in Entries |-> IF e \in FirstOf(q, n) THEN "running" ELSE p[e]]

(* The sequences of entries that have not been pushed yet.                  *)
Fresh == {e \in Entries : phase[e] = "new"}
Batches == {new \in UNION {[1..n -> Fresh] : n \in 0..Cardinality(Fresh)} :
              \A i, j \in DOMAIN new : i # j => new[i] # new[j]}

Queued(new) == [e \in Entries |-> IF e \in FirstOf(new, Len(new)) THEN "queued"
                                                               ELSE phase[e]]

Numbered(new) ==
  /\ ticket' = [e \in Entries |->
                  IF e \in FirstOf(new, Len(new))
                    THEN nextTicket + (CHOOSE i \in DOMAIN new : new[i] = e)
                    ELSE ticket[e]]
  /\ nextTicket' = nextTicket + Len(new)

(* Mutant: the entry goes to the head of the queue.                         *)
EnqueueAtHead(e) ==
  /\ e \in Fresh
  /\ Pump(<<e>> \o queue, activeTaskIds, maxConcurrent, Queued(<<e>>))
  /\ Numbered(<<e>>)
  /\ UNCHANGED <<maxConcurrent, stale>>

(* enqueueCommandInLane *)
Enqueue(e) ==
  /\ e \in Fresh
  /\ Pump(Append(queue, e), activeTaskIds, maxConcurrent, Queued(<<e>>))
  /\ Numbered(<<e>>)
  /\ UNCHANGED <<maxConcurrent, stale>>

(* Mutant: a completion does not pump the lane.                             *)
CompleteWithoutPump(e) ==
  /\ phase[e] = "running"
  /\ activeTaskIds' = activeTaskIds \ {e}
  /\ stale' = stale \ {e}
  /\ phase' = [phase EXCEPT ![e] = "returned"]
  /\ UNCHANGED <<queue, maxConcurrent, ticket, nextTicket>>

(* The task of e ends.  completeTask() refuses a task of an earlier         *)
(* generation: its promise is settled but the lane is left alone.           *)
Complete(e) ==
  /\ phase[e] = "running"
  /\ \/ /\ e \notin stale
        /\ Pump(queue, activeTaskIds \ {e}, maxConcurrent,
                [phase EXCEPT ![e] = "returned"])
        /\ UNCHANGED stale
     \/ /\ e \in stale
        /\ stale' = stale \ {e}
        /\ phase' = [phase EXCEPT ![e] = "returned"]
        /\ UNCHANGED <<queue, activeTaskIds>>
  /\ UNCHANGED <<maxConcurrent, ticket, nextTicket>>

(* Mutant: the rejected entries stay in the queue.                          *)
ClearKeepsQueue ==
  /\ queue # <<>>
  /\ phase' = [e \in Entries |-> IF phase[e] = "queued" THEN "cleared"
                                                        ELSE phase[e]]
  /\ UNCHANGED <<queue, activeTaskIds, maxConcurrent, stale, ticket, nextTicket>>

(* clearCommandLane: what waits is rejected, what runs goes on.             *)
Clear ==
  /\ queue # <<>>
  /\ queue' = <<>>
  /\ phase' = [e \in Entries |-> IF phase[e] = "queued" THEN "cleared"
                                                        ELSE phase[e]]
  /\ UNCHANGED <<activeTaskIds, maxConcurrent, stale, ticket, nextTicket>>

(* setCommandLaneConcurrency *)
SetConcurrency(max) ==
  /\ maxConcurrent' = max
  /\ Pump(queue, activeTaskIds, max, phase)
  /\ UNCHANGED <<stale, ticket, nextTicket>>

(* Mutant: the ids of the interrupted tasks stay active.                    *)
ResetKeepsActive(new) ==
  /\ Pump(queue \o new, activeTaskIds, maxConcurrent, Queued(new))
  /\ stale' = stale \cup activeTaskIds
  /\ Numbered(new)
  /\ UNCHANGED maxConcurrent

(* resetAllLanes, as far as this lane goes: every running task becomes one  *)
(* of an earlier generation and the queue is drained.  Tasks of other lanes *)
(* that the same pass starts may push entries here.                         *)
Reset(new) ==
  /\ Pump(queue \o new, {}, maxConcurrent, Queued(new))
  /\ stale' = stale \cup activeTaskIds
  /\ Numbered(new)
  /\ UNCHANGED maxConcurrent

Next ==
  \/ \E e \in Entries : Enqueue(e) \/ Complete(e)
  \/ Clear
  \/ \E max \in Limits : SetConcurrency(max)
  \/ \E new \in Batches : Reset(new)

Spec == Init /\ [][Next]_vars

(* A task ends sooner or later (agent runs have a timeout), unless a restart *)
(* interrupted it: "finally blocks may not run".                            *)
CompleteCurrent(e) == e \notin stale /\ Complete(e)
FairSpec == Spec /\ \A e \in Entries : WF_vars(CompleteCurrent(e))

-----------------------------------------------------------------------------
TypeOK ==
  /\ queue \in Seq(Entries)
  /\ activeTaskIds \in SUBSET Entries
  /\ maxConcurrent \in Limits
  /\ stale \in SUBSET Entries
  /\ phase \in [Entries -> Phase]
  /\ ticket \in [Entries -> Nat]
  /\ nextTicket \in Nat

Settled == {"returned", "cleared"}
Started == {"running", "returned"}

(* No wake-up is lost: an entry waits only while the lane is full.  Each     *)
(* place a completion, a higher limit or a reset frees is given away in the *)
(* same step, since nothing else would ever pump the lane.                  *)
QueuedMeansFull == queue # <<>> => Cardinality(activeTaskIds) >= maxConcurrent

(* First come, first served, across resets, concurrent tasks and clearing:  *)
(* nothing that still waits was pushed before something that has started.   *)
FirstComeFirstServed ==
  \A e, f \in Entries :
    phase[e] \in Started /\ phase[f] = "queued" => ticket[e] < ticket[f]

(* A lane takes up work only within its limit.  (It may be above the limit  *)
(* after setCommandLaneConcurrency has lowered it.)                         *)
StartsOnlyInRoom ==
  [][activeTaskIds' \ activeTaskIds # {} =>
       Cardinality(activeTaskIds') <= maxConcurrent']_vars

(* The promise of an entry is settled once, and a task that returned or was *)
(* cleared is not run again, whatever resets happen in between.             *)
SettledForGood ==
  [][\A e \in Entries : phase[e] \in Settled => phase'[e] = phase[e]]_vars

(* "Queued entries are intentionally preserved - they represent pending     *)
(* user work that should still execute after restart": although stale tasks *)
(* may never end, what waits is started or cleared.                         *)
QueuedIsServed ==
  \A e \in Entries : phase[e] = "queued" ~> phase[e] # "queued"

-----------------------------------------------------------------------------
(* The inductive invariant.  WellFormed speaks of a lane as pump() finds it. *)

Distinct(q) == \A i, j \in DOMAIN q : q[i] = q[j] => i = j

(* The queue holds the entries that wait, each once ...                      *)
Holds(q, p) == /\ Distinct(q)
               /\ \A e \in Entries : p[e] = "queued" <=> \E i \in DOMAIN q : q[i] = e

(* ... in the order they were pushed, behind all that have started.          *)
Ordered(q, p, t) ==
  /\ \A i, j \in DOMAIN q : i < j => t[q[i]] < t[q[j]]
  /\ \A e \in Entries : p[e] \in Started =>
       \A i \in DOMAIN q : t[e] < t[q[i]]

WellFormed(q, act, old, p, t, next) ==
  /\ Holds(q, p)
  /\ act = {e \in Entries : p[e] = "running"} \ old
  /\ old \subseteq {e \in Entries : p[e] = "running"}
  /\ Ordered(q, p, t)
  /\ \A e \in Entries : p[e] # "new" => t[e] <= next

IInv == /\ TypeOK
        /\ WellFormed(queue, activeTaskIds, stale, phase, ticket, nextTicket)
        /\ QueuedMeansFull
=============================================================================
