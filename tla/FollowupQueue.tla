--------------------------- MODULE FollowupQueue ---------------------------
(***************************************************************************)
(* The follow-up queue of auto-reply (src/auto-reply/reply/queue, with     *)
(* src/utils/queue-helpers.ts and the callers get-reply-run.ts and         *)
(* agent-runner.ts), for one session key.                                  *)
(*                                                                         *)
(* A message that arrives while an agent run of its session is active is   *)
(* put into the queue of the session; when the run has ended, a drain      *)
(* hands the queued messages to follow-up runs, one by one or collected    *)
(* into one prompt.  A queue is an object: clearing the session takes it   *)
(* out of FOLLOWUP_QUEUES while the drain that is at work keeps it, so     *)
(* several objects of the key may be alive, and the model names them.      *)
(***************************************************************************)
EXTENDS Integers, Sequences, FiniteSets, SequencesExt

CONSTANTS
    Count,      \* messages 1 .. Count, in the order of their arrival
    Route,      \* Route[m]: the channel, recipient and thread of m ("" = none)
    Id,         \* Id[m]: the provider's message id; equal for a redelivery
    Settings,   \* the queue settings a message may come with
    MaxQueues,  \* bound: queue objects made
    MaxClears,  \* bound: clears of the session's queues
    MaxThrows   \* bound: follow-up runs that reject, and main runs that throw

Msgs   == 1 .. Count
Queues == 1 .. MaxQueues
NoQueue == 0
Unroutable == "unroutable"

Modes == {"collect", "followup"}
Drops == {"summarize", "old", "new"}

ASSUME CountAssumption    == Count \in Nat
ASSUME RouteAssumption    == Route \in [Msgs -> STRING]
ASSUME IdAssumption       == DOMAIN Id = Msgs
ASSUME SettingsAssumption ==
    /\ Settings \subseteq [mode : Modes, cap : Nat \ {0}, drop : Drops]
    /\ Settings # {}
ASSUME BoundsAssumption   ==
    MaxQueues \in Nat /\ MaxClears \in Nat /\ MaxThrows \in Nat

VARIABLES
    map,        \* FOLLOWUP_QUEUES.get(key): a queue object or NoQueue
    made,       \* the number of queue objects made so far
    queue,      \* queue[i]: the fields of FollowupQueueState
    drain,      \* drain[i]: where the drain of queue i stands
    active,     \* an agent run of a message of its own is active
    ending,     \* main runs that are over and have not scheduled the drain yet
    fate,       \* history: what became of each message
    excused,    \* history: an overflow or a clear hit a queue in its drain,
                \* or a summary was handed out in place of an entry
    clears, throws

vars  == <<map, made, queue, drain, active, ending, fate, excused, clears, throws>>
store == [map |-> map, queue |-> queue, drain |-> drain]

Final == {"run", "failed", "listed", "discarded"}
Fates == {"new", "deciding", "queued"} \union Final

Queue == [items : Seq(Msgs), draining : BOOLEAN, mode : Modes, cap : Nat,
          drop : Drops, dropped : Nat, lines : Seq(Msgs), lastRun : BOOLEAN]

\* told: the messages whose prompt the follow-up run got; lines: the previews
\* of dropped messages it got; n: how many entries its end takes off the queue.
Drain == [pc : {"off", "wait", "run"}, told : Seq(Msgs), lines : Seq(Msgs),
          n : Nat, summary : BOOLEAN, force : BOOLEAN]

TypeOK ==
    /\ map \in {NoQueue} \union Queues
    /\ made \in 0 .. MaxQueues
    /\ queue \in [Queues -> Queue]
    /\ drain \in [Queues -> Drain]
    /\ \A i \in Queues : /\ queue[i].draining <=> drain[i].pc # "off"
                         /\ Len(queue[i].lines) <= queue[i].dropped
    /\ active \in BOOLEAN
    /\ ending \in Nat
    /\ fate \in [Msgs -> Fates]
    /\ excused \in BOOLEAN
    /\ clears \in 0 .. MaxClears /\ throws \in 0 .. MaxThrows

Off == [pc |-> "off", told |-> <<>>, lines |-> <<>>, n |-> 0,
        summary |-> FALSE, force |-> FALSE]
Created(s) == [items |-> <<>>, draining |-> FALSE, mode |-> s.mode, cap |-> s.cap,
               drop |-> s.drop, dropped |-> 0, lines |-> <<>>, lastRun |-> FALSE]

Init ==
    /\ map = NoQueue /\ made = 0
    /\ queue \in [Queues -> {Created(CHOOSE s \in Settings : TRUE)}]
    /\ drain = [i \in Queues |-> Off]
    /\ active = FALSE /\ ending = 0
    /\ fate = [m \in Msgs |-> "new"]
    /\ excused = FALSE /\ clears = 0 /\ throws = 0

-----------------------------------------------------------------------------
(* The drain as a function of map, queue and drain.                        *)

Idle(q) == q.items = <<>> /\ q.dropped = 0

Become(s) == map' = s.map /\ queue' = s.queue /\ drain' = s.drain

\* scheduleFollowupDrain: the drain of the key's queue starts unless it runs;
\* on an empty queue it is over at once and takes the key out of the map.
ScheduleDrain(s) ==
    IF s.map = NoQueue THEN s
    ELSE IF s.queue[s.map].draining THEN s
    ELSE IF Idle(s.queue[s.map]) THEN [s EXCEPT !.map = NoQueue]
    ELSE [s EXCEPT !.queue[s.map].draining = TRUE,
                   !.drain[s.map] = [Off EXCEPT !.pc = "wait"]]

\* Mutant: the drain ends without scheduling the next one.
FinallyWithoutSchedule(s, i) ==
    LET t == [s EXCEPT !.queue[i].draining = FALSE, !.drain[i] = Off]
    IN  IF Idle(t.queue[i]) THEN [t EXCEPT !.map = NoQueue] ELSE t

\* Mutant: draining is left set.
FinallyStillDraining(s, i) ==
    LET t == [s EXCEPT !.drain[i] = Off]
    IN  IF Idle(t.queue[i]) THEN [t EXCEPT !.map = NoQueue] ELSE ScheduleDrain(t)

\* The finally block of the drain of i: an empty queue takes the key out of
\* the map, whatever object the key leads to by now.
Finally(s, i) ==
    LET t == [s EXCEPT !.queue[i].draining = FALSE, !.drain[i] = Off]
    IN  IF Idle(t.queue[i]) THEN [t EXCEPT !.map = NoQueue] ELSE ScheduleDrain(t)

\* The head of the while loop.
LoopHead(s, i) ==
    IF Idle(s.queue[i])
    THEN Finally(s, i)
    ELSE [s EXCEPT !.drain[i] = [Off EXCEPT !.pc = "wait", !.force = s.drain[i].force]]

\* hasCrossChannelItems: several routes, a route among messages without one
\* (""), or a message whose channel no reply can be routed to.
IsCrossChannel(items) ==
    LET routes == {Route[items[k]] : k \in DOMAIN items}
    IN  Unroutable \in routes \/ Cardinality(routes) > 1

Summarizes(q) == q.drop = "summarize" /\ q.dropped > 0

-----------------------------------------------------------------------------
(* Messages and main runs.                                                 *)

RunIsActive == active \/ \E i \in Queues : drain[i].pc = "run"

\* getReplyRun reads isActive, then awaits the auth profile (get-reply-run.ts).
Arrive(m) ==
    /\ fate[m] = "new"
    /\ \A k \in 1 .. m - 1 : fate[k] # "new"
    /\ IF RunIsActive
       THEN fate' = [fate EXCEPT ![m] = "deciding"] /\ UNCHANGED active
       ELSE fate' = [fate EXCEPT ![m] = "run"] /\ active' = TRUE
    /\ UNCHANGED <<map, made, queue, drain, ending, excused, clears, throws>>

\* isRunAlreadyQueued, dedupe mode "message-id".
AlreadyQueued(m, items) ==
    \E k \in DOMAIN items : Id[items[k]] = Id[m] /\ Route[items[k]] = Route[m]

\* Mutant: one entry more is previewed than is dropped.
DropOldestPreviewsOneMore(q) ==
    LET over == Len(q.items) - q.cap + 1
        all  == q.lines \o SubSeq(q.items, 1, over + 1)
        kept == [q EXCEPT !.items = SubSeq(@, over + 1, Len(@))]
    IN  IF q.drop # "summarize" THEN kept
        ELSE [kept EXCEPT !.dropped = @ + over + 1,
                          !.lines = SubSeq(all, 1 + (IF Len(all) > q.cap THEN Len(all) - q.cap ELSE 0), Len(all))]

\* applyQueueDropPolicy of a queue that is at its cap, policy "old" or "summarize".
DropOldest(q) ==
    LET over == Len(q.items) - q.cap + 1
        cut  == SubSeq(q.items, 1, over)
        kept == [q EXCEPT !.items = SubSeq(@, over + 1, Len(@))]
        all  == q.lines \o cut
    IN  IF q.drop # "summarize" THEN kept
        ELSE [kept EXCEPT !.dropped = @ + over,
                          !.lines = SubSeq(all, 1 + (IF Len(all) > q.cap THEN Len(all) - q.cap ELSE 0), Len(all))]

\* The messages an overflow takes from the queue for good: not even previewed.
Forgotten(q, after) ==
    (ToSet(q.items) \union ToSet(q.lines)) \ (ToSet(after.items) \union ToSet(after.lines))

\* enqueueFollowupRun, called once the awaits after isActive are over.
Enqueue(m, s) ==
    /\ fate[m] = "deciding"
    /\ map = NoQueue => made < MaxQueues
    /\ LET i == IF map = NoQueue THEN made + 1 ELSE map
           q == IF map = NoQueue THEN Created(s)
                ELSE [queue[map] EXCEPT !.mode = s.mode, !.cap = s.cap, !.drop = s.drop]
           full == Len(q.items) >= q.cap
           room == IF full THEN DropOldest(q) ELSE q
       IN  /\ map' = i
           /\ made' = IF map = NoQueue THEN i ELSE made
           /\ IF AlreadyQueued(m, q.items)
              THEN /\ queue' = [queue EXCEPT ![i] = q]
                   /\ fate' = [fate EXCEPT ![m] = "discarded"]
                   /\ UNCHANGED excused
              ELSE IF full /\ q.drop = "new"
              THEN /\ queue' = [queue EXCEPT ![i] = [q EXCEPT !.lastRun = TRUE]]
                   /\ fate' = [fate EXCEPT ![m] = "discarded"]
                   /\ UNCHANGED excused
              ELSE /\ queue' = [queue EXCEPT ![i] = [room EXCEPT
                                  !.items = Append(@, m), !.lastRun = TRUE]]
                   /\ fate' = [k \in Msgs |->
                                 IF k = m THEN "queued"
                                 ELSE IF k \in Forgotten(q, room) THEN "discarded"
                                 ELSE fate[k]]
                   /\ excused' = (excused \/ (full /\ drain[i].pc = "run"))
    /\ UNCHANGED <<drain, active, ending, clears, throws>>

\* The embedded run leaves ACTIVE_EMBEDDED_RUNS; runReplyAgent goes on.
MainRunEnds ==
    /\ active
    /\ active' = FALSE /\ ending' = ending + 1
    /\ UNCHANGED <<map, made, queue, drain, fate, excused, clears, throws>>

\* runReplyAgent returns through finalizeWithFollowup.
Finalize ==
    /\ ending > 0
    /\ ending' = ending - 1
    /\ Become(ScheduleDrain(store))
    /\ UNCHANGED <<made, active, fate, excused, clears, throws>>

\* runReplyAgent throws: its finally block does not schedule the drain.
MainRunThrows ==
    /\ ending > 0 /\ throws < MaxThrows
    /\ ending' = ending - 1 /\ throws' = throws + 1
    /\ UNCHANGED <<map, made, queue, drain, active, fate, excused, clears>>

-----------------------------------------------------------------------------
(* The drain.                                                              *)

\* Mutant: the key is given up when its messages are handed out.
StartForgetsKey(s, i, d) ==
    Become([s EXCEPT !.map = NoQueue, !.drain[i] = [d EXCEPT !.pc = "run"]])

Start(s, i, d) ==
    Become([s EXCEPT !.drain[i] = [d EXCEPT !.pc = "run"]])

\* The debounce is over and the queue is in collect mode.
DrainCollect(i) ==
    LET q     == queue[i]
        cross == IsCrossChannel(q.items)
        force == drain[i].force \/ cross
        base  == [Off EXCEPT !.force = force]
    IN  /\ drain[i].pc = "wait" /\ q.mode = "collect"
        /\ IF force
           THEN IF q.items = <<>>
                THEN Become(Finally(store, i))
                ELSE Start(store, i, [base EXCEPT !.told = <<Head(q.items)>>, !.n = 1])
           ELSE IF q.items = <<>> /\ ~q.lastRun
                THEN Become(Finally(store, i))
                ELSE Start(store, i, [base EXCEPT
                       !.told = q.items, !.n = Len(q.items), !.summary = Summarizes(q),
                       !.lines = IF Summarizes(q) THEN q.lines ELSE <<>>])
        /\ UNCHANGED <<made, active, ending, fate, excused, clears, throws>>

\* The debounce is over and the queue hands out one entry at a time.  With
\* dropped messages the run gets the summary in place of the first entry.
DrainNext(i) ==
    LET q    == queue[i]
        base == [Off EXCEPT !.force = drain[i].force, !.n = 1]
    IN  /\ drain[i].pc = "wait" /\ q.mode # "collect"
        /\ IF q.items = <<>>
           THEN Become(Finally(store, i))
           ELSE Start(store, i,
                  IF Summarizes(q)
                  THEN [base EXCEPT !.summary = TRUE, !.lines = q.lines]
                  ELSE [base EXCEPT !.told = <<Head(q.items)>>])
        /\ excused' = (excused \/ (q.items # <<>> /\ Summarizes(q)))
        /\ UNCHANGED <<made, active, ending, fate, clears, throws>>

\* Mutant: a collected batch leaves the queue but for its last entry.
FollowupEndsOneShort(i, outcome) ==
    LET d == drain[i]
        n == IF d.n > 1 THEN d.n - 1 ELSE d.n
        rest == [queue[i] EXCEPT !.items = SubSeq(@, n + 1, Len(@))]
        after == IF d.summary THEN [rest EXCEPT !.dropped = 0, !.lines = <<>>] ELSE rest
    IN  /\ d.pc = "run"
        /\ fate' = [m \in Msgs |->
                      IF m \in ToSet(d.told) THEN outcome
                      ELSE IF m \in ToSet(d.lines) THEN "listed" ELSE fate[m]]
        /\ Become(LoopHead([store EXCEPT !.queue[i] = after], i))
        /\ UNCHANGED <<made, active, ending, excused, clears, throws>>

\* runFollowup resolves, with the agent's answer or, its error caught by the
\* runner, without: as many entries as the run was given leave the queue.
FollowupEnds(i, outcome) ==
    LET d == drain[i]
        q == queue[i]
        rest == [q EXCEPT !.items = SubSeq(@, d.n + 1, Len(@))]
        after == IF d.summary THEN [rest EXCEPT !.dropped = 0, !.lines = <<>>] ELSE rest
    IN  /\ d.pc = "run"
        /\ fate' = [m \in Msgs |->
                      IF m \in ToSet(d.told) THEN outcome
                      ELSE IF m \in ToSet(d.lines) THEN "listed" ELSE fate[m]]
        /\ Become(LoopHead([store EXCEPT !.queue[i] = after], i))
        /\ UNCHANGED <<made, active, ending, excused, clears, throws>>

\* Mutant: the entries of a run that rejects are taken off as well.
FollowupThrowsAway(i) ==
    /\ drain[i].pc = "run" /\ throws < MaxThrows
    /\ throws' = throws + 1
    /\ Become(Finally([store EXCEPT !.queue[i].items =
                         SubSeq(@, drain[i].n + 1, Len(@))], i))
    /\ UNCHANGED <<made, active, ending, fate, excused, clears>>

\* runFollowup rejects: the drain stops and a new one is scheduled.
FollowupThrows(i) ==
    /\ drain[i].pc = "run" /\ throws < MaxThrows
    /\ throws' = throws + 1
    /\ Become(Finally(store, i))
    /\ UNCHANGED <<made, active, ending, fate, excused, clears>>

\* clearFollowupQueue: the object is emptied and taken out of the map.
Clear ==
    /\ map # NoQueue /\ clears < MaxClears
    /\ clears' = clears + 1
    /\ map' = NoQueue
    /\ queue' = [queue EXCEPT ![map] = [@ EXCEPT !.items = <<>>, !.dropped = 0,
                                                 !.lines = <<>>, !.lastRun = FALSE]]
    /\ fate' = [m \in Msgs |->
                  IF m \in ToSet(queue[map].items) \union ToSet(queue[map].lines)
                  THEN "discarded" ELSE fate[m]]
    /\ excused' = (excused \/ queue[map].draining)
    /\ UNCHANGED <<made, drain, active, ending, throws>>

-----------------------------------------------------------------------------
Next ==
    \/ \E m \in Msgs : Arrive(m)
    \/ \E m \in Msgs, s \in Settings : Enqueue(m, s)
    \/ MainRunEnds \/ Finalize \/ MainRunThrows
    \/ \E i \in Queues : DrainCollect(i)
    \/ \E i \in Queues : DrainNext(i)
    \/ \E i \in Queues, outcome \in {"run", "failed"} : FollowupEnds(i, outcome)
    \/ \E i \in Queues : FollowupThrows(i)
    \/ Clear

\* Runs end (they have a timeout), a debounce passes, and what is awaited
\* between two steps of one call resolves.
Fairness ==
    /\ WF_vars(MainRunEnds) /\ WF_vars(Finalize)
    /\ \A m \in Msgs : WF_vars(\E s \in Settings : Enqueue(m, s))
    /\ \A i \in Queues :
         /\ WF_vars(DrainCollect(i) \/ DrainNext(i))
         /\ WF_vars(\E outcome \in {"run", "failed"} : FollowupEnds(i, outcome))

Spec     == Init /\ [][Next]_vars
FairSpec == Spec /\ Fairness
-----------------------------------------------------------------------------
(* Properties.                                                             *)

\* Where the drain of a live queue, or the next one to be scheduled, finds m.
Reachable(m) ==
    \E i \in Queues : /\ i = map \/ queue[i].draining
                      /\ m \in ToSet(queue[i].items) \union ToSet(queue[i].lines)

\* A message that was queued is still in a queue that is or can be drained,
\* or is previewed in its summary, until a run got it: failed and retried
\* runs, redeliveries and changed settings lose none.  Only an overflow that
\* hits a run in progress, a summary handed out in place of an entry, or a
\* clear of a queue in its drain may: drain.ts takes entries off by position
\* and queues out of the map by key, after an await.
LossNeedsRace ==
    ~excused => \A m \in Msgs : fate[m] = "queued" => Reachable(m)

\* Without a clear one follow-up run of the session is in progress at a time,
\* however often main runs end and drains reject and are scheduled again.
OneRunPerKey ==
    clears = 0 => \A i, j \in Queues :
                     drain[i].pc = "run" /\ drain[j].pc = "run" => i = j

\* Nothing happens to a message twice until a race is excused: one that a run
\* got is not previewed in a later summary, one that was previewed is not run,
\* and one that was refused, forgotten or cleared is neither, whatever is
\* dropped, redelivered or rejected meanwhile.
AnsweredOnce ==
    [][~excused' => \A m \in Msgs : fate[m] \in Final => fate'[m] = fate[m]]_vars

\* A follow-up run is started only with messages that wait for one: none that
\* a run has dealt with before, and none that was cleared or dropped.
OnlyQueuedIsRun ==
    [][\A i \in Queues : drain[i].pc = "wait" /\ drain'[i].pc = "run" =>
          \A m \in ToSet(drain'[i].told) : fate[m] = "queued"]_vars

\* A queue that is being drained is emptied, whatever rejects and whatever is
\* enqueued meanwhile: a drain that stops is followed by another.  (After a
\* clear of a queue in its drain the next may lose its key to the old drain.)
DrainedIsServed ==
    \A i \in Queues : (queue[i].draining /\ queue[i].items # <<>>)
                        ~> (queue[i].items = <<>> \/ excused)

\* docs/concepts/queue.md: what an overflow drops is put into a summary that
\* is injected as a follow-up prompt; nothing else of a queue is lost.
QueuedIsKept ==
    \A m \in Msgs : fate[m] = "queued" => Reachable(m)

-----------------------------------------------------------------------------
(* The inductive invariant (FollowupQueueProofs).                          *)

\* The messages that queue q, its drain d or the run it awaits know of.
Held(q, d) == ToSet(q.items) \union ToSet(q.lines)
                \union ToSet(d.told) \union ToSet(d.lines)

\* What a queue q and its drain d owe to each other and to the fates f: the
\* entries wait for a run, and those that the end of the run in progress
\* leaves are none that it was given.
Sound(q, d, f) ==
    /\ IsInjective(q.items)
    /\ ToSet(q.items) \intersect ToSet(q.lines) = {}
    /\ \A m \in ToSet(q.items) : f[m] = "queued"
    /\ \A m \in Held(q, d) : f[m] \notin {"new", "deciding"}
    /\ \A k \in DOMAIN q.items : k > d.n => q.items[k] \notin ToSet(d.told)
    /\ ToSet(q.items) \intersect ToSet(d.lines) = {}
    /\ d.pc # "run" => d.told = <<>> /\ d.lines = <<>>

\* The run in progress has what its end takes off the queue.
InStep(q, d) ==
    d.pc = "run" =>
        /\ d.n <= Len(q.items)
        /\ d.told = SubSeq(q.items, 1, d.n)
        /\ d.summary => d.lines = q.lines

\* Only the key's own queue is drained, until a clear hits one in its drain.
KeyOwnsDrain == clears = 0 \/ ~excused =>
                    \A i \in Queues : drain[i].pc # "off" => i = map

MadeInOrder == map <= made /\ \A i \in Queues : i > made => drain[i].pc = "off"

Apart == \A i, j \in Queues : i # j =>
            Held(queue[i], drain[i]) \intersect Held(queue[j], drain[j]) = {}

\* The queued messages are in the queue the key leads to.
KeyHasQueued ==
    ~excused => \A m \in Msgs : fate[m] = "queued" =>
                   /\ map # NoQueue
                   /\ m \in ToSet(queue[map].items) \union ToSet(queue[map].lines)

IInv == /\ TypeOK
        /\ MadeInOrder
        /\ KeyOwnsDrain
        /\ \A i \in Queues : Sound(queue[i], drain[i], fate)
        /\ Apart
        /\ ~excused => \A i \in Queues : InStep(queue[i], drain[i])
        /\ KeyHasQueued
=============================================================================
