--------------------------- MODULE LaneRefinement ---------------------------
(***************************************************************************)
(* Every lane of SessionLanes is a CommandQueue.  Bursts that touch several *)
(* lanes, and the restart, do to each single lane one operation of          *)
(* command-queue.ts, or nothing: what CommandQueueProofs proves of a queue  *)
(* holds of every session lane and of every global lane.                   *)
(***************************************************************************)
EXTENDS SessionLanesProofs

CONSTANT lane       (* any of the lanes *)

L == INSTANCE CommandQueueProofs WITH
  Entries <- RunsOf(lane),
  queue <- queue[lane], activeTaskIds <- activeTaskIds[lane],
  maxConcurrent <- maxConcurrent[lane], stale <- stale[lane],
  phase <- [r \in RunsOf(lane) |-> phase[lane][r]],
  ticket <- [r \in RunsOf(lane) |-> ticket[lane][r]],
  nextTicket <- nextTicket[lane]

(* The lane's phases after pushing N when they were p. *)
PushedPhases(N, p) ==
  [e \in RunsOf(lane) |-> IF e \in AsSet(N) THEN "queued" ELSE p[lane][e]]

(* The phases p of the runs of the lane. *)
PhasesHere(p) == [r \in RunsOf(lane) |-> p[lane][r]]

(* Pushing N on the lane, and pump(). *)
PushHere(N, act, max, p) ==
  /\ L!Pump(queue[lane] \o N, act[lane], max[lane], PushedPhases(N, p))
  /\ L!Numbered(N)

(* pump() on the lane as it stands. *)
PumpHere(act, max, p) == L!Pump(queue[lane], act[lane], max[lane], PhasesHere(p))

(* The queue's operators are those of this module: FirstOf is defined in    *)
(* both, and Cardinality reaches the instance as an operator of its own.    *)
LEMMA SameOperators ==
  /\ \A S : L!Cardinality(S) = Cardinality(S)
  /\ \A S : L!IsFiniteSet(S) = IsFiniteSet(S)
  /\ \A q, k : L!FirstOf(q, k) = FirstOf(q, k)
  /\ \A q : L!Distinct(q) <=> Distinct(q)
<1>1. ASSUME NEW S PROVE L!Cardinality(S) = Cardinality(S)
  BY DEF Cardinality, L!Cardinality
<1>2. ASSUME NEW S PROVE L!IsFiniteSet(S) = IsFiniteSet(S)
  BY DEF IsFiniteSet, L!IsFiniteSet
<1>3. ASSUME NEW q, NEW k PROVE L!FirstOf(q, k) = FirstOf(q, k)
  BY DEF FirstOf, L!FirstOf
<1>4. ASSUME NEW q PROVE L!Distinct(q) <=> Distinct(q)
  BY DEF Distinct, L!Distinct
<1> QED
  BY <1>1, <1>2, <1>3, <1>4

(* PushAndPump does with a lane it pumps what pump() does ...               *)
LEMMA PumpedLane ==
  ASSUME lane \in Lanes, NEW act, NEW old, NEW max, NEW p, NEW new, NEW drained,
         LanesTyped(queue, act, old, max, p),
         PushAndPump(new, queue, act, max, p, drained),
         lane \in drained \/ new[lane] # <<>> \/ queue[lane] = <<>>
  PROVE  /\ PushHere(new[lane], act, max, p)
         /\ maxConcurrent'[lane] = max[lane]
<1> DEFINE n == Taken(queue[lane] \o new[lane], act[lane], max[lane])
<1>1. \A r \in RunsOf(lane) : r \in Runs
  BY DEF RunsOf
<1> DEFINE k == IF lane \in drained \/ new[lane] # <<>> THEN n ELSE 0
<1>0. k = n
  <2>1. CASE lane \in drained \/ new[lane] # <<>>
    BY <2>1
  <2>2. CASE new[lane] = <<>> /\ queue[lane] = <<>>
    <3>1. Taken(<<>>, act[lane], max[lane]) = 0
      <4>1. max[lane] \in Nat \ {0} /\ act[lane] \in SUBSET Runs
        BY LimitsAssumption DEF LanesTyped
      <4>2. Cardinality(act[lane]) \in Nat
        BY <4>1, LanesAssumption, FS_Subset, FS_CardinalityType
      <4>3. Len(<<>>) = 0
        OBVIOUS
      <4> QED
        BY <4>1, <4>2, <4>3 DEF Taken
    <3>2. <<>> \o <<>> = <<>>
      OBVIOUS
    <3> QED
      BY <2>2, <3>1, <3>2
  <2> QED
    BY <2>1, <2>2
<1>2. /\ queue'[lane] = SubSeq(queue[lane] \o new[lane], n + 1, Len(queue[lane] \o new[lane]))
      /\ activeTaskIds'[lane] = act[lane] \cup FirstOf(queue[lane] \o new[lane], n)
      /\ maxConcurrent'[lane] = max[lane]
      /\ \A r \in Runs : phase'[lane][r] =
           IF r \in FirstOf(queue[lane] \o new[lane], n) THEN "running"
           ELSE IF r \in AsSet(new[lane]) THEN "queued" ELSE p[lane][r]
  <2> DEFINE all == queue[lane] \o new[lane]
  <2>1. /\ queue'[lane] = SubSeq(all, k + 1, Len(all))
        /\ activeTaskIds'[lane] = act[lane] \cup FirstOf(all, k)
        /\ maxConcurrent'[lane] = max[lane]
        /\ \A r \in Runs : phase'[lane][r] =
             IF r \in FirstOf(all, k) THEN "running"
             ELSE IF r \in AsSet(new[lane]) THEN "queued" ELSE p[lane][r]
    BY DEF PushAndPump
  <2> HIDE DEF k, all
  <2>2. /\ queue'[lane] = SubSeq(all, n + 1, Len(all))
        /\ activeTaskIds'[lane] = act[lane] \cup FirstOf(all, n)
        /\ maxConcurrent'[lane] = max[lane]
        /\ \A r \in Runs : phase'[lane][r] =
             IF r \in FirstOf(all, n) THEN "running"
             ELSE IF r \in AsSet(new[lane]) THEN "queued" ELSE p[lane][r]
    <3> HIDE DEF n
    <3> QED
      BY <1>0, <2>1
  <2> QED
    BY <2>2 DEF all
<1>3. /\ nextTicket'[lane] = nextTicket[lane] + Len(new[lane])
      /\ \A r \in Runs : ticket'[lane][r] =
           IF r \in AsSet(new[lane])
             THEN nextTicket[lane] + (CHOOSE i \in DOMAIN new[lane] : new[lane][i] = r)
             ELSE ticket[lane][r]
  BY DEF PushAndPump
<1>4. n = L!Startable(Len(queue[lane] \o new[lane]), Cardinality(act[lane]), max[lane])
  BY DEF Taken, L!Startable
<1>5. \A q, m : L!FirstOf(q, m) = FirstOf(q, m)
  BY SameOperators
<1> HIDE DEF n
<1>6. L!Pump(queue[lane] \o new[lane], act[lane], max[lane], PushedPhases(new[lane], p))
  <2>1. \A r \in RunsOf(lane) :
          phase'[lane][r] = IF r \in FirstOf(queue[lane] \o new[lane], n) THEN "running"
                            ELSE PushedPhases(new[lane], p)[r]
    BY <1>1, <1>2 DEF PushedPhases
  <2> DEFINE all == queue[lane] \o new[lane]
  <2>2. /\ queue'[lane] = SubSeq(all, n + 1, Len(all))
        /\ activeTaskIds'[lane] = act[lane] \cup L!FirstOf(all, n)
        /\ n = L!Startable(Len(all), Cardinality(act[lane]), max[lane])
        /\ \A r \in RunsOf(lane) :
             phase'[lane][r] = IF r \in L!FirstOf(all, n) THEN "running"
                               ELSE PushedPhases(new[lane], p)[r]
    BY <1>2, <1>4, <1>5, <2>1
  <2> DEFINE a == act[lane]
             m == max[lane]
             P == PushedPhases(new[lane], p)
  <2> HIDE DEF all, a, m, P
  <2>3. L!Pump(all, a, m, P)
    <3>1. (queue[lane])' = SubSeq(all, L!Startable(Len(all), L!Cardinality(a), m) + 1, Len(all))
      BY <2>2, SameOperators DEF a, m
    <3>2. (activeTaskIds[lane])' =
             a \cup L!FirstOf(all, L!Startable(Len(all), L!Cardinality(a), m))
      BY <2>2, SameOperators DEF a, m
    <3>3. [r \in RunsOf(lane) |-> phase[lane][r]]' =
             [r \in RunsOf(lane) |->
               IF r \in L!FirstOf(all, L!Startable(Len(all), L!Cardinality(a), m))
                 THEN "running" ELSE P[r]]
      BY <2>2, SameOperators DEF a, m, P
    <3> QED
      BY <3>1, <3>2, <3>3 DEF L!Pump
  <2> QED
    BY <2>3 DEF all, a, m, P
<1>7. L!Numbered(new[lane])
  BY <1>1, <1>3, <1>5 DEF L!Numbered, AsSet
<1> QED
  BY <1>2, <1>6, <1>7 DEF PushHere

(* ... and leaves the others alone. *)
LEMMA OtherLane ==
  ASSUME lane \in Lanes, NEW act, NEW old, NEW max, NEW p, NEW new, NEW drained,
         LanesTyped(queue, act, old, max, p), nextTicket \in [Lanes -> Nat],
         PushAndPump(new, queue, act, max, p, drained),
         lane \notin drained, new[lane] = <<>>
  PROVE  /\ queue'[lane] = queue[lane]
         /\ activeTaskIds'[lane] = act[lane]
         /\ maxConcurrent'[lane] = max[lane]
         /\ \A r \in Runs : phase'[lane][r] = p[lane][r]
         /\ \A r \in Runs : ticket'[lane][r] = ticket[lane][r]
         /\ nextTicket'[lane] = nextTicket[lane]
<1>1. queue[lane] \in Seq(Runs)
  BY DEF LanesTyped
<1>2. AsSet(<<>>) = {} /\ FirstOf(queue[lane] \o <<>>, 0) = {}
  <2>1. 1..0 = {} /\ Len(<<>>) = 0
    OBVIOUS
  <2> QED
    BY <2>1 DEF AsSet, FirstOf
<1>3. queue'[lane] = SubSeq(queue[lane] \o <<>>, 0 + 1, Len(queue[lane] \o <<>>))
  BY DEF PushAndPump
<1>4. queue'[lane] = queue[lane]
  BY <1>1, <1>3, ConcatEmptySeq, SubSeqFull
<1>5. /\ activeTaskIds'[lane] = act[lane] \cup FirstOf(queue[lane] \o <<>>, 0)
      /\ maxConcurrent'[lane] = max[lane]
      /\ \A r \in Runs : phase'[lane][r] =
           IF r \in FirstOf(queue[lane] \o <<>>, 0) THEN "running"
           ELSE IF r \in AsSet(<<>>) THEN "queued" ELSE p[lane][r]
  BY DEF PushAndPump
<1>6. /\ nextTicket'[lane] = nextTicket[lane] + Len(<<>>)
      /\ \A r \in Runs : r \notin AsSet(<<>>) => ticket'[lane][r] = ticket[lane][r]
  BY DEF PushAndPump
<1> QED
  BY <1>2, <1>4, <1>5, <1>6

-----------------------------------------------------------------------------
(* What happens to the lane *)

(* The lane is as it was before the step. *)
AsBefore(act, max, p) ==
  /\ act[lane] = activeTaskIds[lane] /\ max[lane] = maxConcurrent[lane]
  /\ \A r \in Runs : p[lane][r] = phase[lane][r]

(* Nothing happens to the lane. *)
Idle == /\ queue'[lane] = queue[lane]
        /\ activeTaskIds'[lane] = activeTaskIds[lane]
        /\ maxConcurrent'[lane] = maxConcurrent[lane]
        /\ stale'[lane] = stale[lane]
        /\ \A r \in Runs : phase'[lane][r] = phase[lane][r]
        /\ \A r \in Runs : ticket'[lane][r] = ticket[lane][r]
        /\ nextTicket'[lane] = nextTicket[lane]

LEMMA IdleIsStutter == Idle => UNCHANGED L!vars
<1> SUFFICES ASSUME Idle PROVE UNCHANGED L!vars
  OBVIOUS
<1>1. RunsOf(lane) \subseteq Runs
  BY DEF RunsOf
<1>2. /\ [r \in RunsOf(lane) |-> phase[lane][r]]' = [r \in RunsOf(lane) |-> phase[lane][r]]
      /\ [r \in RunsOf(lane) |-> ticket[lane][r]]' = [r \in RunsOf(lane) |-> ticket[lane][r]]
  BY <1>1 DEF Idle
<1> QED
  BY <1>2 DEF Idle, L!vars

LEMMA QueuedIsPushed ==
  ASSUME NEW act, NEW max, NEW p, AsBefore(act, max, p), NEW N
  PROVE  L!Queued(N) = PushedPhases(N, p)
<1>1. RunsOf(lane) \subseteq Runs
  BY DEF RunsOf
<1>2. \A q, k : L!FirstOf(q, k) = FirstOf(q, k)
  BY SameOperators
<1> QED
  BY <1>1, <1>2 DEF L!Queued, PushedPhases, AsBefore, AsSet

(* Pushing at most one run on a lane that is not pumped otherwise.          *)
LEMMA EnqueueOrNothing ==
  ASSUME lane \in Lanes, NEW act, NEW old, NEW max, NEW p, NEW new, NEW drained,
         LanesTyped(queue, act, old, max, p), nextTicket \in [Lanes -> Nat],
         Pushable(new, p), PushAndPump(new, queue, act, max, p, drained),
         AsBefore(act, max, p), stale'[lane] = stale[lane],
         lane \in drained => new[lane] # <<>>,
         \A a, b \in AsSet(new[lane]) : a = b
  PROVE  L!Next \/ UNCHANGED L!vars
<1>1. CASE new[lane] = <<>>
  <2>1. Idle
    BY <1>1, OtherLane DEF AsBefore, Idle
  <2> QED
    BY <2>1, IdleIsStutter
<1>2. CASE new[lane] # <<>>
  <2>1. new[lane] \in Seq(Runs) /\ Distinct(new[lane])
    BY DEF Pushable
  <2>2. PICK a : a \in RunsOf(lane) /\ p[lane][a] = "new" /\ new[lane] = <<a>>
    <3> DEFINE N == new[lane]
    <3>0. N \in Seq(Runs) /\ N # <<>> /\ Distinct(N) /\ \A a, b \in AsSet(N) : a = b
      BY <1>2, <2>1
    <3>1. \A r \in AsSet(N) : r \in RunsOf(lane) /\ p[lane][r] = "new"
      BY DEF Pushable
    <3> HIDE DEF N
    <3>2. Len(N) \in Nat /\ Len(N) # 0 /\ DOMAIN N = 1..Len(N)
      BY <3>0, LenProperties, EmptySeq
    <3>3. \A i \in 1..Len(N) : N[i] \in AsSet(N)
      BY DEF AsSet, FirstOf
    <3>4. Len(N) = 1
      <4>1. 1 \in 1..Len(N) /\ Len(N) \in 1..Len(N)
        BY <3>2
      <4>2. N[1] = N[Len(N)]
        BY <3>0, <3>3, <4>1
      <4> QED
        BY <3>0, <3>2, <4>1, <4>2 DEF Distinct
    <3>5. N = <<N[1]>>
      BY <3>0, <3>4
    <3>6. N[1] \in AsSet(N)
      BY <3>3, <3>4
    <3> QED
      BY <3>1, <3>5, <3>6 DEF N
  <2>3. /\ L!Pump(queue[lane] \o <<a>>, act[lane], max[lane], PushedPhases(<<a>>, p))
        /\ L!Numbered(<<a>>)
        /\ maxConcurrent'[lane] = max[lane]
    <3>1. PushHere(<<a>>, act, max, p) /\ maxConcurrent'[lane] = max[lane]
      BY <1>2, <2>2, PumpedLane
    <3> QED
      BY <3>1 DEF PushHere
  <2>4. queue[lane] \o <<a>> = Append(queue[lane], a)
    <3>1. queue[lane] \in Seq(Runs)
      BY DEF LanesTyped
    <3> QED
      BY <3>1
  <2>5. a \in L!Fresh
    <3>1. a \in Runs
      BY <2>2 DEF RunsOf
    <3> QED
      BY <2>2, <3>1 DEF L!Fresh, AsBefore
  <2>6. L!Queued(<<a>>) = PushedPhases(<<a>>, p)
    BY QueuedIsPushed
  <2>7. L!Pump(Append(queue[lane], a), activeTaskIds[lane], maxConcurrent[lane],
               L!Queued(<<a>>))
    <3> DEFINE longer == Append(queue[lane], a)
               pushed == PushedPhases(<<a>>, p)
    <3>1. act[lane] = activeTaskIds[lane] /\ max[lane] = maxConcurrent[lane]
      BY DEF AsBefore
    <3>2. L!Pump(longer, act[lane], max[lane], pushed)
      BY <2>3, <2>4
    <3>3. pushed = L!Queued(<<a>>)
      BY <2>6
    <3> HIDE DEF longer, pushed
    <3>4. L!Pump(longer, activeTaskIds[lane], maxConcurrent[lane], pushed)
      BY <3>1, <3>2 DEF L!Pump
    <3>5. L!Pump(longer, activeTaskIds[lane], maxConcurrent[lane], L!Queued(<<a>>))
      BY <3>3, <3>4 DEF L!Pump
    <3> QED
      BY <3>5 DEF longer
  <2>8. L!Enqueue(a)
    BY <2>3, <2>5, <2>7 DEF L!Enqueue, AsBefore
  <2> QED
    BY <2>2, <2>8 DEF L!Next
<1> QED
  BY <1>1, <1>2

(* Pumping the lane when nothing is pushed on it.                           *)
LEMMA PumpedAlone ==
  ASSUME lane \in Lanes, NEW act, NEW old, NEW max, NEW p, NEW new, NEW drained,
         LanesTyped(queue, act, old, max, p), nextTicket \in [Lanes -> Nat],
         PushAndPump(new, queue, act, max, p, drained),
         lane \in drained, new[lane] = <<>>
  PROVE  /\ PumpHere(act, max, p)
         /\ maxConcurrent'[lane] = max[lane]
         /\ \A r \in Runs : ticket'[lane][r] = ticket[lane][r]
         /\ nextTicket'[lane] = nextTicket[lane]
<1>1. AsSet(<<>>) = {}
  <2>1. 1..0 = {} /\ Len(<<>>) = 0
    OBVIOUS
  <2> QED
    BY <2>1 DEF AsSet, FirstOf
<1>2. /\ L!Pump(queue[lane] \o <<>>, act[lane], max[lane], PushedPhases(<<>>, p))
      /\ maxConcurrent'[lane] = max[lane]
  <2>1. PushHere(<<>>, act, max, p) /\ maxConcurrent'[lane] = max[lane]
    BY PumpedLane
  <2> QED
    BY <2>1 DEF PushHere
<1>3. PumpHere(act, max, p)
  <2> DEFINE all == queue[lane] \o <<>>
             pushed == PushedPhases(<<>>, p)
  <2>1. L!Pump(all, act[lane], max[lane], pushed)
    BY <1>2
  <2>2. all = queue[lane]
    BY ConcatEmptySeq DEF LanesTyped
  <2>3. pushed = PhasesHere(p)
    BY <1>1 DEF PushedPhases, PhasesHere
  <2> HIDE DEF all, pushed
  <2> QED
    BY <2>1, <2>2, <2>3 DEF PumpHere, L!Pump
<1>4. /\ \A r \in Runs : r \notin AsSet(<<>>) => ticket'[lane][r] = ticket[lane][r]
      /\ nextTicket'[lane] = nextTicket[lane] + Len(<<>>)
  BY DEF PushAndPump
<1> QED
  BY <1>1, <1>2, <1>3, <1>4

AtMostOne(S) == \A a, b \in S : a = b

(* A burst that drains at most one session lane pushes at most one run on   *)
(* each global lane, and none if it drains no session lane.                 *)
LEMMA FewArrive ==
  ASSUME NEW push, NEW q, NEW act, NEW old, NEW max, NEW p, NEW drained, NEW new,
         WellFormed(q, act, old, max, p),
         BurstPushes(new, push, q, act, max, p, drained),
         NEW g \in Globals
  PROVE  /\ AtMostOne(Sessions \cap drained) => AtMostOne(AsSet(new[g]))
         /\ Sessions \cap drained = {} => new[g] = <<>>
<1>1. /\ Pushable(new, p) /\ LanesTyped(q, act, old, max, p) /\ OnePerSession(act, max)
      /\ g \in Lanes
  BY DEF BurstPushes, WellFormed, Lanes
<1>2. ASSUME NEW r \in AsSet(new[g])
      PROVE  /\ SessionOf[r] \in Sessions \cap drained
             /\ r \in StartedOn(SessionOf[r], new, q, act, max, drained)
  <2>1. r \in RunsOf(g)
    BY <1>1 DEF Pushable
  <2>2. r \in Runs /\ GlobalOf[r] = g /\ SessionOf[r] \in Sessions
    BY <2>1, LanesAssumption DEF RunsOf
  <2> QED
    BY <2>2 DEF BurstPushes
<1>3. ASSUME AtMostOne(Sessions \cap drained),
             NEW a \in AsSet(new[g]), NEW b \in AsSet(new[g])
      PROVE  a = b
  <2>1. PICK s \in Sessions : /\ a \in StartedOn(s, new, q, act, max, drained)
                              /\ b \in StartedOn(s, new, q, act, max, drained)
    BY <1>2, <1>3 DEF AtMostOne
  <2> QED
    BY <1>1, <2>1, SessionTakesOne
<1>4. ASSUME Sessions \cap drained = {}
      PROVE  new[g] = <<>>
  <2>1. AsSet(new[g]) = {} /\ new[g] \in Seq(Runs)
    BY <1>1, <1>2, <1>4 DEF Pushable
  <2>2. \A i \in 1..Len(new[g]) : FALSE
    BY <2>1 DEF AsSet, FirstOf
  <2>3. Len(new[g]) = 0
    <3>1. Len(new[g]) \in Nat
      BY <2>1, LenProperties
    <3> QED
      BY <2>2, <3>1
  <2> QED
    BY <2>1, <2>3, EmptySeq
<1> QED
  BY <1>3, <1>4 DEF AtMostOne

(* What a burst pushes on the lane is a batch of the queue.                 *)
LEMMA BatchOf ==
  ASSUME lane \in Lanes, NEW p, NEW new, Pushable(new, p), NEW act, NEW max,
         AsBefore(act, max, p)
  PROVE  new[lane] \in L!Batches
<1> DEFINE N == new[lane]
           n == Len(new[lane])
<1>1. /\ N \in Seq(Runs) /\ Distinct(N)
      /\ \A r \in AsSet(N) : r \in RunsOf(lane) /\ p[lane][r] = "new"
  BY DEF Pushable
<1>2. AsSet(N) \subseteq L!Fresh
  BY <1>1 DEF L!Fresh, RunsOf, AsBefore
<1>3. n \in Nat /\ DOMAIN N = 1..n /\ N = [i \in 1..n |-> N[i]]
  BY <1>1, LenProperties
<1>4. N \in [1..n -> L!Fresh] /\ \A i, j \in DOMAIN N : i # j => N[i] # N[j]
  <2>1. \A i \in 1..n : N[i] \in AsSet(N)
    BY DEF AsSet, FirstOf
  <2> QED
    BY <1>1, <1>2, <1>3, <2>1 DEF Distinct
<1>5. IsFiniteSet(L!Fresh) /\ Cardinality(L!Fresh) \in Nat
  <2>1. L!Fresh \in SUBSET Runs
    BY DEF L!Fresh, RunsOf
  <2> QED
    BY <2>1, LanesAssumption, FS_Subset, FS_CardinalityType
<1> HIDE DEF N, n
<1>6. n <= Cardinality(L!Fresh)
  <2>1. N \in Injection(1..n, L!Fresh)
    BY <1>3, <1>4 DEF Injection, IsInjective
  <2>2. Cardinality(1..n) <= Cardinality(L!Fresh)
    BY <1>5, <2>1, FS_Injection
  <2>3. Cardinality(1..n) = n
    BY <1>3, FS_Interval
  <2> QED
    BY <2>2, <2>3
<1>7. n \in 0..L!Cardinality(L!Fresh)
  BY <1>3, <1>5, <1>6, SameOperators
<1>8. N \in L!Batches
  BY <1>4, <1>7 DEF L!Batches
<1> QED
  BY <1>8 DEF N

-----------------------------------------------------------------------------
(* Steps *)

(* A burst that does not pump the lane unless it pushes on it.              *)
LEMMA BurstElsewhere ==
  ASSUME lane \in Lanes, NEW push, NEW act, NEW old, NEW max, NEW p, NEW drained,
         WellFormed(queue, act, old, max, p), SessionPush(push, p, drained),
         Burst(push, queue, act, max, p, drained), nextTicket \in [Lanes -> Nat],
         AsBefore(act, max, p), stale'[lane] = stale[lane],
         AtMostOne(Sessions \cap drained),
         lane \in drained => lane \in Sessions /\ push[lane] # <<>>,
         lane \in Sessions => AtMostOne(AsSet(push[lane]))
  PROVE  L!Next \/ UNCHANGED L!vars
<1>1. PICK new : /\ BurstPushes(new, push, queue, act, max, p, drained)
                 /\ PushAndPump(new, queue, act, max, p, drained)
  BY BurstIsPushes
<1>2. Pushable(new, p) /\ LanesTyped(queue, act, old, max, p)
  BY <1>1 DEF BurstPushes, WellFormed
<1>3. lane \in Sessions => new[lane] = push[lane]
  BY <1>1 DEF BurstPushes
<1>4. \A a, b \in AsSet(new[lane]) : a = b
  <2>1. CASE lane \in Sessions
    BY <1>3, <2>1 DEF AtMostOne
  <2>2. CASE lane \in Globals
    <3>1. AtMostOne(AsSet(new[lane]))
      BY <1>1, <2>2, FewArrive
    <3> QED
      BY <3>1 DEF AtMostOne
  <2> QED
    BY <2>1, <2>2 DEF Lanes
<1>5. lane \in drained => new[lane] # <<>>
  BY <1>3
<1> QED
  BY <1>1, <1>2, <1>4, <1>5, EnqueueOrNothing

(* A burst that pumps the lane and pushes nothing on it.                    *)
LEMMA BurstPumps ==
  ASSUME lane \in Lanes, NEW act, NEW old, NEW max, NEW p,
         WellFormed(queue, act, old, max, p),
         Burst(NoPush, queue, act, max, p, {lane}), nextTicket \in [Lanes -> Nat]
  PROVE  /\ PumpHere(act, max, p)
         /\ maxConcurrent'[lane] = max[lane]
         /\ PhasesHere(ticket)' = PhasesHere(ticket)
         /\ nextTicket'[lane] = nextTicket[lane]
<1>1. PICK new : /\ BurstPushes(new, NoPush, queue, act, max, p, {lane})
                 /\ PushAndPump(new, queue, act, max, p, {lane})
  BY PumpOnly, BurstIsPushes
<1>2. LanesTyped(queue, act, old, max, p)
  BY DEF WellFormed
<1>3. new[lane] = <<>>
  <2>1. CASE lane \in Sessions
    BY <1>1, <2>1 DEF BurstPushes, NoPush
  <2>2. CASE lane \in Globals
    <3>1. Sessions \cap {lane} = {}
      BY <2>2, LanesAssumption
    <3> QED
      BY <1>1, <2>2, <3>1, FewArrive
  <2> QED
    BY <2>1, <2>2 DEF Lanes
<1>4. /\ PumpHere(act, max, p)
      /\ maxConcurrent'[lane] = max[lane]
      /\ \A r \in Runs : ticket'[lane][r] = ticket[lane][r]
      /\ nextTicket'[lane] = nextTicket[lane]
  BY <1>1, <1>2, <1>3, PumpedAlone
<1>5. PhasesHere(ticket)' = PhasesHere(ticket)
  <2>1. RunsOf(lane) \subseteq Runs
    BY DEF RunsOf
  <2> QED
    BY <1>4, <2>1 DEF PhasesHere
<1> QED
  BY <1>4, <1>5

LEMMA NothingPushed == lane \in Sessions => AtMostOne(AsSet(NoPush[lane]))
<1>1. 1..0 = {} /\ Len(<<>>) = 0
  OBVIOUS
<1> QED
  BY <1>1 DEF NoPush, AtMostOne, AsSet, FirstOf

LEMMA LaneSubmit ==
  ASSUME lane \in Lanes, IInv, NEW r \in Runs, Submit(r)
  PROVE  L!Next \/ UNCHANGED L!vars
<1> DEFINE s    == SessionOf[r]
           push == [NoPush EXCEPT ![s] = <<r>>]
<1>1. s \in Sessions
  BY LanesAssumption
<1>2. /\ Burst(push, queue, activeTaskIds, maxConcurrent, phase, {s})
      /\ stale' = stale
  BY DEF Submit
<1>3. /\ WellFormed(queue, activeTaskIds, stale, maxConcurrent, phase)
      /\ nextTicket \in [Lanes -> Nat]
  BY DEF IInv
<1>4. \A t \in Sessions : push[t] = IF t = s THEN <<r>> ELSE <<>>
  BY DEF NoPush
<1>5. SessionPush(push, phase, {s})
  BY SubmitIsPush
<1>6. \A t \in Sessions : AtMostOne(AsSet(push[t]))
  <2>1. AsSet(<<>>) = {} /\ AsSet(<<r>>) = {r}
    <3>1. 1..0 = {} /\ 1..1 = {1}
      OBVIOUS
    <3> QED
      BY <3>1 DEF AsSet, FirstOf
  <2> QED
    BY <1>4, <2>1 DEF AtMostOne
<1>7. lane \in {s} => lane \in Sessions /\ push[lane] # <<>>
  BY <1>1, <1>4
<1>8. AsBefore(activeTaskIds, maxConcurrent, phase) /\ AtMostOne(Sessions \cap {s})
  BY DEF AsBefore, AtMostOne
<1> HIDE DEF push, s
<1> QED
  BY <1>2, <1>3, <1>5, <1>6, <1>7, <1>8, BurstElsewhere

LEMMA LaneComplete ==
  ASSUME lane \in Lanes, IInv, NEW l \in Lanes, NEW r \in Runs, phase[l][r] = "running",
         l = SessionOf[r] => phase[GlobalOf[r]][r] = "returned",
         Complete(l, r)
  PROVE  L!Next \/ UNCHANGED L!vars
<1> DEFINE p   == PhaseWith(l, r, "returned")
           act == [activeTaskIds EXCEPT ![l] = @ \ {r}]
<1>1. /\ WellFormed(queue, activeTaskIds, stale, maxConcurrent, phase)
      /\ LanesTyped(queue, activeTaskIds, stale, maxConcurrent, phase)
      /\ nextTicket \in [Lanes -> Nat]
  BY DEF IInv, WellFormed
<1>2. /\ \A k \in Lanes : act[k] = IF k = l THEN activeTaskIds[k] \ {r} ELSE activeTaskIds[k]
      /\ \A k \in Lanes, t \in Runs :
           p[k][t] = IF k = l /\ t = r THEN "returned" ELSE phase[k][t]
  BY <1>1 DEF LanesTyped, PhaseWith
<1>3. r \in RunsOf(l)
  BY <1>1 DEF WellFormed, QueuesHold
<1>4. l = lane =>
        PhasesHere(p) = [[t \in RunsOf(lane) |-> phase[lane][t]] EXCEPT ![r] = "returned"]
  <2>1. RunsOf(lane) \subseteq Runs
    BY DEF RunsOf
  <2> HIDE DEF p
  <2> QED
    BY <1>2, <2>1 DEF PhasesHere
<1> HIDE DEF p, act
<1>5. CASE r \notin stale[l]
  <2>1. /\ Burst(NoPush, queue, act, maxConcurrent, p, {l})
        /\ stale' = stale
    BY <1>5 DEF Complete, act, p
  <2>2. WellFormed(queue, act, stale, maxConcurrent, p)
    BY <1>5, CompletedWell DEF act, p
  <2>3. CASE l = lane
    <3>0. Burst(NoPush, queue, act, maxConcurrent, p, {lane})
      BY <2>1, <2>3
    <3>1. /\ L!Pump(queue[lane], act[lane], maxConcurrent[lane], PhasesHere(p))
          /\ maxConcurrent'[lane] = maxConcurrent[lane]
          /\ PhasesHere(ticket)' = PhasesHere(ticket)
          /\ nextTicket'[lane] = nextTicket[lane]
      <4>1. /\ PumpHere(act, maxConcurrent, p)
            /\ maxConcurrent'[lane] = maxConcurrent[lane]
            /\ PhasesHere(ticket)' = PhasesHere(ticket)
            /\ nextTicket'[lane] = nextTicket[lane]
        BY <1>1, <2>2, <3>0, BurstPumps
      <4> QED
        BY <4>1 DEF PumpHere
    <3>2. act[lane] = activeTaskIds[lane] \ {r}
      BY <1>2, <2>3
    <3>3. L!Pump(queue[lane], activeTaskIds[lane] \ {r}, maxConcurrent[lane],
                 [[t \in RunsOf(lane) |-> phase[lane][t]] EXCEPT ![r] = "returned"])
      <4> DEFINE fewer == activeTaskIds[lane] \ {r}
                 ended == [[t \in RunsOf(lane) |-> phase[lane][t]] EXCEPT ![r] = "returned"]
      <4>1. act[lane] = fewer /\ PhasesHere(p) = ended
        BY <1>4, <2>3, <3>2
      <4> HIDE DEF fewer, ended
      <4>2. L!Pump(queue[lane], fewer, maxConcurrent[lane], ended)
        BY <3>1, <4>1 DEF L!Pump
      <4> QED
        BY <4>2 DEF fewer, ended
    <3>4. [t \in RunsOf(lane) |-> phase[lane][t]][r] = "running" /\ r \notin stale[lane]
      BY <1>3, <1>5, <2>3
    <3>5. L!Complete(r)
      <4>1. [t \in RunsOf(lane) |-> ticket[lane][t]]' = [t \in RunsOf(lane) |-> ticket[lane][t]]
        BY <3>1 DEF PhasesHere
      <4>2. stale'[lane] = stale[lane]
        BY <2>1
      <4>3. /\ [t \in RunsOf(lane) |-> phase[lane][t]][r] = "running"
            /\ r \notin stale[lane]
            /\ L!Pump(queue[lane], activeTaskIds[lane] \ {r}, maxConcurrent[lane],
                     [[t \in RunsOf(lane) |-> phase[lane][t]] EXCEPT ![r] = "returned"])
            /\ UNCHANGED stale[lane]
        BY <3>3, <3>4, <4>2
      <4>4. UNCHANGED <<maxConcurrent[lane], [t \in RunsOf(lane) |-> ticket[lane][t]], nextTicket[lane]>>
        BY <3>1, <4>1
      <4> QED
        BY <4>3, <4>4 DEF L!Complete, L!Pump
    <3> QED
      BY <1>3, <2>3, <3>5 DEF L!Next
  <2>4. CASE l # lane
    <3>1. AsBefore(act, maxConcurrent, p)
      BY <1>2, <2>4 DEF AsBefore
    <3>2. /\ AtMostOne(Sessions \cap {l})
          /\ lane \notin {l}
          /\ SessionPush(NoPush, p, {l})
      BY <2>4, PumpOnly DEF AtMostOne
    <3>3. lane \in Sessions => AtMostOne(AsSet(NoPush[lane]))
      BY NothingPushed
    <3> QED
      BY <1>1, <2>1, <2>2, <3>1, <3>2, <3>3, BurstElsewhere
  <2> QED
    BY <2>3, <2>4
<1>6. CASE r \in stale[l]
  <2>1. /\ stale' = [stale EXCEPT ![l] = @ \ {r}] /\ phase' = p /\ queue' = queue
        /\ activeTaskIds' = activeTaskIds /\ maxConcurrent' = maxConcurrent
        /\ ticket' = ticket /\ nextTicket' = nextTicket
    BY <1>6 DEF Complete, p, history
  <2>2. CASE l = lane
    <3>1. stale'[lane] = stale[lane] \ {r}
      BY <1>1, <2>1, <2>2 DEF LanesTyped
    <3>2. [t \in RunsOf(lane) |-> phase[lane][t]]' =
            [[t \in RunsOf(lane) |-> phase[lane][t]] EXCEPT ![r] = "returned"]
      BY <1>4, <2>1, <2>2 DEF PhasesHere
    <3>3. [t \in RunsOf(lane) |-> phase[lane][t]][r] = "running" /\ r \in stale[lane]
      BY <1>3, <1>6, <2>2
    <3>4. L!Complete(r)
      BY <2>1, <3>1, <3>2, <3>3 DEF L!Complete
    <3> QED
      BY <1>3, <2>2, <3>4 DEF L!Next
  <2>3. CASE l # lane
    <3>1. stale'[lane] = stale[lane] /\ \A t \in Runs : phase'[lane][t] = phase[lane][t]
      BY <1>1, <1>2, <2>1, <2>3 DEF LanesTyped
    <3>2. Idle
      BY <2>1, <3>1 DEF Idle
    <3> QED
      BY <3>2, IdleIsStutter
  <2> QED
    BY <2>2, <2>3
<1> QED
  BY <1>5, <1>6

LEMMA LaneClear ==
  ASSUME lane \in Lanes, IInv, NEW s \in Sessions, ClearSession(s)
  PROVE  L!Next \/ UNCHANGED L!vars
<1>1. LanesTyped(queue, activeTaskIds, stale, maxConcurrent, phase) /\ s \in Lanes
  BY DEF IInv, WellFormed, Lanes
<1>2. /\ queue[s] # <<>> /\ queue' = [queue EXCEPT ![s] = <<>>]
      /\ phase' = [phase EXCEPT ![s] =
                     [r \in Runs |-> IF @[r] = "queued" THEN "cleared" ELSE @[r]]]
      /\ activeTaskIds' = activeTaskIds /\ maxConcurrent' = maxConcurrent
      /\ stale' = stale /\ ticket' = ticket /\ nextTicket' = nextTicket
  BY DEF ClearSession, history
<1>3. \A r \in Runs : phase'[lane][r] =
        IF lane = s /\ phase[lane][r] = "queued" THEN "cleared" ELSE phase[lane][r]
  BY <1>1, <1>2 DEF LanesTyped
<1>4. CASE lane = s
  <2>1. queue[lane] # <<>> /\ queue'[lane] = <<>>
    BY <1>1, <1>2, <1>4 DEF LanesTyped
  <2>2. [r \in RunsOf(lane) |-> phase[lane][r]]' =
          [e \in RunsOf(lane) |->
             IF [r \in RunsOf(lane) |-> phase[lane][r]][e] = "queued" THEN "cleared"
             ELSE [r \in RunsOf(lane) |-> phase[lane][r]][e]]
    <3>1. RunsOf(lane) \subseteq Runs
      BY DEF RunsOf
    <3> QED
      BY <1>3, <1>4, <3>1
  <2>3. L!Clear
    BY <1>2, <2>1, <2>2 DEF L!Clear
  <2> QED
    BY <2>3 DEF L!Next
<1>5. CASE lane # s
  <2>1. queue'[lane] = queue[lane]
    BY <1>1, <1>2, <1>5 DEF LanesTyped
  <2>2. Idle
    BY <1>2, <1>3, <1>5, <2>1 DEF Idle
  <2> QED
    BY <2>2, IdleIsStutter
<1> QED
  BY <1>4, <1>5

LEMMA LaneSetConcurrency ==
  ASSUME lane \in Lanes, IInv, NEW g \in Globals, NEW max \in Limits, SetConcurrency(g, max)
  PROVE  L!Next \/ UNCHANGED L!vars
<1> DEFINE limits == [maxConcurrent EXCEPT ![g] = max]
<1>1. /\ WellFormed(queue, activeTaskIds, stale, maxConcurrent, phase)
      /\ LanesTyped(queue, activeTaskIds, stale, maxConcurrent, phase)
      /\ nextTicket \in [Lanes -> Nat] /\ g \in Lanes
  BY DEF IInv, WellFormed, Lanes
<1>2. /\ Burst(NoPush, queue, activeTaskIds, limits, phase, {g})
      /\ stale' = stale
  BY DEF SetConcurrency
<1>3. /\ limits \in [Lanes -> Limits]
      /\ \A l \in Lanes : limits[l] = IF l = g THEN max ELSE maxConcurrent[l]
      /\ \A s \in Sessions : limits[s] = maxConcurrent[s]
  BY <1>1, LanesAssumption DEF LanesTyped, Lanes
<1> HIDE DEF limits
<1>4. WellFormed(queue, activeTaskIds, stale, limits, phase)
  BY <1>1, <1>3 DEF WellFormed, LanesTyped, OnePerSession
<1>5. CASE lane = g
  <2>1. Burst(NoPush, queue, activeTaskIds, limits, phase, {lane})
    BY <1>2, <1>5
  <2>2. /\ PumpHere(activeTaskIds, limits, phase)
        /\ maxConcurrent'[lane] = limits[lane]
        /\ PhasesHere(ticket)' = PhasesHere(ticket)
        /\ nextTicket'[lane] = nextTicket[lane]
    BY <1>1, <1>4, <2>1, BurstPumps
  <2>3. maxConcurrent'[lane] = max /\ limits[lane] = max
    BY <1>3, <1>5, <2>2
  <2>4. L!Pump(queue[lane], activeTaskIds[lane], max, [r \in RunsOf(lane) |-> phase[lane][r]])
    BY <2>2, <2>3 DEF PumpHere, PhasesHere, L!Pump
  <2>5. L!SetConcurrency(max)
    BY <1>2, <2>2, <2>3, <2>4 DEF L!SetConcurrency, PhasesHere
  <2> QED
    BY <2>5 DEF L!Next
<1>6. CASE lane # g
  <2>1. AsBefore(activeTaskIds, limits, phase)
    BY <1>3, <1>6 DEF AsBefore
  <2>2. AtMostOne(Sessions \cap {g}) /\ lane \notin {g} /\ SessionPush(NoPush, phase, {g})
    BY <1>6, PumpOnly DEF AtMostOne
  <2> QED
    BY <1>1, <1>2, <1>4, <2>1, <2>2, NothingPushed, BurstElsewhere
<1> QED
  BY <1>5, <1>6

(* A reset touches every lane: what waits is pumped, what ran is stale.     *)
LEMMA LaneReset ==
  ASSUME lane \in Lanes, IInv, Reset
  PROVE  L!Next
<1> DEFINE none    == [l \in Lanes |-> {}]
           drained == {l \in Lanes : queue[l] # <<>>}
<1>1. Burst(NoPush, queue, none, maxConcurrent, phase, drained)
  BY DEF Reset
<1>2. WellFormed(queue, none, stale', maxConcurrent, phase)
  BY ResetWell
<1>3. stale'[lane] = stale[lane] \cup activeTaskIds[lane] /\ none[lane] = {}
  BY DEF Reset
<1>4. lane \in drained \/ queue[lane] = <<>>
  OBVIOUS
<1> HIDE DEF none, drained
<1>5. PICK new : /\ BurstPushes(new, NoPush, queue, none, maxConcurrent, phase, drained)
                 /\ PushAndPump(new, queue, none, maxConcurrent, phase, drained)
  BY <1>1, <1>2, PumpOnly, BurstIsPushes
<1>6. Pushable(new, phase) /\ LanesTyped(queue, none, stale', maxConcurrent, phase)
  BY <1>2, <1>5 DEF BurstPushes, WellFormed
<1>7. AsBefore(activeTaskIds, maxConcurrent, phase)
  BY DEF AsBefore
<1>8. new[lane] \in L!Batches
  BY <1>6, <1>7, BatchOf
<1>9. /\ L!Pump(queue[lane] \o new[lane], none[lane], maxConcurrent[lane],
               PushedPhases(new[lane], phase))
      /\ L!Numbered(new[lane])
      /\ maxConcurrent'[lane] = maxConcurrent[lane]
  <2>1. PushHere(new[lane], none, maxConcurrent, phase) /\ maxConcurrent'[lane] = maxConcurrent[lane]
    BY <1>4, <1>5, <1>6, PumpedLane
  <2> QED
    BY <2>1 DEF PushHere
<1>10. L!Pump(queue[lane] \o new[lane], {}, maxConcurrent[lane], L!Queued(new[lane]))
  <2>1. L!Queued(new[lane]) = PushedPhases(new[lane], phase)
    BY <1>7, QueuedIsPushed
  <2> DEFINE all == queue[lane] \o new[lane]
             N == new[lane]
  <2>2. L!Pump(all, none[lane], maxConcurrent[lane], PushedPhases(N, phase))
    BY <1>9
  <2> HIDE DEF all, N
  <2>3. L!Pump(all, {}, maxConcurrent[lane], PushedPhases(N, phase))
    BY <1>3, <2>2 DEF L!Pump
  <2>4. L!Pump(all, {}, maxConcurrent[lane], L!Queued(N))
    BY <2>1, <2>3 DEF L!Pump, N
  <2> QED
    BY <2>4 DEF all, N
<1>11. L!Reset(new[lane])
  BY <1>3, <1>9, <1>10 DEF L!Reset
<1> QED
  BY <1>8, <1>11 DEF L!Next

-----------------------------------------------------------------------------
(* Theorems *)

LEMMA LaneInit ==
  ASSUME lane \in Lanes, Init
  PROVE  L!Init
<1>1. RunsOf(lane) \subseteq Runs
  BY DEF RunsOf
<1>2. \A r \in Runs : phase[lane][r] = "new" /\ ticket[lane][r] = 0
  BY DEF Init
<1> QED
  BY <1>1, <1>2 DEF Init, L!Init

LEMMA LaneNext ==
  ASSUME lane \in Lanes, IInv, Next
  PROVE  L!Next \/ UNCHANGED L!vars
<1>1. \A r \in Runs : /\ SessionOf[r] \in Lanes /\ GlobalOf[r] \in Lanes
                      /\ SessionOf[r] # GlobalOf[r]
  BY LanesAssumption DEF Lanes
<1>2. CASE \E r \in Runs : Submit(r)
  BY <1>2, LaneSubmit
<1>3. CASE \E r \in Runs : RunEnds(r)
  <2>1. PICK r \in Runs : RunEnds(r)
    BY <1>3
  <2> QED
    BY <1>1, <2>1, LaneComplete DEF RunEnds
<1>4. CASE \E r \in Runs : SessionEnds(r)
  <2>1. PICK r \in Runs : SessionEnds(r)
    BY <1>4
  <2> QED
    BY <1>1, <2>1, LaneComplete DEF SessionEnds
<1>5. CASE \E s \in Sessions : ClearSession(s)
  BY <1>5, LaneClear
<1>6. CASE \E g \in Globals, max \in Limits : SetConcurrency(g, max)
  BY <1>6, LaneSetConcurrency
<1>7. CASE RequestRestart \/ WaitEnds
  <2>1. Idle
    BY <1>7 DEF RequestRestart, WaitEnds, laneVars, history, Idle
  <2> QED
    BY <2>1, IdleIsStutter
<1>8. CASE Reset
  BY <1>8, LaneReset
<1> QED
  BY <1>2, <1>3, <1>4, <1>5, <1>6, <1>7, <1>8 DEF Next

(* Each lane that runEmbeddedPiAgent pushes on behaves as a CommandQueue:   *)
(* whatever the bursts of a step do to several lanes and whatever a restart *)
(* resets, it sees one operation of command-queue.ts at a time.             *)
THEOREM LaneImplementsQueue ==
  ASSUME lane \in Lanes
  PROVE  Spec => L!Spec
<1>1. Init => L!Init
  BY LaneInit
<1>2. IInv /\ [Next]_vars => [L!Next]_(L!vars)
  <2>1. UNCHANGED vars => UNCHANGED L!vars
    <3>1. UNCHANGED vars => Idle
      BY DEF vars, history, Idle
    <3> QED
      BY <3>1, IdleIsStutter
  <2> QED
    BY <2>1, LaneNext
<1> QED
  BY <1>1, <1>2, Invariance, PTL DEF Spec, L!Spec

(* The queue's own assumptions hold of the lane. *)
LEMMA QueueAssumptions ==
  /\ L!IsFiniteSet(RunsOf(lane))
  /\ Limits \subseteq Nat \ {0} /\ 1 \in Limits
<1>1. RunsOf(lane) \in SUBSET Runs
  BY DEF RunsOf
<1>2. IsFiniteSet(RunsOf(lane))
  BY <1>1, LanesAssumption, FS_Subset
<1> QED
  BY <1>2, SameOperators, LimitsAssumption

(* No lane, session or global, ever leaves a run waiting while it has room, *)
(* across restarts.                                                         *)
THEOREM NoLaneForgets ==
  ASSUME lane \in Lanes
  PROVE  Spec => []L!QueuedMeansFull
<1>1. L!Spec => []L!QueuedMeansFull
  BY QueueAssumptions, L!NoLostWakeup DEF L!EntriesAssumption, L!LimitsAssumption
<1> QED
  BY <1>1, LaneImplementsQueue, PTL

(* On every lane runs start in the order they were pushed, across restarts:  *)
(* a run that a reset preserved keeps its place.                            *)
THEOREM LanesServeInOrder ==
  ASSUME lane \in Lanes
  PROVE  Spec => []L!FirstComeFirstServed
<1>1. L!Spec => []L!FirstComeFirstServed
  BY QueueAssumptions, L!Fifo DEF L!EntriesAssumption, L!LimitsAssumption
<1> QED
  BY <1>1, LaneImplementsQueue, PTL

(* No burst, and no reset, takes up more work on a lane than its limit.     *)
THEOREM LanesKeepLimits ==
  ASSUME lane \in Lanes
  PROVE  Spec => L!StartsOnlyInRoom
<1>1. L!Spec => L!StartsOnlyInRoom
  BY QueueAssumptions, L!WithinLimit DEF L!EntriesAssumption, L!LimitsAssumption
<1> QED
  BY <1>1, LaneImplementsQueue, PTL

(* A run that has returned on a lane or was cleared from it is never pushed *)
(* or run there again.                                                      *)
THEOREM LanesSettleOnce ==
  ASSUME lane \in Lanes
  PROVE  Spec => L!SettledForGood
<1>1. L!Spec => L!SettledForGood
  BY QueueAssumptions, L!SettledOnce DEF L!EntriesAssumption, L!LimitsAssumption
<1> QED
  BY <1>1, LaneImplementsQueue, PTL
=============================================================================
