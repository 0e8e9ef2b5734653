------------------------- MODULE SessionLanesProofs -------------------------
(***************************************************************************)
(* Proofs about SessionLanes, for every finite set of runs, any sessions,  *)
(* global lanes and limits: the inductive invariant and what follows from  *)
(* it; then that each lane is a CommandQueue.                              *)
(***************************************************************************)
EXTENDS SessionLanes, FiniteSetTheorems, SequenceTheorems, TLAPS

(* The sequences from which pump() takes: the queue, the entries pushed on  *)
(* it, and what is left after the first n were taken.                       *)
Parts(Q, N, n, all, rest) == all = Q \o N /\ rest = SubSeq(all, n + 1, Len(all))

LEMMA QueueParts ==
  ASSUME NEW Q \in Seq(Runs), NEW N \in Seq(Runs), Distinct(Q), Distinct(N),
         AsSet(Q) \cap AsSet(N) = {},
         NEW all, NEW n \in 0..Len(all), NEW rest, Parts(Q, N, n, all, rest)
  PROVE  /\ all \in Seq(Runs)
         /\ AsSet(all) = AsSet(Q) \cup AsSet(N)
         /\ rest \in Seq(Runs)
         /\ Distinct(rest)
         /\ FirstOf(all, n) \subseteq AsSet(all)
         /\ AsSet(rest) = AsSet(all) \ FirstOf(all, n)
<1>1. /\ Len(Q) \in Nat /\ DOMAIN Q = 1..Len(Q) /\ \A i \in 1..Len(Q) : Q[i] \in Runs
      /\ Len(N) \in Nat /\ DOMAIN N = 1..Len(N) /\ \A i \in 1..Len(N) : N[i] \in Runs
  BY LenProperties, ElementOfSeq
<1>2. /\ all \in Seq(Runs)
      /\ Len(all) = Len(Q) + Len(N)
      /\ \A i \in 1..(Len(Q) + Len(N)) :
           all[i] = IF i <= Len(Q) THEN Q[i] ELSE N[i - Len(Q)]
  BY ConcatProperties DEF Parts
<1>3. /\ DOMAIN all = 1..Len(all) /\ Len(all) \in Nat
      /\ \A i \in 1..Len(all) : all[i] \in Runs
  BY <1>2, LenProperties, ElementOfSeq
<1>4. Distinct(all)
  <2> SUFFICES ASSUME NEW i \in 1..Len(all), NEW j \in 1..Len(all), all[i] = all[j]
               PROVE  i = j
    BY <1>3 DEF Distinct
  <2>1. CASE i <= Len(Q) /\ j <= Len(Q)
    <3>1. i \in DOMAIN Q /\ j \in DOMAIN Q /\ Q[i] = Q[j]
      BY <1>1, <1>2, <2>1
    <3> QED
      BY <3>1 DEF Distinct
  <2>2. CASE i > Len(Q) /\ j > Len(Q)
    <3>1. i - Len(Q) \in 1..Len(N) /\ j - Len(Q) \in 1..Len(N)
      BY <1>1, <1>2, <2>2
    <3>2. N[i - Len(Q)] = N[j - Len(Q)]
      BY <1>1, <1>2, <2>2
    <3>3. i - Len(Q) = j - Len(Q)
      BY <1>1, <3>1, <3>2 DEF Distinct
    <3> QED
      BY <1>1, <3>3
  <2>3. \A a \in 1..Len(Q), b \in 1..Len(N) : Q[a] # N[b]
    BY DEF AsSet, FirstOf
  <2>4. CASE i <= Len(Q) /\ j > Len(Q)
    <3>1. i \in 1..Len(Q) /\ j - Len(Q) \in 1..Len(N)
      BY <1>1, <1>2, <2>4
    <3> QED
      BY <1>1, <1>2, <2>3, <2>4, <3>1
  <2>5. CASE i > Len(Q) /\ j <= Len(Q)
    <3>1. j \in 1..Len(Q) /\ i - Len(Q) \in 1..Len(N)
      BY <1>1, <1>2, <2>5
    <3> QED
      BY <1>1, <1>2, <2>3, <2>5, <3>1
  <2> QED
    BY <1>1, <2>1, <2>2, <2>4, <2>5
<1>5. AsSet(all) = AsSet(Q) \cup AsSet(N)
  <2>1. ASSUME NEW i \in 1..Len(all)
        PROVE  all[i] \in AsSet(Q) \cup AsSet(N)
    <3>1. CASE i <= Len(Q)
      BY <1>1, <1>2, <3>1 DEF AsSet, FirstOf
    <3>2. CASE i > Len(Q)
      <4>1. i - Len(Q) \in 1..Len(N) /\ all[i] = N[i - Len(Q)]
        BY <1>1, <1>2, <3>2
      <4> QED
        BY <4>1 DEF AsSet, FirstOf
    <3> QED
      BY <1>1, <3>1, <3>2
  <2>2. ASSUME NEW i \in 1..Len(Q)
        PROVE  Q[i] \in AsSet(all)
    <3>1. i \in 1..Len(all) /\ all[i] = Q[i]
      BY <1>1, <1>2
    <3> QED
      BY <3>1 DEF AsSet, FirstOf
  <2>3. ASSUME NEW i \in 1..Len(N)
        PROVE  N[i] \in AsSet(all)
    <3>1. /\ Len(Q) + i \in 1..(Len(Q) + Len(N)) /\ ~(Len(Q) + i <= Len(Q))
          /\ (Len(Q) + i) - Len(Q) = i
      BY <1>1
    <3>2. Len(Q) + i \in 1..Len(all) /\ all[Len(Q) + i] = N[i]
      BY <1>2, <3>1
    <3> QED
      BY <3>2 DEF AsSet, FirstOf
  <2> QED
    BY <2>1, <2>2, <2>3 DEF AsSet, FirstOf
<1>6. n \in Nat /\ n <= Len(all)
  BY <1>3
<1>7. /\ rest \in Seq(Runs)
      /\ Len(rest) = Len(all) - n
      /\ \A i \in 1..(Len(all) - n) : rest[i] = all[n + i]
  <2>1. /\ \A i \in (n + 1)..Len(all) : all[i] \in Runs
        /\ n + 1 \in Int /\ Len(all) \in Int
    BY <1>3, <1>6
  <2>2. /\ rest \in Seq(Runs)
        /\ Len(rest) = IF n + 1 <= Len(all) THEN Len(all) - (n + 1) + 1 ELSE 0
        /\ \A i \in 1..(Len(all) - (n + 1) + 1) : rest[i] = all[n + 1 + i - 1]
    BY <2>1, SubSeqProperties DEF Parts
  <2>3. Len(rest) = Len(all) - n
    <3>1. (IF n + 1 <= Len(all) THEN Len(all) - (n + 1) + 1 ELSE 0) = Len(all) - n
      <4>1. Len(all) \in Nat
        BY <1>3
      <4> QED
        BY <1>6, <4>1
    <3> QED
      BY <2>2, <3>1
  <2>4. ASSUME NEW i \in 1..(Len(all) - n)
        PROVE  rest[i] = all[n + i]
    <3>1. i \in 1..(Len(all) - (n + 1) + 1) /\ n + 1 + i - 1 = n + i
      BY <1>3, <1>6
    <3> QED
      BY <2>2, <3>1
  <2> QED
    BY <2>2, <2>3, <2>4
<1>8. DOMAIN rest = 1..(Len(all) - n)
  BY <1>7, LenProperties
<1>9. Distinct(rest)
  <2> SUFFICES ASSUME NEW i \in 1..(Len(all) - n), NEW j \in 1..(Len(all) - n),
                      rest[i] = rest[j]
               PROVE  i = j
    BY <1>8 DEF Distinct
  <2>1. n + i \in 1..Len(all) /\ n + j \in 1..Len(all)
    BY <1>3, <1>6
  <2>2. n + i = n + j
    BY <1>3, <1>4, <1>7, <2>1 DEF Distinct
  <2> QED
    BY <1>6, <2>2
<1>10. FirstOf(all, n) \subseteq AsSet(all)
  <2>1. \A i \in 1..n : i \in 1..Len(all)
    BY <1>3, <1>6
  <2> QED
    BY <2>1 DEF AsSet, FirstOf
<1>11. AsSet(rest) = AsSet(all) \ FirstOf(all, n)
  <2>1. ASSUME NEW i \in 1..(Len(all) - n)
        PROVE  rest[i] \in AsSet(all) /\ rest[i] \notin FirstOf(all, n)
    <3>1. n + i \in 1..Len(all) /\ rest[i] = all[n + i]
      BY <1>3, <1>6, <1>7
    <3>2. ASSUME NEW j \in 1..n
          PROVE  all[j] # all[n + i]
      <4>1. j \in 1..Len(all) /\ j # n + i
        BY <1>3, <1>6
      <4> QED
        BY <1>3, <1>4, <3>1, <4>1 DEF Distinct
    <3> QED
      BY <3>1, <3>2 DEF AsSet, FirstOf
  <2>2. ASSUME NEW j \in 1..Len(all), all[j] \notin FirstOf(all, n)
        PROVE  all[j] \in AsSet(rest)
    <3>1. j > n
      BY <1>3, <1>6, <2>2 DEF FirstOf
    <3>2. j - n \in 1..(Len(all) - n) /\ n + (j - n) = j
      BY <1>3, <1>6, <3>1
    <3>3. rest[j - n] = all[j]
      BY <1>7, <3>2
    <3> QED
      BY <1>7, <3>2, <3>3 DEF AsSet, FirstOf
  <2> QED
    BY <1>7, <2>1, <2>2 DEF AsSet, FirstOf
<1> QED
  BY <1>2, <1>5, <1>7, <1>9, <1>10, <1>11

(* The loop of pump() stops when the queue is empty or the lane is full.    *)
LEMMA TakenBounds ==
  ASSUME NEW q \in Seq(Runs), NEW act \in SUBSET Runs, NEW max \in Limits
  PROVE  /\ Taken(q, act, max) \in 0..Len(q)
         /\ Taken(q, act, max) > 0 => Cardinality(act) + Taken(q, act, max) <= max
         /\ max = 1 /\ Taken(q, act, max) > 0 => act = {} /\ Taken(q, act, max) = 1
<1>1. Len(q) \in Nat /\ max \in Nat
  BY LenProperties, LimitsAssumption
<1>2. IsFiniteSet(act) /\ Cardinality(act) \in Nat
  BY LanesAssumption, FS_Subset, FS_CardinalityType
<1>3. /\ Taken(q, act, max) \in 0..Len(q)
      /\ Taken(q, act, max) > 0 => Cardinality(act) + Taken(q, act, max) <= max
  BY <1>1, <1>2 DEF Taken
<1>4. max = 1 /\ Taken(q, act, max) > 0 => Cardinality(act) = 0 /\ Taken(q, act, max) = 1
  BY <1>1, <1>2, <1>3
<1>5. Cardinality(act) = 0 => act = {}
  BY <1>2, FS_EmptySet
<1> QED
  BY <1>3, <1>4, <1>5

-----------------------------------------------------------------------------
(* A burst, lane by lane *)

(* What may be pushed: runs that are new on the lane, each once.            *)
Pushable(new, p) ==
  /\ new \in [Lanes -> Seq(Runs)]
  /\ \A l \in Lanes : /\ Distinct(new[l])
                      /\ \A r \in AsSet(new[l]) : r \in RunsOf(l) /\ p[l][r] = "new"

(* How many entries pump() takes off lane l. *)
TakenOff(l, new, q, act, max, drained) ==
  IF l \in drained \/ new[l] # <<>> THEN Taken(q[l] \o new[l], act[l], max[l]) ELSE 0

StartedOn(l, new, q, act, max, drained) ==
  FirstOf(q[l] \o new[l], TakenOff(l, new, q, act, max, drained))

(* What PushAndPump makes of one lane. *)
LEMMA LaneAfter ==
  ASSUME NEW q, NEW act, NEW old, NEW max, NEW p, NEW new, NEW drained,
         LanesTyped(q, act, old, max, p), QueuesHold(q, p), Pushable(new, p),
         PushAndPump(new, q, act, max, p, drained), NEW l \in Lanes,
         NEW begun, begun = StartedOn(l, new, q, act, max, drained)
  PROVE  /\ queue'[l] \in Seq(Runs) /\ Distinct(queue'[l])
         /\ AsSet(queue'[l]) = (AsSet(q[l]) \cup AsSet(new[l])) \ begun
         /\ begun \subseteq AsSet(q[l]) \cup AsSet(new[l])
         /\ activeTaskIds'[l] = act[l] \cup begun
         /\ maxConcurrent'[l] = max[l]
         /\ \A r \in Runs :
              phase'[l][r] = IF r \in begun THEN "running"
                             ELSE IF r \in AsSet(new[l]) THEN "queued" ELSE p[l][r]
         /\ \A r \in AsSet(q[l]) : r \in RunsOf(l) /\ p[l][r] = "queued"
<1> DEFINE n    == TakenOff(l, new, q, act, max, drained)
           all  == q[l] \o new[l]
           rest == SubSeq(all, n + 1, Len(all))
<1>1. /\ q[l] \in Seq(Runs) /\ new[l] \in Seq(Runs)
      /\ act[l] \in SUBSET Runs /\ max[l] \in Limits
      /\ Distinct(q[l]) /\ Distinct(new[l])
  BY DEF LanesTyped, QueuesHold, Pushable
<1>2. \A r \in AsSet(q[l]) : r \in RunsOf(l) /\ p[l][r] = "queued"
  <2>1. \A i \in 1..Len(q[l]) : q[l][i] \in Runs /\ p[l][q[l][i]] = "queued"
    BY <1>1, LenProperties, ElementOfSeq DEF QueuesHold
  <2> QED
    BY <2>1 DEF AsSet, FirstOf, QueuesHold
<1>3. AsSet(q[l]) \cap AsSet(new[l]) = {}
  BY <1>2 DEF Pushable
<1>4. all \in Seq(Runs) /\ Len(all) \in Nat
  BY <1>1, ConcatProperties, LenProperties
<1>5. n \in 0..Len(all)
  <2>1. Taken(all, act[l], max[l]) \in 0..Len(all)
    BY <1>1, <1>4, TakenBounds
  <2>2. 0 \in 0..Len(all)
    <3> HIDE DEF all
    <3> QED
      BY <1>4
  <2>3. n = Taken(all, act[l], max[l]) \/ n = 0
    BY DEF TakenOff
  <2> QED
    BY <2>1, <2>2, <2>3
<1>6. /\ queue'[l] = rest
      /\ activeTaskIds'[l] = act[l] \cup begun
      /\ maxConcurrent'[l] = max[l]
      /\ \A r \in Runs :
           phase'[l][r] = IF r \in begun THEN "running"
                          ELSE IF r \in AsSet(new[l]) THEN "queued" ELSE p[l][r]
  BY DEF PushAndPump, TakenOff, StartedOn
<1>7. begun = FirstOf(all, n)
  BY DEF StartedOn
<1>8. Parts(q[l], new[l], n, all, rest)
  BY DEF Parts
<1> HIDE DEF n, all, rest
<1>9. /\ AsSet(all) = AsSet(q[l]) \cup AsSet(new[l])
      /\ rest \in Seq(Runs)
      /\ Distinct(rest)
      /\ FirstOf(all, n) \subseteq AsSet(all)
      /\ AsSet(rest) = AsSet(all) \ FirstOf(all, n)
  BY <1>1, <1>3, <1>5, <1>8, QueueParts
<1> QED
  BY <1>2, <1>6, <1>7, <1>9

(* A session lane takes at most one run, and only if it has none.           *)
LEMMA SessionTakesOne ==
  ASSUME NEW q, NEW act, NEW old, NEW max, NEW p, NEW new, NEW drained,
         LanesTyped(q, act, old, max, p), Pushable(new, p),
         OnePerSession(act, max), NEW s \in Sessions
  PROVE  \A r, t \in act[s] \cup StartedOn(s, new, q, act, max, drained) : r = t
<1> DEFINE n   == TakenOff(s, new, q, act, max, drained)
           all == q[s] \o new[s]
<1>1. /\ s \in Lanes /\ all \in Seq(Runs) /\ act[s] \in SUBSET Runs
      /\ max[s] \in Limits /\ max[s] = 1
  BY ConcatProperties DEF LanesTyped, Pushable, OnePerSession, Lanes
<1>2. n = 0 \/ (act[s] = {} /\ n = 1)
  <2>1. CASE n = 0
    BY <2>1
  <2>2. CASE n # 0
    <3>1. n = Taken(all, act[s], max[s])
      BY <2>2 DEF TakenOff
    <3>2. Taken(all, act[s], max[s]) \in 0..Len(all) /\ Len(all) \in Nat
      BY <1>1, TakenBounds, LenProperties
    <3>3. n > 0
      BY <2>2, <3>1, <3>2
    <3> HIDE DEF n
    <3> QED
      BY <1>1, <3>1, <3>3, TakenBounds
  <2> QED
    BY <2>1, <2>2
<1> HIDE DEF n
<1>3. CASE n = 0
  <2>1. FirstOf(all, n) = {}
    BY <1>3 DEF FirstOf
  <2> QED
    BY <2>1 DEF StartedOn, n, OnePerSession
<1>4. CASE act[s] = {} /\ n = 1
  <2>1. FirstOf(all, n) = {all[1]}
    <3>1. 1..n = {1}
      BY <1>4
    <3> HIDE DEF all
    <3> QED
      BY <3>1 DEF FirstOf
  <2> QED
    BY <1>4, <2>1 DEF StartedOn, n
<1> QED
  BY <1>2, <1>3, <1>4

(* PushAndPump keeps the lanes well formed, if what it pushes on a global   *)
(* lane has started on its session lane, and lets tasks that run or have    *)
(* returned alone.                                                          *)
LEMMA PushAndPumpKeeps ==
  ASSUME NEW q, NEW act, NEW old, NEW max, NEW p, NEW new, NEW drained,
         WellFormed(q, act, old, max, p), Pushable(new, p),
         PushAndPump(new, q, act, max, p, drained),
         \A r \in Runs : r \in AsSet(new[GlobalOf[r]]) => phase'[SessionOf[r]][r] = "running"
  PROVE  /\ WellFormed(queue', activeTaskIds', old, maxConcurrent', phase')
         /\ \A l \in Lanes, r \in Runs :
              p[l][r] \in {"running", "returned"} => phase'[l][r] = p[l][r]
<1> DEFINE begun(l) == StartedOn(l, new, q, act, max, drained)
<1>1. LanesTyped(q, act, old, max, p) /\ QueuesHold(q, p)
  BY DEF WellFormed
<1>2. ASSUME NEW l \in Lanes
      PROVE  /\ queue'[l] \in Seq(Runs) /\ Distinct(queue'[l])
             /\ AsSet(queue'[l]) = (AsSet(q[l]) \cup AsSet(new[l])) \ begun(l)
             /\ AsSet(queue'[l]) \subseteq Runs
             /\ begun(l) \subseteq AsSet(q[l]) \cup AsSet(new[l])
             /\ activeTaskIds'[l] = act[l] \cup begun(l)
             /\ maxConcurrent'[l] = max[l]
             /\ \A r \in Runs :
                  phase'[l][r] = IF r \in begun(l) THEN "running"
                                 ELSE IF r \in AsSet(new[l]) THEN "queued" ELSE p[l][r]
             /\ \A r \in AsSet(q[l]) : r \in RunsOf(l) /\ p[l][r] = "queued"
  <2> HIDE DEF begun
  <2>1. /\ queue'[l] \in Seq(Runs) /\ Distinct(queue'[l])
        /\ AsSet(queue'[l]) = (AsSet(q[l]) \cup AsSet(new[l])) \ begun(l)
        /\ begun(l) \subseteq AsSet(q[l]) \cup AsSet(new[l])
    BY <1>1, LaneAfter DEF begun
  <2>2. /\ activeTaskIds'[l] = act[l] \cup begun(l)
        /\ maxConcurrent'[l] = max[l]
    BY <1>1, LaneAfter DEF begun
  <2>3. \A r \in Runs :
          phase'[l][r] = IF r \in begun(l) THEN "running"
                         ELSE IF r \in AsSet(new[l]) THEN "queued" ELSE p[l][r]
    BY <1>1, LaneAfter DEF begun
  <2>4. \A r \in AsSet(q[l]) : r \in RunsOf(l) /\ p[l][r] = "queued"
    BY <1>1, LaneAfter
  <2>5. AsSet(queue'[l]) \subseteq Runs
    BY <2>1, ElementOfSeq DEF AsSet, FirstOf
  <2> QED
    BY <2>1, <2>2, <2>3, <2>4, <2>5
<1>3. \A l \in Lanes : \A r \in AsSet(new[l]) : r \in RunsOf(l) /\ p[l][r] = "new"
  BY DEF Pushable
<1>4. \A l \in Lanes : RunsOf(l) \subseteq Runs
  BY DEF RunsOf
<1> HIDE DEF begun
<1>5. LanesTyped(queue', activeTaskIds', old, maxConcurrent', phase')
  <2>1. \A l \in Lanes : activeTaskIds'[l] \in SUBSET Runs
    BY <1>1, <1>2, <1>3, <1>4 DEF LanesTyped
  <2>2. /\ queue' \in [Lanes -> Seq(Runs)]
        /\ activeTaskIds' \in [Lanes -> SUBSET Runs]
    <3>1. DOMAIN queue' = Lanes /\ queue' = [l \in Lanes |-> queue'[l]]
      BY DEF PushAndPump
    <3>2. activeTaskIds' = [l \in Lanes |-> activeTaskIds'[l]]
      BY DEF PushAndPump
    <3> QED
      BY <1>2, <2>1, <3>1, <3>2
  <2>3. phase' \in [Lanes -> [Runs -> Phase]]
    BY <1>1 DEF PushAndPump, LanesTyped, Phase
  <2>4. maxConcurrent' = max
    BY DEF PushAndPump
  <2> QED
    BY <1>1, <2>2, <2>3, <2>4 DEF LanesTyped
<1>6. QueuesHold(queue', phase')
  <2> SUFFICES ASSUME NEW l \in Lanes
               PROVE  /\ Distinct(queue'[l])
                      /\ \A i \in DOMAIN queue'[l] : phase'[l][queue'[l][i]] = "queued"
                      /\ \A r \in Runs : phase'[l][r] # "new" => r \in RunsOf(l)
    BY DEF QueuesHold
  <2>1. \A r \in AsSet(queue'[l]) : phase'[l][r] = "queued"
    BY <1>2, <1>3, <1>4
  <2>2. \A i \in DOMAIN queue'[l] : queue'[l][i] \in AsSet(queue'[l])
    BY <1>2, LenProperties DEF AsSet, FirstOf
  <2>3. \A r \in Runs : phase'[l][r] # "new" => r \in RunsOf(l)
    BY <1>1, <1>2, <1>3 DEF QueuesHold
  <2> QED
    BY <1>2, <2>1, <2>2, <2>3
<1>7. \A l \in Lanes, r \in Runs :
        p[l][r] \in {"running", "returned"} => phase'[l][r] = p[l][r] /\ r \notin begun(l)
  BY <1>2, <1>3
<1>8. ActiveRun(activeTaskIds', old, phase')
  <2> SUFFICES ASSUME NEW l \in Lanes, NEW r \in Runs
               PROVE  /\ phase'[l][r] = "running" <=> r \in activeTaskIds'[l] \cup old[l]
                      /\ ~(r \in activeTaskIds'[l] /\ r \in old[l])
    BY DEF ActiveRun
  <2>1. /\ p[l][r] = "running" <=> r \in act[l] \cup old[l]
        /\ ~(r \in act[l] /\ r \in old[l])
    BY DEF WellFormed, ActiveRun
  <2>2. phase'[l][r] = "running" <=> r \in begun(l) \/ p[l][r] = "running"
    BY <1>2, <1>3, <1>7
  <2> QED
    BY <1>2, <1>7, <2>1, <2>2
<1>9. OnePerSession(activeTaskIds', maxConcurrent')
  <2> SUFFICES ASSUME NEW s \in Sessions
               PROVE  /\ maxConcurrent'[s] = 1
                      /\ \A r, t \in activeTaskIds'[s] : r = t
    BY DEF OnePerSession
  <2>1. s \in Lanes /\ max[s] = 1
    BY DEF Lanes, WellFormed, OnePerSession
  <2>2. \A r, t \in act[s] \cup begun(s) : r = t
    BY <1>1, SessionTakesOne DEF WellFormed, begun
  <2> QED
    BY <1>2, <2>1, <2>2
<1>10. ASSUME NEW r \in Runs
       PROVE  /\ SessionOf[r] \in Lanes /\ GlobalOf[r] \in Lanes
              /\ r \in begun(GlobalOf[r]) \cup AsSet(new[GlobalOf[r]]) =>
                   phase'[SessionOf[r]][r] = "running"
  <2>1. SessionOf[r] \in Lanes /\ GlobalOf[r] \in Lanes
    BY LanesAssumption DEF Lanes
  <2>2. CASE r \in AsSet(new[GlobalOf[r]])
    BY <2>1, <2>2
  <2>3. CASE r \in begun(GlobalOf[r]) /\ r \notin AsSet(new[GlobalOf[r]])
    <3>1. p[GlobalOf[r]][r] = "queued"
      BY <1>2, <2>1, <2>3
    <3>2. p[SessionOf[r]][r] = "running"
      BY <3>1 DEF WellFormed, HoldsSession
    <3> QED
      BY <1>7, <2>1, <3>2
  <2> QED
    BY <2>1, <2>2, <2>3
<1>11. HoldsSession(phase')
  <2> SUFFICES ASSUME NEW r \in Runs, phase'[GlobalOf[r]][r] \in {"queued", "running"}
               PROVE  phase'[SessionOf[r]][r] = "running"
    BY DEF HoldsSession
  <2>1. CASE r \in begun(GlobalOf[r]) \cup AsSet(new[GlobalOf[r]])
    BY <1>10, <2>1
  <2>2. CASE r \notin begun(GlobalOf[r]) \cup AsSet(new[GlobalOf[r]])
    <3>1. p[GlobalOf[r]][r] \in {"queued", "running"}
      BY <1>2, <1>10, <2>2
    <3>2. p[SessionOf[r]][r] = "running"
      BY <3>1 DEF WellFormed, HoldsSession
    <3> QED
      BY <1>7, <1>10, <3>2
  <2> QED
    BY <2>1, <2>2
<1>12. NotYetOnGlobal(phase')
  <2> SUFFICES ASSUME NEW r \in Runs,
                      phase'[SessionOf[r]][r] \in {"new", "queued", "cleared"}
               PROVE  phase'[GlobalOf[r]][r] = "new"
    BY DEF NotYetOnGlobal
  <2>1. p[SessionOf[r]][r] \in {"new", "queued", "cleared"}
    <3>1. p[SessionOf[r]][r] \in Phase
      BY <1>1, <1>10 DEF LanesTyped
    <3> QED
      BY <1>7, <1>10, <3>1 DEF Phase
  <2>2. p[GlobalOf[r]][r] = "new"
    BY <2>1 DEF WellFormed, NotYetOnGlobal
  <2>3. r \notin begun(GlobalOf[r]) \cup AsSet(new[GlobalOf[r]])
    BY <1>10
  <2> QED
    BY <1>2, <1>10, <2>2, <2>3
<1> QED
  BY <1>5, <1>6, <1>7, <1>8, <1>9, <1>11, <1>12 DEF WellFormed

-----------------------------------------------------------------------------
(* The pushes of a burst *)

(* An order of the runs of a set names each at most once. *)
LEMMA OrderIsSeq ==
  ASSUME NEW A \in SUBSET Runs, NEW f \in Orders(A)
  PROVE  f \in Seq(Runs) /\ Distinct(f) /\ AsSet(f) \subseteq A /\ Len(f) = Cardinality(A)
<1>1. Cardinality(A) \in Nat
  BY LanesAssumption, FS_Subset, FS_CardinalityType
<1>2. f \in [1..Cardinality(A) -> A] /\ Distinct(f)
  BY DEF Orders, Distinct
<1>3. f \in Seq(A) /\ f \in Seq(Runs)
  BY <1>1, <1>2, SeqDef
<1>4. AsSet(f) \subseteq A
  BY <1>3, ElementOfSeq DEF AsSet, FirstOf
<1>5. Len(f) = Cardinality(A)
  <2>1. DOMAIN f = 1..Len(f) /\ Len(f) \in Nat
    BY <1>3, LenProperties
  <2>2. 1..Len(f) = 1..Cardinality(A)
    BY <1>2, <2>1
  <2> QED
    BY <1>1, <2>1, <2>2
<1> QED
  BY <1>2, <1>3, <1>4, <1>5

(* What may be pushed on the session lanes that a burst drains.             *)
SessionPush(push, p, drained) ==
  /\ push \in [Sessions -> Seq(Runs)]
  /\ \A s \in Sessions : /\ Distinct(push[s])
                         /\ \A r \in AsSet(push[s]) : /\ r \in RunsOf(s)
                                                     /\ p[s][r] = "new"

(* The queues of the session lanes with what was pushed. *)
AreAsked(asked, q, push) == \A s \in Sessions : asked[s] = q[s] \o push[s]

(* A run that arrives at its global lane starts on its session lane in the  *)
(* same burst, and was never pushed on the global lane before.              *)
LEMMA ArrivingRuns ==
  ASSUME NEW push, NEW q, NEW act, NEW old, NEW max, NEW p, NEW drained,
         WellFormed(q, act, old, max, p), SessionPush(push, p, drained),
         NEW asked, AreAsked(asked, q, push),
         NEW r \in Arriving(asked, act, max, drained)
  PROVE  /\ r \in Runs
         /\ SessionOf[r] \in drained
         /\ r \in FirstOf(asked[SessionOf[r]],
                         Taken(asked[SessionOf[r]], act[SessionOf[r]], max[SessionOf[r]]))
         /\ p[GlobalOf[r]][r] = "new"
<1>1. PICK s \in Sessions \cap drained :
        r \in FirstOf(q[s] \o push[s], Taken(q[s] \o push[s], act[s], max[s]))
  BY DEF Arriving, AreAsked
<1>2. s \in Lanes /\ q[s] \in Seq(Runs) /\ push[s] \in Seq(Runs) /\ Distinct(q[s])
  BY DEF Lanes, WellFormed, LanesTyped, QueuesHold, SessionPush
<1>3. \A t \in AsSet(q[s]) : t \in RunsOf(s) /\ p[s][t] = "queued"
  <2>1. \A i \in 1..Len(q[s]) : q[s][i] \in Runs /\ p[s][q[s][i]] = "queued"
    BY <1>2, LenProperties, ElementOfSeq DEF WellFormed, QueuesHold
  <2> QED
    BY <1>2, <2>1 DEF AsSet, FirstOf, WellFormed, QueuesHold
<1>4. /\ Distinct(push[s]) /\ AsSet(q[s]) \cap AsSet(push[s]) = {}
      /\ \A t \in AsSet(push[s]) : t \in RunsOf(s) /\ p[s][t] = "new"
  BY <1>3 DEF SessionPush
<1>5. r \in AsSet(q[s]) \cup AsSet(push[s])
  <2> DEFINE all  == q[s] \o push[s]
             n    == Taken(all, act[s], max[s])
             rest == SubSeq(all, n + 1, Len(all))
  <2>1. all \in Seq(Runs) /\ act[s] \in SUBSET Runs /\ max[s] \in Limits
    BY <1>2, ConcatProperties DEF WellFormed, LanesTyped
  <2>2. n \in 0..Len(all)
    BY <2>1, TakenBounds
  <2>3. Parts(q[s], push[s], n, all, rest) /\ r \in FirstOf(all, n)
    BY <1>1 DEF Parts
  <2> HIDE DEF all, n, rest
  <2> QED
    BY <1>2, <1>4, <2>2, <2>3, QueueParts
<1>6. r \in RunsOf(s) /\ p[s][r] \in {"new", "queued"}
  BY <1>3, <1>4, <1>5
<1>7. r \in Runs /\ s = SessionOf[r]
  BY <1>6, LanesAssumption DEF RunsOf
<1>8. p[GlobalOf[r]][r] = "new"
  BY <1>6, <1>7 DEF WellFormed, NotYetOnGlobal
<1> QED
  BY <1>1, <1>7, <1>8 DEF AreAsked

(* The pushes that a burst consists of. *)
BurstPushes(new, push, q, act, max, p, drained) ==
  /\ Pushable(new, p)
  /\ \A s \in Sessions : new[s] = push[s]
  /\ \A r \in Runs : r \in AsSet(new[GlobalOf[r]]) =>
       SessionOf[r] \in drained /\ r \in StartedOn(SessionOf[r], new, q, act, max, drained)

LEMMA BurstIsPushes ==
  ASSUME NEW push, NEW q, NEW act, NEW old, NEW max, NEW p, NEW drained,
         WellFormed(q, act, old, max, p), SessionPush(push, p, drained),
         Burst(push, q, act, max, p, drained)
  PROVE  \E new : /\ BurstPushes(new, push, q, act, max, p, drained)
                  /\ PushAndPump(new, q, act, max, p, drained)
<1> DEFINE asked    == [s \in Sessions |-> q[s] \o push[s]]
           arriving == Arriving(asked, act, max, drained)
           at(g)    == {r \in arriving : GlobalOf[r] = g}
<1>1. PICK order \in [Globals -> UNION {Orders(A) : A \in SUBSET arriving}] :
        /\ \A g \in Globals : order[g] \in Orders(at(g))
        /\ PushAndPump([l \in Lanes |-> IF l \in Sessions THEN push[l] ELSE order[l]],
                       q, act, max, p, drained)
  BY DEF Burst
<1> DEFINE new == [l \in Lanes |-> IF l \in Sessions THEN push[l] ELSE order[l]]
<1>2. /\ \A s \in Sessions : new[s] = push[s]
      /\ \A g \in Globals : new[g] = order[g]
  BY LanesAssumption DEF Lanes
<1>3. \A r \in arriving :
        /\ r \in Runs /\ SessionOf[r] \in drained /\ p[GlobalOf[r]][r] = "new"
        /\ r \in FirstOf(asked[SessionOf[r]],
                        Taken(asked[SessionOf[r]], act[SessionOf[r]], max[SessionOf[r]]))
  <2>1. AreAsked(asked, q, push)
    BY DEF AreAsked
  <2> HIDE DEF asked
  <2> QED
    BY <2>1, ArrivingRuns
<1> HIDE DEF arriving
<1>4. ASSUME NEW g \in Globals
      PROVE  /\ new[g] \in Seq(Runs) /\ Distinct(new[g])
             /\ AsSet(new[g]) \subseteq at(g)
  <2>1. at(g) \in SUBSET Runs /\ new[g] \in Orders(at(g))
    BY <1>1, <1>2, <1>3
  <2> QED
    BY <2>1, OrderIsSeq
<1> HIDE DEF new
<1>5. Pushable(new, p)
  <2>1. ASSUME NEW l \in Lanes
        PROVE  /\ new[l] \in Seq(Runs) /\ Distinct(new[l])
               /\ \A r \in AsSet(new[l]) : r \in RunsOf(l) /\ p[l][r] = "new"
    <3>1. CASE l \in Sessions
      BY <1>2, <3>1 DEF SessionPush
    <3>2. CASE l \in Globals
      <4>1. /\ new[l] \in Seq(Runs) /\ Distinct(new[l])
            /\ \A r \in AsSet(new[l]) : r \in arriving /\ GlobalOf[r] = l
        BY <1>4, <3>2
      <4> QED
        BY <1>3, <4>1 DEF RunsOf
    <3> QED
      BY <3>1, <3>2 DEF Lanes
  <2>2. new \in [Lanes -> Seq(Runs)]
    BY <2>1 DEF new
  <2> QED
    BY <2>1, <2>2 DEF Pushable
<1>6. ASSUME NEW r \in Runs, r \in AsSet(new[GlobalOf[r]])
      PROVE  /\ SessionOf[r] \in drained
             /\ r \in StartedOn(SessionOf[r], new, q, act, max, drained)
  <2>1. SessionOf[r] \in Sessions /\ GlobalOf[r] \in Globals
    BY LanesAssumption
  <2>2. r \in arriving
    BY <1>4, <1>6, <2>1
  <2> QED
    BY <1>2, <1>3, <2>1, <2>2 DEF StartedOn, TakenOff
<1> QED
  BY <1>1, <1>2, <1>5, <1>6 DEF BurstPushes, new

(* A burst keeps the lanes well formed.                                     *)
LEMMA BurstKeeps ==
  ASSUME NEW push, NEW q, NEW act, NEW old, NEW max, NEW p, NEW drained,
         WellFormed(q, act, old, max, p), SessionPush(push, p, drained),
         Burst(push, q, act, max, p, drained)
  PROVE  /\ WellFormed(queue', activeTaskIds', old, maxConcurrent', phase')
         /\ nextTicket \in [Lanes -> Nat] => nextTicket' \in [Lanes -> Nat]
         /\ \A l \in Lanes, r \in Runs :
              p[l][r] \in {"running", "returned"} => phase'[l][r] = p[l][r]
<1>1. PICK new : /\ BurstPushes(new, push, q, act, max, p, drained)
                 /\ PushAndPump(new, q, act, max, p, drained)
  BY BurstIsPushes
<1>2. Pushable(new, p) /\ LanesTyped(q, act, old, max, p) /\ QueuesHold(q, p)
  BY <1>1 DEF BurstPushes, WellFormed
<1>3. ASSUME NEW r \in Runs, r \in AsSet(new[GlobalOf[r]])
      PROVE  phase'[SessionOf[r]][r] = "running"
  <2>1. SessionOf[r] \in Lanes
    BY LanesAssumption DEF Lanes
  <2>2. r \in StartedOn(SessionOf[r], new, q, act, max, drained)
    BY <1>1, <1>3 DEF BurstPushes
  <2> QED
    BY <1>1, <1>2, <2>1, <2>2, LaneAfter
<1>4. nextTicket \in [Lanes -> Nat] => nextTicket' \in [Lanes -> Nat]
  <2>1. \A l \in Lanes : Len(new[l]) \in Nat
    BY <1>2, LenProperties DEF Pushable
  <2>2. nextTicket' = [l \in Lanes |-> nextTicket[l] + Len(new[l])]
    BY <1>1 DEF PushAndPump
  <2> QED
    BY <2>1, <2>2
<1> QED
  BY <1>1, <1>2, <1>3, <1>4, PushAndPumpKeeps

-----------------------------------------------------------------------------
(* Steps *)

LanesOK == WellFormed(queue, activeTaskIds, stale, maxConcurrent, phase)

(* The phases of a step: a task that has begun goes on or returns.          *)
TasksGoOn == \A l \in Lanes, r \in Runs :
               phase[l][r] \in {"running", "returned"} =>
                 phase'[l][r] \in {phase[l][r], "returned"}

(* A step of the lanes does not disturb a restart that is under way, if it  *)
(* leaves nothing behind.                                                   *)
LEMMA RestartUndisturbed ==
  ASSUME IInv, UNCHANGED restartVars, TasksGoOn, LanesOK', nextTicket' \in [Lanes -> Nat],
         \A l \in Lanes : stale'[l] \subseteq stale[l]
  PROVE  IInv'
<1>1. /\ gateway' = gateway /\ watched' = watched
      /\ gateway \in {"up", "draining", "drained", "closing"}
      /\ WatchedOK(watched, stale, phase) /\ DrainedMeansEnded
  BY DEF IInv, restartVars
<1>2. ASSUME NEW t \in watched
      PROVE  /\ t[1] \in Lanes /\ t[2] \in Runs
             /\ phase'[t[1]][t[2]] \in {"running", "returned"}
             /\ t[2] \notin stale'[t[1]]
             /\ phase[t[1]][t[2]] # "running" => phase'[t[1]][t[2]] # "running"
  <2>1. t[1] \in Lanes /\ t[2] \in Runs
    BY <1>1 DEF WatchedOK
  <2>2. phase[t[1]][t[2]] \in {"running", "returned"} /\ t[2] \notin stale[t[1]]
    BY <1>1 DEF WatchedOK
  <2> QED
    BY <2>1, <2>2 DEF TasksGoOn
<1>3. WatchedOK(watched', stale', phase')
  BY <1>1, <1>2 DEF WatchedOK
<1>4. DrainedMeansEnded'
  BY <1>1, <1>2 DEF DrainedMeansEnded
<1> QED
  BY <1>1, <1>3, <1>4 DEF IInv, LanesOK

(* What runEmbeddedPiAgent pushes. *)
LEMMA SubmitIsPush ==
  ASSUME NEW r \in Runs, Submit(r)
  PROVE  SessionPush([NoPush EXCEPT ![SessionOf[r]] = <<r>>], phase, {SessionOf[r]})
<1> DEFINE s    == SessionOf[r]
           push == [NoPush EXCEPT ![s] = <<r>>]
<1>1. s \in Sessions /\ phase[s][r] = "new"
  BY LanesAssumption DEF Submit
<1>2. SessionPush(push, phase, {s})
  <2>1. push \in [Sessions -> Seq(Runs)]
    <3>1. <<>> \in Seq(Runs) /\ <<r>> \in Seq(Runs)
      OBVIOUS
    <3>2. NoPush \in [Sessions -> Seq(Runs)]
      BY <3>1 DEF NoPush
    <3> QED
      BY <3>1, <3>2
  <2>2. \A t \in Sessions : push[t] = IF t = s THEN <<r>> ELSE <<>>
    BY <1>1 DEF NoPush
  <2>3. Distinct(<<>>) /\ Distinct(<<r>>)
    BY DEF Distinct
  <2>4. AsSet(<<>>) = {} /\ AsSet(<<r>>) = {r}
    <3>1. 1..0 = {} /\ 1..1 = {1}
      OBVIOUS
    <3> QED
      BY <3>1 DEF AsSet, FirstOf
  <2>5. r \in RunsOf(s)
    BY DEF RunsOf
  <2> QED
    BY <1>1, <2>1, <2>2, <2>3, <2>4, <2>5 DEF SessionPush
<1> QED
  BY <1>2

(* A burst on the lanes as they are. *)
LEMMA SubmitStep ==
  ASSUME IInv, NEW r \in Runs, Submit(r)
  PROVE  IInv'
<1> DEFINE s    == SessionOf[r]
           push == [NoPush EXCEPT ![s] = <<r>>]
<1>1. s \in Sessions /\ phase[s][r] = "new"
  BY LanesAssumption DEF Submit
<1>2. /\ Burst(push, queue, activeTaskIds, maxConcurrent, phase, {s})
      /\ stale' = stale /\ UNCHANGED restartVars
  BY DEF Submit
<1>3. SessionPush(push, phase, {s})
  BY SubmitIsPush
<1> HIDE DEF push, s
<1>4. /\ WellFormed(queue, activeTaskIds, stale, maxConcurrent, phase)
      /\ nextTicket \in [Lanes -> Nat]
  BY DEF IInv
<1>5. /\ WellFormed(queue', activeTaskIds', stale, maxConcurrent', phase')
      /\ nextTicket' \in [Lanes -> Nat]
      /\ \A l \in Lanes, t \in Runs :
           phase[l][t] \in {"running", "returned"} => phase'[l][t] = phase[l][t]
  BY <1>2, <1>3, <1>4, BurstKeeps
<1>6. LanesOK' /\ TasksGoOn
  BY <1>2, <1>5 DEF LanesOK, TasksGoOn
<1> QED
  BY <1>2, <1>5, <1>6, RestartUndisturbed

(* Nothing is pushed by a step that only pumps. *)
LEMMA PumpOnly ==
  ASSUME NEW p, NEW drained
  PROVE  SessionPush(NoPush, p, drained)
<1>1. Distinct(<<>>) /\ AsSet(<<>>) = {}
  <2>1. 1..0 = {}
    OBVIOUS
  <2> QED
    BY <2>1 DEF Distinct, AsSet, FirstOf
<1> QED
  BY <1>1 DEF SessionPush, NoPush

(* A task ends: the lanes are well formed when pump() finds them.           *)
LEMMA CompletedWell ==
  ASSUME IInv, NEW l \in Lanes, NEW r \in Runs, phase[l][r] = "running",
         l = SessionOf[r] => phase[GlobalOf[r]][r] = "returned"
  PROVE  /\ r \notin stale[l] =>
              WellFormed(queue, [activeTaskIds EXCEPT ![l] = @ \ {r}], stale,
                         maxConcurrent, PhaseWith(l, r, "returned"))
         /\ r \in stale[l] =>
              WellFormed(queue, activeTaskIds, [stale EXCEPT ![l] = @ \ {r}],
                         maxConcurrent, PhaseWith(l, r, "returned"))
<1> DEFINE p   == PhaseWith(l, r, "returned")
           act == [activeTaskIds EXCEPT ![l] = @ \ {r}]
           old == [stale EXCEPT ![l] = @ \ {r}]
<1>1. /\ WellFormed(queue, activeTaskIds, stale, maxConcurrent, phase)
      /\ nextTicket \in [Lanes -> Nat]
  BY DEF IInv
<1>2. LanesTyped(queue, activeTaskIds, stale, maxConcurrent, phase)
  BY <1>1 DEF WellFormed
<1>3. /\ p \in [Lanes -> [Runs -> Phase]]
      /\ \A k \in Lanes, t \in Runs :
           p[k][t] = IF k = l /\ t = r THEN "returned" ELSE phase[k][t]
  BY <1>2 DEF LanesTyped, PhaseWith, Phase
<1>4. /\ act \in [Lanes -> SUBSET Runs] /\ old \in [Lanes -> SUBSET Runs]
      /\ \A k \in Lanes : act[k] = IF k = l THEN activeTaskIds[k] \ {r} ELSE activeTaskIds[k]
      /\ \A k \in Lanes : old[k] = IF k = l THEN stale[k] \ {r} ELSE stale[k]
  BY <1>2 DEF LanesTyped
<1> HIDE DEF p, act, old
<1>5. \A t \in Runs : /\ SessionOf[t] \in Sessions /\ GlobalOf[t] \in Globals
                      /\ SessionOf[t] \in Lanes /\ GlobalOf[t] \in Lanes
                      /\ SessionOf[t] # GlobalOf[t]
  BY LanesAssumption DEF Lanes
<1>6. l \in {SessionOf[r], GlobalOf[r]}
  <2>1. r \in RunsOf(l)
    BY <1>1 DEF WellFormed, QueuesHold
  <2> QED
    BY <2>1 DEF RunsOf
<1>7. QueuesHold(queue, p)
  <2>1. ASSUME NEW k \in Lanes, NEW i \in DOMAIN queue[k]
        PROVE  p[k][queue[k][i]] = "queued"
    <3>1. queue[k] \in Seq(Runs)
      BY <1>2 DEF LanesTyped
    <3>2. queue[k][i] \in Runs
      BY <3>1, LenProperties, ElementOfSeq
    <3>3. phase[k][queue[k][i]] = "queued"
      BY <1>1 DEF WellFormed, QueuesHold
    <3> QED
      BY <1>3, <3>2, <3>3
  <2>2. ASSUME NEW k \in Lanes, NEW t \in Runs, p[k][t] # "new"
        PROVE  t \in RunsOf(k)
    BY <1>1, <1>3, <2>2 DEF WellFormed, QueuesHold
  <2> QED
    BY <1>1, <2>1, <2>2 DEF WellFormed, QueuesHold
<1>8. HoldsSession(p)
  <2> SUFFICES ASSUME NEW t \in Runs, p[GlobalOf[t]][t] \in {"queued", "running"}
               PROVE  p[SessionOf[t]][t] = "running"
    BY DEF HoldsSession
  <2>1. phase[GlobalOf[t]][t] = p[GlobalOf[t]][t]
    BY <1>3, <1>5
  <2>2. phase[SessionOf[t]][t] = "running"
    BY <1>1, <2>1 DEF WellFormed, HoldsSession
  <2>3. ~(SessionOf[t] = l /\ t = r)
    BY <2>1
  <2> QED
    BY <1>3, <1>5, <2>2, <2>3
<1>9. NotYetOnGlobal(p)
  <2> SUFFICES ASSUME NEW t \in Runs, p[SessionOf[t]][t] \in {"new", "queued", "cleared"}
               PROVE  p[GlobalOf[t]][t] = "new"
    BY DEF NotYetOnGlobal
  <2>1. phase[SessionOf[t]][t] = p[SessionOf[t]][t]
    BY <1>3, <1>5
  <2>2. phase[GlobalOf[t]][t] = "new"
    BY <1>1, <2>1 DEF WellFormed, NotYetOnGlobal
  <2> QED
    BY <1>3, <1>5, <2>2
<1>10. OnePerSession(act, maxConcurrent)
  <2>1. \A s \in Sessions : s \in Lanes
    BY DEF Lanes
  <2> QED
    BY <1>1, <1>4, <2>1 DEF WellFormed, OnePerSession
<1>11. ActiveRun(activeTaskIds, stale, phase)
  BY <1>1 DEF WellFormed
<1>12. ASSUME r \notin stale[l]
       PROVE  WellFormed(queue, act, stale, maxConcurrent, p)
  <2>1. ActiveRun(act, stale, p)
    BY <1>3, <1>4, <1>11, <1>12 DEF ActiveRun
  <2>2. LanesTyped(queue, act, stale, maxConcurrent, p)
    BY <1>2, <1>3, <1>4 DEF LanesTyped
  <2> QED
    BY <1>7, <1>8, <1>9, <1>10, <2>1, <2>2 DEF WellFormed
<1>13. ASSUME r \in stale[l]
       PROVE  WellFormed(queue, activeTaskIds, old, maxConcurrent, p)
  <2>1. ActiveRun(activeTaskIds, old, p)
    BY <1>3, <1>4, <1>11, <1>13 DEF ActiveRun
  <2>2. LanesTyped(queue, activeTaskIds, old, maxConcurrent, p)
    BY <1>2, <1>3, <1>4 DEF LanesTyped
  <2> QED
    BY <1>1, <1>7, <1>8, <1>9, <2>1, <2>2 DEF WellFormed
<1> QED
  BY <1>12, <1>13 DEF p, act, old

(* The end of a task of an earlier generation touches no queue.             *)
LEMMA CompleteStep ==
  ASSUME IInv, NEW l \in Lanes, NEW r \in Runs, phase[l][r] = "running",
         l = SessionOf[r] => phase[GlobalOf[r]][r] = "returned",
         Complete(l, r)
  PROVE  IInv'
<1> DEFINE p   == PhaseWith(l, r, "returned")
           act == [activeTaskIds EXCEPT ![l] = @ \ {r}]
           old == [stale EXCEPT ![l] = @ \ {r}]
<1>1. nextTicket \in [Lanes -> Nat] /\ LanesTyped(queue, activeTaskIds, stale, maxConcurrent, phase)
  BY DEF IInv, WellFormed
<1>2. /\ \A k \in Lanes, t \in Runs :
           p[k][t] = IF k = l /\ t = r THEN "returned" ELSE phase[k][t]
      /\ \A k \in Lanes : old[k] = IF k = l THEN stale[k] \ {r} ELSE stale[k]
  BY <1>1 DEF LanesTyped, PhaseWith
<1> HIDE DEF p, act, old
<1>3. CASE r \notin stale[l]
  <2>1. /\ Burst(NoPush, queue, act, maxConcurrent, p, {l})
        /\ stale' = stale /\ UNCHANGED restartVars
    BY <1>3 DEF Complete, act, p
  <2>2. WellFormed(queue, act, stale, maxConcurrent, p)
    BY <1>3, CompletedWell DEF act, p
  <2>3. /\ WellFormed(queue', activeTaskIds', stale, maxConcurrent', phase')
        /\ nextTicket' \in [Lanes -> Nat]
        /\ \A k \in Lanes, t \in Runs :
             p[k][t] \in {"running", "returned"} => phase'[k][t] = p[k][t]
    BY <1>1, <2>1, <2>2, PumpOnly, BurstKeeps
  <2>4. LanesOK' /\ TasksGoOn
    BY <1>2, <2>1, <2>3 DEF LanesOK, TasksGoOn
  <2> QED
    BY <2>1, <2>3, <2>4, RestartUndisturbed
<1>4. CASE r \in stale[l]
  <2>1. /\ stale' = old /\ phase' = p /\ queue' = queue
        /\ activeTaskIds' = activeTaskIds /\ maxConcurrent' = maxConcurrent
        /\ nextTicket' = nextTicket /\ UNCHANGED restartVars
    BY <1>4 DEF Complete, old, p, history
  <2>2. WellFormed(queue, activeTaskIds, old, maxConcurrent, p)
    BY <1>4, CompletedWell DEF old, p
  <2>3. TasksGoOn
    BY <1>2, <2>1 DEF TasksGoOn
  <2>4. \A k \in Lanes : stale'[k] \subseteq stale[k]
    BY <1>2, <2>1
  <2>5. LanesOK'
    BY <2>1, <2>2 DEF LanesOK
  <2> QED
    BY <1>1, <2>1, <2>3, <2>4, <2>5, RestartUndisturbed
<1> QED
  BY <1>3, <1>4

LEMMA ClearStep ==
  ASSUME IInv, NEW s \in Sessions, ClearSession(s)
  PROVE  IInv'
<1>1. /\ WellFormed(queue, activeTaskIds, stale, maxConcurrent, phase)
      /\ LanesTyped(queue, activeTaskIds, stale, maxConcurrent, phase)
      /\ s \in Lanes /\ nextTicket \in [Lanes -> Nat]
  BY DEF IInv, WellFormed, Lanes
<1>2. /\ queue' = [queue EXCEPT ![s] = <<>>]
      /\ phase' = [phase EXCEPT ![s] =
                     [r \in Runs |-> IF @[r] = "queued" THEN "cleared" ELSE @[r]]]
      /\ activeTaskIds' = activeTaskIds /\ maxConcurrent' = maxConcurrent
      /\ stale' = stale /\ nextTicket' = nextTicket /\ UNCHANGED restartVars
  BY DEF ClearSession, history
<1>3. /\ queue' \in [Lanes -> Seq(Runs)]
      /\ \A l \in Lanes : queue'[l] = IF l = s THEN <<>> ELSE queue[l]
  <2>1. <<>> \in Seq(Runs)
    OBVIOUS
  <2> QED
    BY <1>1, <1>2, <2>1 DEF LanesTyped
<1>4. /\ phase' \in [Lanes -> [Runs -> Phase]]
      /\ \A l \in Lanes, r \in Runs :
           phase'[l][r] = IF l = s /\ phase[l][r] = "queued" THEN "cleared" ELSE phase[l][r]
  BY <1>1, <1>2 DEF LanesTyped, Phase
<1>5. \A r \in Runs : /\ SessionOf[r] \in Lanes /\ GlobalOf[r] \in Lanes
                      /\ GlobalOf[r] # s
  BY LanesAssumption DEF Lanes
<1>6. QueuesHold(queue', phase')
  <2>1. \A l \in Lanes : Distinct(queue'[l])
    <3>1. Distinct(<<>>)
      BY DEF Distinct
    <3> QED
      BY <1>1, <1>3, <3>1 DEF WellFormed, QueuesHold
  <2>2. ASSUME NEW l \in Lanes, NEW i \in DOMAIN queue'[l]
        PROVE  phase'[l][queue'[l][i]] = "queued"
    <3>1. l # s
      BY <1>3
    <3>2. queue'[l] = queue[l] /\ queue[l][i] \in Runs
      BY <1>1, <1>3, <3>1, LenProperties, ElementOfSeq DEF LanesTyped
    <3>3. phase[l][queue[l][i]] = "queued"
      BY <1>1, <3>2 DEF WellFormed, QueuesHold
    <3> QED
      BY <1>4, <3>1, <3>2, <3>3
  <2>3. \A l \in Lanes, r \in Runs : phase'[l][r] # "new" => r \in RunsOf(l)
    BY <1>1, <1>4 DEF WellFormed, QueuesHold
  <2> QED
    BY <2>1, <2>2, <2>3 DEF QueuesHold
<1>7. ActiveRun(activeTaskIds', stale', phase')
  <2>1. \A l \in Lanes, r \in Runs : phase'[l][r] = "running" <=> phase[l][r] = "running"
    BY <1>4
  <2> QED
    BY <1>1, <1>2, <2>1 DEF WellFormed, ActiveRun
<1>8. HoldsSession(phase') /\ NotYetOnGlobal(phase')
  <2>1. \A r \in Runs : phase'[GlobalOf[r]][r] = phase[GlobalOf[r]][r]
    BY <1>4, <1>5
  <2>2. \A r \in Runs : phase[SessionOf[r]][r] = "running" => phase'[SessionOf[r]][r] = "running"
    BY <1>4, <1>5
  <2>3. \A r \in Runs : phase'[SessionOf[r]][r] \in {"new", "queued", "cleared"} =>
                        phase[SessionOf[r]][r] \in {"new", "queued", "cleared"}
    BY <1>4, <1>5
  <2> QED
    BY <1>1, <2>1, <2>2, <2>3 DEF WellFormed, HoldsSession, NotYetOnGlobal
<1>9. LanesOK'
  BY <1>1, <1>2, <1>3, <1>4, <1>6, <1>7, <1>8 DEF LanesOK, WellFormed, LanesTyped
<1>10. TasksGoOn
  BY <1>4 DEF TasksGoOn
<1> QED
  BY <1>1, <1>2, <1>9, <1>10, RestartUndisturbed

LEMMA SetConcurrencyStep ==
  ASSUME IInv, NEW g \in Globals, NEW max \in Limits, SetConcurrency(g, max)
  PROVE  IInv'
<1> DEFINE limits == [maxConcurrent EXCEPT ![g] = max]
<1>1. /\ WellFormed(queue, activeTaskIds, stale, maxConcurrent, phase)
      /\ LanesTyped(queue, activeTaskIds, stale, maxConcurrent, phase)
      /\ nextTicket \in [Lanes -> Nat]
  BY DEF IInv, WellFormed
<1>2. /\ Burst(NoPush, queue, activeTaskIds, limits, phase, {g})
      /\ stale' = stale /\ UNCHANGED restartVars
  BY DEF SetConcurrency
<1>3. /\ limits \in [Lanes -> Limits]
      /\ \A s \in Sessions : limits[s] = maxConcurrent[s]
  BY <1>1, LanesAssumption DEF LanesTyped, Lanes
<1> HIDE DEF limits
<1>4. WellFormed(queue, activeTaskIds, stale, limits, phase)
  BY <1>1, <1>3 DEF WellFormed, LanesTyped, OnePerSession
<1>5. /\ WellFormed(queue', activeTaskIds', stale, maxConcurrent', phase')
      /\ nextTicket' \in [Lanes -> Nat]
      /\ \A l \in Lanes, t \in Runs :
           phase[l][t] \in {"running", "returned"} => phase'[l][t] = phase[l][t]
  BY <1>1, <1>2, <1>4, PumpOnly, BurstKeeps
<1>6. LanesOK' /\ TasksGoOn
  BY <1>2, <1>5 DEF LanesOK, TasksGoOn
<1> QED
  BY <1>2, <1>5, <1>6, RestartUndisturbed

(* After a reset no task is active: the running ones are stale.             *)
LEMMA ResetWell ==
  ASSUME IInv, Reset
  PROVE  WellFormed(queue, [l \in Lanes |-> {}], stale', maxConcurrent, phase)
<1> DEFINE none == [l \in Lanes |-> {}]
<1>1. /\ WellFormed(queue, activeTaskIds, stale, maxConcurrent, phase)
      /\ LanesTyped(queue, activeTaskIds, stale, maxConcurrent, phase)
      /\ stale' = [l \in Lanes |-> stale[l] \cup activeTaskIds[l]]
  BY DEF IInv, WellFormed, Reset
<1>2. /\ none \in [Lanes -> SUBSET Runs] /\ stale' \in [Lanes -> SUBSET Runs]
      /\ \A l \in Lanes : none[l] = {} /\ stale'[l] = stale[l] \cup activeTaskIds[l]
  BY <1>1 DEF LanesTyped
<1> HIDE DEF none
<1>3. LanesTyped(queue, none, stale', maxConcurrent, phase)
  BY <1>1, <1>2 DEF LanesTyped
<1>4. ActiveRun(none, stale', phase)
  BY <1>1, <1>2 DEF WellFormed, ActiveRun
<1>5. OnePerSession(none, maxConcurrent)
  BY <1>1, <1>2 DEF WellFormed, OnePerSession, Lanes
<1>6. WellFormed(queue, none, stale', maxConcurrent, phase)
  BY <1>1, <1>3, <1>4, <1>5 DEF WellFormed
<1> QED
  BY <1>6 DEF none

LEMMA ResetStep ==
  ASSUME IInv, Reset
  PROVE  IInv'
<1> DEFINE none    == [l \in Lanes |-> {}]
           drained == {l \in Lanes : queue[l] # <<>>}
<1>1. nextTicket \in [Lanes -> Nat]
  BY DEF IInv
<1>2. /\ Burst(NoPush, queue, none, maxConcurrent, phase, drained)
      /\ gateway' = "up" /\ watched' = {}
  BY DEF Reset
<1>3. WellFormed(queue, none, stale', maxConcurrent, phase)
  BY ResetWell
<1> HIDE DEF none, drained
<1>4. /\ WellFormed(queue', activeTaskIds', stale', maxConcurrent', phase')
      /\ nextTicket' \in [Lanes -> Nat]
  BY <1>1, <1>2, <1>3, PumpOnly, BurstKeeps
<1> QED
  BY <1>2, <1>4 DEF IInv, WatchedOK, DrainedMeansEnded

LEMMA RequestRestartStep ==
  ASSUME IInv, RequestRestart
  PROVE  IInv'
<1>1. /\ UNCHANGED laneVars
      /\ gateway' = "draining" /\ watched' = ActiveTasks
  BY DEF RequestRestart
<1>2. /\ WellFormed(queue', activeTaskIds', stale', maxConcurrent', phase')
      /\ nextTicket' \in [Lanes -> Nat]
  BY <1>1 DEF IInv, laneVars, history
<1>3. WatchedOK(watched', stale', phase')
  BY <1>1 DEF IInv, WellFormed, ActiveRun, WatchedOK, ActiveTasks, laneVars
<1> QED
  BY <1>1, <1>2, <1>3 DEF IInv, DrainedMeansEnded

(* A watched task that runs is still active, so a poll that finds none of   *)
(* the watched tasks active finds none of them running.                     *)
LEMMA WaitEndsStep ==
  ASSUME IInv, WaitEnds
  PROVE  IInv'
<1>1. /\ UNCHANGED laneVars /\ watched' = watched
      /\ gateway' = IF watched \cap ActiveTasks = {} THEN "drained" ELSE "closing"
  BY DEF WaitEnds
<1>2. /\ WellFormed(queue', activeTaskIds', stale', maxConcurrent', phase')
      /\ nextTicket' \in [Lanes -> Nat]
  BY <1>1 DEF IInv, laneVars, history
<1>3. WatchedOK(watched', stale', phase')
  BY <1>1 DEF IInv, WatchedOK, laneVars
<1>4. DrainedMeansEnded'
  <2> SUFFICES ASSUME gateway' = "drained", NEW t \in watched
               PROVE  phase[t[1]][t[2]] # "running"
    BY <1>1 DEF DrainedMeansEnded, laneVars
  <2>1. t \in Lanes \X Runs /\ t \notin ActiveTasks /\ t[2] \notin stale[t[1]]
    BY <1>1 DEF IInv, WatchedOK
  <2>2. t[1] \in Lanes /\ t[2] \in Runs /\ t[2] \notin activeTaskIds[t[1]]
    BY <2>1 DEF ActiveTasks
  <2> QED
    BY <2>1, <2>2 DEF IInv, WellFormed, ActiveRun
<1> QED
  BY <1>1, <1>2, <1>3, <1>4 DEF IInv

LEMMA NextStep ==
  ASSUME IInv, Next
  PROVE  IInv'
<1>1. \A r \in Runs : /\ SessionOf[r] \in Lanes /\ GlobalOf[r] \in Lanes
                      /\ SessionOf[r] # GlobalOf[r]
  BY LanesAssumption DEF Lanes
<1>2. CASE \E r \in Runs : Submit(r)
  BY <1>2, SubmitStep
<1>3. CASE \E r \in Runs : RunEnds(r)
  <2>1. PICK r \in Runs : RunEnds(r)
    BY <1>3
  <2> QED
    BY <1>1, <2>1, CompleteStep DEF RunEnds
<1>4. CASE \E r \in Runs : SessionEnds(r)
  <2>1. PICK r \in Runs : SessionEnds(r)
    BY <1>4
  <2> QED
    BY <1>1, <2>1, CompleteStep DEF SessionEnds
<1>5. CASE \E s \in Sessions : ClearSession(s)
  BY <1>5, ClearStep
<1>6. CASE \E g \in Globals, max \in Limits : SetConcurrency(g, max)
  BY <1>6, SetConcurrencyStep
<1>7. CASE RequestRestart
  BY <1>7, RequestRestartStep
<1>8. CASE WaitEnds
  BY <1>8, WaitEndsStep
<1>9. CASE Reset
  BY <1>9, ResetStep
<1> QED
  BY <1>2, <1>3, <1>4, <1>5, <1>6, <1>7, <1>8, <1>9 DEF Next

LEMMA InitInv == Init => IInv
<1> SUFFICES ASSUME Init PROVE IInv
  OBVIOUS
<1>1. <<>> \in Seq(Runs) /\ Distinct(<<>>) /\ DOMAIN <<>> = {}
  BY DEF Distinct
<1>2. \A l \in Lanes, r \in Runs : phase[l][r] = "new"
  BY DEF Init
<1>3. LanesTyped(queue, activeTaskIds, stale, maxConcurrent, phase)
  BY <1>1, LimitsAssumption DEF Init, LanesTyped, Phase
<1>4. QueuesHold(queue, phase)
  BY <1>1, <1>2 DEF Init, QueuesHold
<1>5. ActiveRun(activeTaskIds, stale, phase) /\ OnePerSession(activeTaskIds, maxConcurrent)
  BY <1>2 DEF Init, ActiveRun, OnePerSession, Lanes
<1>6. HoldsSession(phase) /\ NotYetOnGlobal(phase)
  BY <1>2, LanesAssumption DEF HoldsSession, NotYetOnGlobal, Lanes
<1> QED
  BY <1>3, <1>4, <1>5, <1>6 DEF Init, IInv, WellFormed, WatchedOK, DrainedMeansEnded

-----------------------------------------------------------------------------
(* Theorems *)

(* IInv holds in every reachable state of the lanes and of the restart.     *)
THEOREM Invariance == Spec => []IInv
<1>1. IInv /\ [Next]_vars => IInv'
  <2>1. IInv /\ Next => IInv'
    BY NextStep
  <2>2. IInv /\ UNCHANGED vars => IInv'
    BY DEF IInv, vars, history, restartVars, DrainedMeansEnded
  <2> QED
    BY <2>1, <2>2
<1> QED
  BY <1>1, InitInv, PTL DEF Spec

(* Two runs of one session (runEmbeddedPiAgent) execute at once only if     *)
(* resetAllLanes has left one of them behind.                               *)
THEOREM Exclusion == Spec => []OnlyLeftoversOverlap
<1>1. IInv => OnlyLeftoversOverlap
  <2> SUFFICES ASSUME IInv, NEW r \in Runs, NEW t \in Runs,
                      SameSession(r, t), Executing(r), Executing(t)
               PROVE  {r, t} \cap stale[SessionOf[r]] # {}
    BY DEF OnlyLeftoversOverlap
  <2>1. SessionOf[r] = SessionOf[t] /\ r # t
    BY DEF SameSession
  <2>2. SessionOf[r] \in Sessions /\ SessionOf[r] \in Lanes
    BY LanesAssumption DEF Lanes
  <2>3. phase[SessionOf[r]][r] = "running" /\ phase[SessionOf[t]][t] = "running"
    BY DEF Executing, IInv, WellFormed, HoldsSession
  <2>4. {r, t} \subseteq activeTaskIds[SessionOf[r]] \cup stale[SessionOf[r]]
    BY <2>1, <2>2, <2>3 DEF IInv, WellFormed, ActiveRun
  <2>5. ~(r \in activeTaskIds[SessionOf[r]] /\ t \in activeTaskIds[SessionOf[r]])
    BY <2>1, <2>2 DEF IInv, WellFormed, OnePerSession
  <2> QED
    BY <2>4, <2>5
<1> QED
  BY <1>1, Invariance, PTL

(* When waitForActiveTasks reports that all active tasks have drained, no   *)
(* task of the snapshot it took is still at work.                           *)
THEOREM DrainIsComplete == Spec => []DrainedMeansEnded
<1>1. IInv => DrainedMeansEnded
  BY DEF IInv
<1> QED
  BY <1>1, Invariance, PTL
=============================================================================
