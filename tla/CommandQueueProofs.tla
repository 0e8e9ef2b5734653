------------------------- MODULE CommandQueueProofs -------------------------
(***************************************************************************)
(* Proofs about CommandQueue for every finite set of entries and all       *)
(* limits.  Each operation edits the lane and then pumps it: the edit      *)
(* leaves a well-formed lane, and pump() makes IInv of a well-formed lane. *)
(***************************************************************************)
EXTENDS CommandQueue, FiniteSetTheorems, SequenceTheorems, TLAPS

(* The loop of pump() stops when the queue is empty or the lane is full.    *)
LEMMA StartableBounds ==
  ASSUME NEW w \in Nat, NEW a \in Nat, NEW m \in Nat
  PROVE  LET n == Startable(w, a, m) IN
         /\ n \in 0..w
         /\ n > 0 => a + n <= m
         /\ n < w => a + n >= m
  BY DEF Startable

(* A queue without repetitions: its first n entries are n entries.          *)
LEMMA FirstOfCount ==
  ASSUME NEW q \in Seq(Entries), Distinct(q), NEW n \in 0..Len(q)
  PROVE  /\ IsFiniteSet(FirstOf(q, n))
         /\ Cardinality(FirstOf(q, n)) = n
<1> DEFINE f == [i \in 1..n |-> q[i]]
<1>1. n \in Nat /\ 1..n \subseteq DOMAIN q
  BY LenProperties
<1>2. f \in Bijection(1..n, FirstOf(q, n))
  <2>1. f \in [1..n -> FirstOf(q, n)]
    BY DEF FirstOf
  <2>2. \A t \in FirstOf(q, n) : \E s \in 1..n : f[s] = t
    BY DEF FirstOf
  <2>3. \A a, b \in 1..n : f[a] = f[b] => a = b
    BY <1>1 DEF Distinct
  <2> QED
    BY <2>1, <2>2, <2>3 DEF Bijection, Injection, Surjection, IsInjective
<1>3. ExistsBijection(1..n, FirstOf(q, n))
  BY <1>2 DEF ExistsBijection
<1>4. IsFiniteSet(1..n) /\ Cardinality(1..n) = n
  BY <1>1, FS_Interval
<1> QED
  BY <1>3, <1>4, FS_Bijection

(* A lane as pump() finds it ...                                            *)
Pumpable(q, act, old, max, p, t, next) ==
  /\ q \in Seq(Entries) /\ act \in SUBSET Entries /\ old \in SUBSET Entries
  /\ max \in Limits /\ p \in [Entries -> Phase]
  /\ t \in [Entries -> Nat] /\ next \in Nat
  /\ WellFormed(q, act, old, p, t, next)

(* ... and as it leaves it.                                                 *)
Pumped(act, old, max, p, t, next) ==
  /\ queue' \in Seq(Entries)
  /\ activeTaskIds' \in SUBSET Entries
  /\ phase' \in [Entries -> Phase]
  /\ WellFormed(queue', activeTaskIds', old, phase', t, next)
  /\ queue' # <<>> => Cardinality(activeTaskIds') >= max
  /\ activeTaskIds' \ act # {} => Cardinality(activeTaskIds') <= max
  /\ \A e \in Entries : p[e] \in Settled => phase'[e] = p[e]

(* pump() on a well-formed lane: the lane is well formed again, full or     *)
(* empty, it took up work only in its room, and settled nothing.            *)
LEMMA PumpLane ==
  ASSUME NEW q, NEW act, NEW old, NEW max, NEW p, NEW t, NEW next,
         Pumpable(q, act, old, max, p, t, next),
         Pump(q, act, max, p)
  PROVE  Pumped(act, old, max, p, t, next)
<1> USE DEF Pumpable
<1> DEFINE n == Startable(Len(q), Cardinality(act), max)
           top == FirstOf(q, n)
<1>1. /\ queue' = SubSeq(q, n + 1, Len(q))
      /\ activeTaskIds' = act \cup top
      /\ phase' = [e \in Entries |-> IF e \in top THEN "running" ELSE p[e]]
  BY DEF Pump
<1>2. /\ Len(q) \in Nat
      /\ DOMAIN q = 1..Len(q)
      /\ \A i \in 1..Len(q) : q[i] \in Entries
  BY LenProperties, ElementOfSeq
<1>3. IsFiniteSet(act) /\ Cardinality(act) \in Nat
  BY EntriesAssumption, FS_Subset, FS_CardinalityType
<1>4. max \in Nat
  BY LimitsAssumption
<1>5. Len(q) \in Nat
  BY LenProperties
<1>6. /\ n \in 0..Len(q)
      /\ n > 0 => Cardinality(act) + n <= max
      /\ n < Len(q) => Cardinality(act) + n >= max
  BY <1>3, <1>4, <1>5, StartableBounds
<1> HIDE DEF n
<1>7. n \in Nat /\ n <= Len(q)
  BY <1>6, <1>5
<1>8. Distinct(q)
  BY DEF WellFormed, Holds
<1>9. \A e \in top : e \in Entries /\ p[e] = "queued"
  BY <1>2, <1>6 DEF FirstOf, WellFormed, Holds
<1>10. /\ queue' \in Seq(Entries)
      /\ Len(queue') = Len(q) - n
      /\ \A i \in 1..(Len(q) - n) : queue'[i] = q[n + i]
  <2>1. \A i \in (n + 1)..Len(q) : q[i] \in Entries
    BY <1>2, <1>6
  <2>2. n + 1 \in Int /\ Len(q) \in Int
    BY <1>2, <1>6
  <2>3. /\ SubSeq(q, n + 1, Len(q)) \in Seq(Entries)
        /\ Len(SubSeq(q, n + 1, Len(q)))
             = IF n + 1 <= Len(q) THEN Len(q) - (n + 1) + 1 ELSE 0
        /\ \A i \in 1..(Len(q) - (n + 1) + 1) :
             SubSeq(q, n + 1, Len(q))[i] = q[n + 1 + i - 1]
    BY <2>1, <2>2, SubSeqProperties
  <2>4. n \in Nat /\ n <= Len(q) /\ Len(q) - (n + 1) + 1 = Len(q) - n
    BY <1>2, <1>6
  <2>5. Len(queue') = Len(q) - n
    <3>1. (IF n + 1 <= Len(q) THEN Len(q) - (n + 1) + 1 ELSE 0) = Len(q) - n
      BY <1>5, <1>7
    <3> QED
      BY <1>1, <2>3, <3>1
  <2>6. ASSUME NEW i \in 1..(Len(q) - n)
        PROVE  queue'[i] = q[n + i]
    <3>1. n + 1 + i - 1 = n + i
      BY <2>4
    <3> QED
      BY <1>1, <2>3, <2>4, <3>1
  <2> QED
    BY <1>1, <2>3, <2>5, <2>6
<1>11. DOMAIN queue' = 1..(Len(q) - n)
  BY <1>10, LenProperties
<1>12. \A i \in DOMAIN queue' : /\ i \in Nat \ {0}
                               /\ n + i \in 1..Len(q)
                               /\ queue'[i] = q[n + i]
                               /\ \A j \in Int : i < j => n + i < n + j
  <2>1. n \in Nat
    BY <1>2, <1>6
  <2>2. ASSUME NEW i \in 1..(Len(q) - n)
        PROVE  /\ i \in Nat \ {0}
               /\ n + i \in 1..Len(q)
               /\ \A j \in Int : i < j => n + i < n + j
    BY <1>2, <2>1
  <2> QED
    BY <1>10, <1>11, <2>2
<1>13. IsFiniteSet(top) /\ Cardinality(top) = n
  BY <1>6, <1>8, FirstOfCount
<1>14. Cardinality(activeTaskIds') = Cardinality(act) + n
  <2>1. act \cap top = {}
    BY <1>9 DEF WellFormed
  <2>2. Cardinality(act \cap top) = 0
    BY <2>1, FS_EmptySet
  <2>3. Cardinality(act \cup top) = Cardinality(act) + n - Cardinality(act \cap top)
    BY <1>3, <1>13, FS_Union
  <2> QED
    BY <1>1, <1>3, <1>7, <2>2, <2>3
<1>15. phase' \in [Entries -> Phase] /\ activeTaskIds' \in SUBSET Entries
  BY <1>1, <1>9 DEF Phase
<1>16. Holds(queue', phase')
  <2>1. Distinct(queue')
    <3>1. SUFFICES ASSUME NEW i \in DOMAIN queue', NEW j \in DOMAIN queue',
                          queue'[i] = queue'[j]
                   PROVE  i = j
      BY DEF Distinct
    <3>2. q[n + i] = q[n + j] /\ n + i \in DOMAIN q /\ n + j \in DOMAIN q
      BY <1>2, <1>12, <3>1
    <3>3. n + i = n + j
      BY <1>8, <3>2 DEF Distinct
    <3> QED
      BY <1>12, <1>7, <3>3
  <2>2. ASSUME NEW e \in Entries
        PROVE  phase'[e] = "queued" <=> \E i \in DOMAIN queue' : queue'[i] = e
    <3>1. phase'[e] = "queued" <=> p[e] = "queued" /\ e \notin top
      BY <1>1
    <3>2. p[e] = "queued" <=> \E i \in 1..Len(q) : q[i] = e
      BY <1>2 DEF WellFormed, Holds
    <3>3. ASSUME NEW i \in 1..Len(q), q[i] = e
          PROVE  e \in top <=> i <= n
      <4>1. i <= n => e \in top
        BY <1>5, <1>7, <3>3 DEF FirstOf
      <4>2. ASSUME NEW k \in 1..n, q[k] = e PROVE i = k
        <5>1. i \in DOMAIN q /\ k \in DOMAIN q
          BY <1>2, <1>5, <1>7, <4>2
        <5> QED
          BY <1>8, <3>3, <4>2, <5>1 DEF Distinct
      <4>3. ASSUME e \in top PROVE i <= n
        <5>1. PICK k \in 1..n : q[k] = e
          BY <4>3 DEF FirstOf
        <5>2. i = k
          BY <4>2, <5>1
        <5> QED
          BY <1>5, <1>7, <5>1, <5>2
      <4> QED
        BY <4>1, <4>3
    <3>4. ASSUME NEW i \in 1..Len(q), q[i] = e, i > n
          PROVE  \E k \in DOMAIN queue' : queue'[k] = e
      <4>1. i - n \in 1..(Len(q) - n) /\ n + (i - n) = i
        BY <1>2, <1>6, <3>4
      <4> QED
        BY <1>10, <1>11, <3>4, <4>1
    <3>5. ASSUME NEW k \in DOMAIN queue', queue'[k] = e
          PROVE  n + k \in 1..Len(q) /\ q[n + k] = e /\ ~(n + k <= n)
      BY <1>12, <1>7, <3>5
    <3>6. CASE phase'[e] = "queued"
      <4>1. PICK i \in 1..Len(q) : q[i] = e
        BY <3>1, <3>2, <3>6
      <4>2. i > n
        BY <1>2, <1>6, <3>1, <3>3, <3>6, <4>1
      <4> QED
        BY <3>4, <3>6, <4>1, <4>2
    <3>7. CASE phase'[e] # "queued"
      <4>1. SUFFICES ASSUME NEW k \in DOMAIN queue', queue'[k] = e
                     PROVE  FALSE
        BY <3>7
      <4> QED
        BY <3>1, <3>2, <3>3, <3>5, <3>7, <4>1
    <3> QED
      BY <3>6, <3>7
  <2> QED
    BY <2>1, <2>2 DEF Holds
<1>17. /\ activeTaskIds' = {e \in Entries : phase'[e] = "running"} \ old
       /\ old \subseteq {e \in Entries : phase'[e] = "running"}
  <2>1. /\ act = {e \in Entries : p[e] = "running"} \ old
        /\ old \subseteq {e \in Entries : p[e] = "running"}
    BY DEF WellFormed
  <2>2. top \cap old = {}
    BY <1>9, <2>1
  <2> QED
    BY <1>1, <1>9, <2>1, <2>2
<1>18. Ordered(queue', phase', t)
  <2>1. /\ \A i, j \in 1..Len(q) : i < j => t[q[i]] < t[q[j]]
        /\ \A e \in Entries : p[e] \in Started =>
             \A i \in 1..Len(q) : t[e] < t[q[i]]
    BY <1>2 DEF WellFormed, Ordered
  <2>2. ASSUME NEW i \in DOMAIN queue', NEW j \in DOMAIN queue', i < j
        PROVE  t[queue'[i]] < t[queue'[j]]
    <3>1. /\ n + i \in 1..Len(q) /\ queue'[i] = q[n + i]
          /\ n + j \in 1..Len(q) /\ queue'[j] = q[n + j]
          /\ n + i < n + j
      BY <1>12, <2>2
    <3> QED
      BY <2>1, <3>1
  <2>3. ASSUME NEW e \in Entries, phase'[e] \in Started, NEW i \in DOMAIN queue'
        PROVE  t[e] < t[queue'[i]]
    <3>1. n + i \in 1..Len(q) /\ queue'[i] = q[n + i] /\ i \in 1..(Len(q) - n)
      BY <1>11, <1>12
    <3>2. CASE e \in top
      <4>1. PICK k \in 1..n : q[k] = e
        BY <3>2 DEF FirstOf
      <4>2. k \in 1..Len(q) /\ k < n + i
        BY <1>2, <1>6, <3>1
      <4> QED
        BY <2>1, <3>1, <4>1, <4>2
    <3>3. CASE e \notin top
      <4>1. p[e] \in Started
        BY <1>1, <2>3, <3>3
      <4> QED
        BY <2>1, <3>1, <4>1
    <3> QED
      BY <3>2, <3>3
  <2> QED
    BY <2>2, <2>3 DEF Ordered
<1>19. \A e \in Entries : phase'[e] # "new" => t[e] <= next
  BY <1>1, <1>9 DEF WellFormed
<1>20. WellFormed(queue', activeTaskIds', old, phase', t, next)
  BY <1>16, <1>17, <1>18, <1>19 DEF WellFormed
<1>21. queue' # <<>> => Cardinality(activeTaskIds') >= max
  <2>1. queue' # <<>> => Len(queue') # 0
    BY <1>10, EmptySeq
  <2>2. n # Len(q) => Cardinality(act) + n >= max
    BY <1>6, <1>5, <1>7
  <2>3. Len(queue') # 0 => n # Len(q)
    BY <1>2, <1>10
  <2> QED
    BY <1>14, <2>1, <2>2, <2>3
<1>22. activeTaskIds' \ act # {} => Cardinality(activeTaskIds') <= max
  <2>1. ASSUME activeTaskIds' \ act # {} PROVE n > 0
    <3>1. top # {}
      BY <1>1, <2>1
    <3> QED
      BY <1>2, <1>6, <3>1 DEF FirstOf
  <2> QED
    BY <1>3, <1>6, <1>14, <2>1
<1>23. \A e \in Entries : p[e] \in Settled => phase'[e] = p[e]
  BY <1>1, <1>9 DEF Settled
<1> QED
  BY <1>10, <1>15, <1>20, <1>21, <1>22, <1>23 DEF Pumped

(* Pushing a batch of fresh entries leaves a well-formed lane to pump,      *)
(* whatever of the running tasks counts as active.                          *)
LEMMA PushLane ==
  ASSUME IInv, NEW new \in Seq(Fresh), Distinct(new), Numbered(new),
         NEW act \in SUBSET Entries, NEW old \in SUBSET Entries,
         act \cap old = {}, act \cup old = activeTaskIds \cup stale
  PROVE  /\ queue \o new \in Seq(Entries)
         /\ Queued(new) \in [Entries -> Phase]
         /\ ticket' \in [Entries -> Nat]
         /\ nextTicket' \in Nat
         /\ WellFormed(queue \o new, act, old, Queued(new), ticket', nextTicket')
         /\ \A e \in Entries : phase[e] \in Settled => Queued(new)[e] = phase[e]
<1> DEFINE q == queue \o new
           p == Queued(new)
           came == FirstOf(new, Len(new))
<1>1. /\ queue \in Seq(Entries)
      /\ phase \in [Entries -> Phase]
      /\ ticket \in [Entries -> Nat]
      /\ nextTicket \in Nat
      /\ WellFormed(queue, activeTaskIds, stale, phase, ticket, nextTicket)
  BY DEF IInv, TypeOK
<1>2. new \in Seq(Entries) /\ \A i \in 1..Len(new) : phase[new[i]] = "new"
  <2>1. Fresh \subseteq Entries
    BY DEF Fresh
  <2>2. \A i \in 1..Len(new) : new[i] \in Fresh
    BY ElementOfSeq
  <2> QED
    BY <2>1, <2>2, SeqMonotonic DEF Fresh
<1>3. /\ Len(queue) \in Nat /\ DOMAIN queue = 1..Len(queue)
      /\ \A i \in 1..Len(queue) : queue[i] \in Entries
  BY <1>1, LenProperties, ElementOfSeq
<1>4. /\ Len(new) \in Nat /\ DOMAIN new = 1..Len(new)
      /\ \A i \in 1..Len(new) : new[i] \in Entries
  BY <1>2, LenProperties, ElementOfSeq
<1>5. /\ q \in Seq(Entries)
      /\ Len(q) = Len(queue) + Len(new)
      /\ \A i \in 1..(Len(queue) + Len(new)) :
           q[i] = IF i <= Len(queue) THEN queue[i] ELSE new[i - Len(queue)]
  BY <1>1, <1>2, ConcatProperties
<1>6. DOMAIN q = 1..(Len(queue) + Len(new))
  BY <1>5, LenProperties
<1> HIDE DEF q
<1>7. came \subseteq Entries /\ \A e \in came : phase[e] = "new"
  BY <1>2, <1>4 DEF FirstOf
<1>8. p = [e \in Entries |-> IF e \in came THEN "queued" ELSE phase[e]]
  BY DEF Queued
<1> HIDE DEF p
<1>9. p \in [Entries -> Phase]
  BY <1>1, <1>8 DEF Phase
(* The tickets of the batch follow all those drawn before, in its order.    *)
<1>10. /\ ticket' \in [Entries -> Nat]
       /\ nextTicket' = nextTicket + Len(new)
       /\ nextTicket' \in Nat
       /\ \A i \in 1..Len(new) : ticket'[new[i]] = nextTicket + i
       /\ \A e \in Entries \ came : ticket'[e] = ticket[e]
  <2>1. ASSUME NEW e \in came
        PROVE  /\ (CHOOSE i \in DOMAIN new : new[i] = e) \in 1..Len(new)
               /\ new[CHOOSE i \in DOMAIN new : new[i] = e] = e
    BY <1>4 DEF FirstOf
  <2>2. ASSUME NEW i \in 1..Len(new)
        PROVE  (CHOOSE k \in DOMAIN new : new[k] = new[i]) = i
    BY <1>4 DEF Distinct
  <2>3. /\ ticket' = [e \in Entries |->
                       IF e \in came
                         THEN nextTicket + (CHOOSE i \in DOMAIN new : new[i] = e)
                         ELSE ticket[e]]
        /\ nextTicket' = nextTicket + Len(new)
    BY DEF Numbered
  <2>4. \A i \in 1..Len(new) : new[i] \in came
    BY DEF FirstOf
  <2>5. \A e \in came : nextTicket + (CHOOSE i \in DOMAIN new : new[i] = e) \in Nat
    BY <1>1, <1>4, <2>1
  <2>6. ticket' \in [Entries -> Nat]
    BY <1>1, <2>3, <2>5
  <2>7. \A i \in 1..Len(new) : ticket'[new[i]] = nextTicket + i
    BY <1>4, <2>2, <2>3, <2>4
  <2>8. \A e \in Entries \ came : ticket'[e] = ticket[e]
    BY <2>3
  <2>9. nextTicket' \in Nat
    BY <1>1, <1>4, <2>3
  <2> QED
    BY <2>3, <2>6, <2>7, <2>8, <2>9
(* Where the entries of the longer queue come from.                         *)
<1>11. ASSUME NEW i \in DOMAIN q
       PROVE  \/ /\ i \in 1..Len(queue) /\ q[i] = queue[i]
                 /\ phase[q[i]] = "queued" /\ q[i] \in Entries \ came
                 /\ ticket'[q[i]] = ticket[queue[i]] /\ ticket[queue[i]] <= nextTicket
              \/ /\ i - Len(queue) \in 1..Len(new) /\ q[i] = new[i - Len(queue)]
                 /\ q[i] \in came /\ i > Len(queue)
                 /\ ticket'[q[i]] = nextTicket + (i - Len(queue))
  <2>1. CASE i <= Len(queue)
    <3>1. i \in 1..Len(queue) /\ q[i] = queue[i]
      BY <1>3, <1>4, <1>5, <1>6, <2>1
    <3>2. phase[queue[i]] = "queued" /\ queue[i] \in Entries
      BY <1>1, <1>3, <3>1 DEF WellFormed, Holds
    <3>3. queue[i] \notin came
      BY <1>7, <3>2
    <3>4. ticket[queue[i]] <= nextTicket
      BY <1>1, <3>2 DEF WellFormed
    <3> QED
      BY <1>10, <3>1, <3>2, <3>3, <3>4
  <2>2. CASE ~(i <= Len(queue))
    <3>1. i \in 1..(Len(queue) + Len(new)) /\ i > Len(queue)
      BY <1>3, <1>6, <2>2
    <3>2. i - Len(queue) \in 1..Len(new) /\ q[i] = new[i - Len(queue)]
      BY <1>3, <1>4, <1>5, <2>2, <3>1
    <3>3. new[i - Len(queue)] \in came
      BY <3>2 DEF FirstOf
    <3> QED
      BY <1>10, <3>1, <3>2, <3>3
  <2> QED
    BY <2>1, <2>2
<1>12. ASSUME NEW i \in 1..Len(new)
       PROVE  Len(queue) + i \in DOMAIN q /\ q[Len(queue) + i] = new[i]
  <2>1. /\ Len(queue) + i \in 1..(Len(queue) + Len(new))
        /\ ~(Len(queue) + i <= Len(queue))
        /\ Len(queue) + i - Len(queue) = i
    BY <1>3, <1>4
  <2> QED
    BY <1>5, <1>6, <2>1
<1>13. ASSUME NEW i \in 1..Len(queue)
       PROVE  i \in DOMAIN q /\ q[i] = queue[i]
  BY <1>3, <1>4, <1>5, <1>6
<1>14. Holds(q, p)
  <2>1. Distinct(q)
    <3>1. SUFFICES ASSUME NEW i \in DOMAIN q, NEW j \in DOMAIN q, q[i] = q[j]
                   PROVE  i = j
      BY DEF Distinct
    <3>2. CASE q[i] \in came
      <4>1. /\ i - Len(queue) \in DOMAIN new /\ j - Len(queue) \in DOMAIN new
            /\ new[i - Len(queue)] = new[j - Len(queue)]
        BY <1>4, <1>11, <3>1, <3>2
      <4>2. i - Len(queue) = j - Len(queue)
        BY <4>1 DEF Distinct
      <4> QED
        BY <1>3, <1>6, <4>2
    <3>3. CASE q[i] \notin came
      <4>1. i \in DOMAIN queue /\ j \in DOMAIN queue /\ queue[i] = queue[j]
        BY <1>3, <1>11, <3>1, <3>3
      <4> QED
        BY <1>1, <4>1 DEF WellFormed, Holds, Distinct
    <3> QED
      BY <3>2, <3>3
  <2>2. ASSUME NEW e \in Entries
        PROVE  p[e] = "queued" <=> \E i \in DOMAIN q : q[i] = e
    <3>1. CASE e \in came
      <4>1. PICK i \in 1..Len(new) : new[i] = e
        BY <3>1 DEF FirstOf
      <4> QED
        BY <1>8, <1>12, <3>1, <4>1
    <3>2. CASE e \notin came
      <4>1. phase[e] = "queued" <=> \E i \in 1..Len(queue) : queue[i] = e
        BY <1>1, <1>3 DEF WellFormed, Holds
      <4>2. (\E i \in DOMAIN q : q[i] = e) <=> \E i \in 1..Len(queue) : queue[i] = e
        BY <1>11, <1>13, <3>2
      <4> QED
        BY <1>8, <3>2, <4>1, <4>2
    <3> QED
      BY <3>1, <3>2
  <2> QED
    BY <2>1, <2>2 DEF Holds
<1>15. /\ act = {e \in Entries : p[e] = "running"} \ old
       /\ old \subseteq {e \in Entries : p[e] = "running"}
  <2>1. \A e \in Entries : p[e] = "running" <=> phase[e] = "running"
    BY <1>7, <1>8
  <2>2. \A e \in Entries : e \in act \cup old <=> phase[e] = "running"
    BY <1>1 DEF WellFormed
  <2> QED
    BY <2>1, <2>2
<1>16. Ordered(q, p, ticket')
  <2>1. ASSUME NEW i \in DOMAIN q, NEW j \in DOMAIN q, i < j
        PROVE  ticket'[q[i]] < ticket'[q[j]]
    <3>1. CASE q[j] \in came
      <4>1. /\ j - Len(queue) \in 1..Len(new)
            /\ ticket'[q[j]] = nextTicket + (j - Len(queue))
        BY <1>11, <3>1
      <4>2. CASE q[i] \in came
        <5>1. ticket'[q[i]] = nextTicket + (i - Len(queue))
          BY <1>11, <4>2
        <5> QED
          BY <1>1, <1>3, <1>6, <2>1, <4>1, <5>1
      <4>3. CASE q[i] \notin came
        <5>1. ticket'[q[i]] <= nextTicket /\ ticket'[q[i]] \in Nat
          BY <1>1, <1>3, <1>11, <4>3
        <5>2. nextTicket < nextTicket + (j - Len(queue))
          BY <1>1, <1>4, <4>1
        <5> QED
          BY <1>1, <1>3, <1>6, <4>1, <5>1, <5>2
      <4> QED
        BY <4>2, <4>3
    <3>2. CASE q[j] \notin came
      <4>1. j \in 1..Len(queue) /\ ticket'[q[j]] = ticket[queue[j]]
        BY <1>11, <3>2
      <4>2. i \in 1..Len(queue) /\ i <= Len(queue)
        BY <1>3, <1>6, <2>1, <4>1
      <4>3. ticket'[q[i]] = ticket[queue[i]]
        BY <1>11, <1>3, <1>6, <4>2
      <4> QED
        BY <1>1, <1>3, <2>1, <4>1, <4>2, <4>3 DEF WellFormed, Ordered
    <3> QED
      BY <3>1, <3>2
  <2>2. ASSUME NEW e \in Entries, p[e] \in Started, NEW i \in DOMAIN q
        PROVE  ticket'[e] < ticket'[q[i]]
    <3>1. e \notin came /\ phase[e] \in Started
      BY <1>8, <2>2 DEF Started
    <3>2. ticket'[e] = ticket[e] /\ ticket[e] <= nextTicket /\ ticket[e] \in Nat
      BY <1>1, <1>10, <3>1 DEF WellFormed, Started
    <3>3. CASE q[i] \in came
      <4>1. /\ i - Len(queue) \in 1..Len(new)
            /\ ticket'[q[i]] = nextTicket + (i - Len(queue))
        BY <1>11, <3>3
      <4>2. nextTicket < nextTicket + (i - Len(queue))
        BY <1>1, <1>4, <4>1
      <4> QED
        BY <1>1, <1>3, <1>6, <3>2, <4>1, <4>2
    <3>4. CASE q[i] \notin came
      <4>1. i \in DOMAIN queue /\ ticket'[q[i]] = ticket[queue[i]]
        BY <1>3, <1>11, <3>4
      <4> QED
        BY <1>1, <3>1, <3>2, <4>1 DEF WellFormed, Ordered
    <3> QED
      BY <3>3, <3>4
  <2> QED
    BY <2>1, <2>2 DEF Ordered
<1>17. \A e \in Entries : p[e] # "new" => ticket'[e] <= nextTicket'
  <2>1. ASSUME NEW e \in Entries, p[e] # "new"
        PROVE  ticket'[e] <= nextTicket'
    <3>1. CASE e \in came
      <4>1. PICK i \in 1..Len(new) : new[i] = e
        BY <3>1 DEF FirstOf
      <4> QED
        BY <1>1, <1>4, <1>10, <4>1
    <3>2. CASE e \notin came
      <4>1. ticket'[e] = ticket[e] /\ ticket[e] <= nextTicket /\ ticket[e] \in Nat
        BY <1>1, <1>8, <1>10, <2>1, <3>2 DEF WellFormed
      <4> QED
        BY <1>1, <1>4, <1>10, <4>1
    <3> QED
      BY <3>1, <3>2
  <2> QED
    BY <2>1
<1>18. \A e \in Entries : phase[e] \in Settled => p[e] = phase[e]
  BY <1>7, <1>8 DEF Settled
<1> QED
  BY <1>5, <1>9, <1>10, <1>14, <1>15, <1>16, <1>17, <1>18 DEF WellFormed, q, p

-----------------------------------------------------------------------------
(* Steps *)

(* What one step keeps: the invariant, the limit, and what is settled.      *)
StepKeeps == /\ IInv'
             /\ activeTaskIds' \ activeTaskIds # {} =>
                  Cardinality(activeTaskIds') <= maxConcurrent'
             /\ \A e \in Entries : phase[e] \in Settled => phase'[e] = phase[e]

(* A batch is a sequence of fresh entries without repetitions. *)
LEMMA BatchIsSeq ==
  ASSUME NEW new \in Batches
  PROVE  new \in Seq(Fresh) /\ Distinct(new)
<1>1. PICK n \in 0..Cardinality(Fresh) : new \in [1..n -> Fresh]
  BY DEF Batches
<1>2. IsFiniteSet(Fresh)
  BY EntriesAssumption, FS_Subset DEF Fresh
<1>3. n \in Nat
  BY <1>1, <1>2, FS_CardinalityType
<1> QED
  BY <1>1, <1>3, SeqDef DEF Batches, Distinct

(* Pushing a batch and pumping: enqueueing, or a reset. *)
LEMMA PushStep ==
  ASSUME IInv, NEW new \in Seq(Fresh), Distinct(new), Numbered(new),
         NEW act \in SUBSET activeTaskIds,
         stale' = stale \cup (activeTaskIds \ act),
         Pump(queue \o new, act, maxConcurrent, Queued(new)),
         maxConcurrent' = maxConcurrent
  PROVE  StepKeeps
<1> DEFINE old == stale \cup (activeTaskIds \ act)
<1>1. /\ activeTaskIds \in SUBSET Entries /\ stale \in SUBSET Entries
      /\ maxConcurrent \in Limits
      /\ activeTaskIds \cap stale = {}
  BY DEF IInv, TypeOK, WellFormed
<1>2. /\ act \in SUBSET Entries /\ old \in SUBSET Entries
      /\ act \cap old = {} /\ act \cup old = activeTaskIds \cup stale
  BY <1>1
<1> HIDE DEF old
<1>3. /\ queue \o new \in Seq(Entries)
      /\ Queued(new) \in [Entries -> Phase]
      /\ ticket' \in [Entries -> Nat]
      /\ nextTicket' \in Nat
      /\ WellFormed(queue \o new, act, old, Queued(new), ticket', nextTicket')
      /\ \A e \in Entries : phase[e] \in Settled => Queued(new)[e] = phase[e]
  BY <1>2, PushLane
<1>4. Pumped(act, old, maxConcurrent, Queued(new), ticket', nextTicket')
  <2>1. Pumpable(queue \o new, act, old, maxConcurrent, Queued(new), ticket',
                 nextTicket')
    BY <1>1, <1>2, <1>3 DEF Pumpable
  <2> QED
    BY <2>1, PumpLane
<1>5. old = stale'
  BY DEF old
<1>6. IInv'
  BY <1>1, <1>2, <1>3, <1>4, <1>5 DEF IInv, TypeOK, QueuedMeansFull, Pumped
<1>7. activeTaskIds' \ activeTaskIds # {} =>
        Cardinality(activeTaskIds') <= maxConcurrent'
  BY <1>4 DEF Pumped
<1>8. \A e \in Entries : phase[e] \in Settled => phase'[e] = phase[e]
  BY <1>3, <1>4 DEF Pumped
<1> QED
  BY <1>6, <1>7, <1>8 DEF StepKeeps

LEMMA EnqueueStep ==
  ASSUME IInv, NEW e \in Entries, Enqueue(e)
  PROVE  StepKeeps
<1> DEFINE new == <<e>>
<1>1. new \in Seq(Fresh) /\ Distinct(new)
  BY DEF Enqueue, Distinct
<1>2. queue \in Seq(Entries)
  BY DEF IInv, TypeOK
<1>3. queue \o new = Append(queue, e)
  BY <1>2
<1>4. /\ Pump(queue \o new, activeTaskIds, maxConcurrent, Queued(new))
      /\ Numbered(new)
      /\ stale' = stale \cup (activeTaskIds \ activeTaskIds)
      /\ maxConcurrent' = maxConcurrent
  BY <1>3 DEF Enqueue
<1> QED
  BY <1>1, <1>4, PushStep

LEMMA ResetStep ==
  ASSUME IInv, NEW new \in Batches, Reset(new)
  PROVE  StepKeeps
<1>1. new \in Seq(Fresh) /\ Distinct(new)
  BY BatchIsSeq
<1>2. /\ Pump(queue \o new, {}, maxConcurrent, Queued(new))
      /\ Numbered(new)
      /\ stale' = stale \cup (activeTaskIds \ {})
      /\ maxConcurrent' = maxConcurrent
  BY DEF Reset
<1> QED
  BY <1>1, <1>2, PushStep

LEMMA CompleteStep ==
  ASSUME IInv, NEW e \in Entries, Complete(e)
  PROVE  StepKeeps
<1> DEFINE p == [phase EXCEPT ![e] = "returned"]
<1>1. /\ TypeOK
      /\ WellFormed(queue, activeTaskIds, stale, phase, ticket, nextTicket)
      /\ phase[e] = "running"
      /\ maxConcurrent' = maxConcurrent /\ ticket' = ticket
      /\ nextTicket' = nextTicket
  BY DEF IInv, Complete
<1>2. p \in [Entries -> Phase]
  BY <1>1 DEF TypeOK, Phase
<1>3. /\ \A f \in Entries : f # e => p[f] = phase[f]
      /\ p[e] = "returned"
  BY <1>1 DEF TypeOK
<1> HIDE DEF p
<1>4. Holds(queue, p)
  BY <1>1, <1>3 DEF WellFormed, Holds
<1>5. Ordered(queue, p, ticket)
  <2>1. \A f \in Entries : p[f] \in Started => phase[f] \in Started
    BY <1>1, <1>3 DEF Started
  <2> QED
    BY <1>1, <2>1 DEF WellFormed, Ordered
<1>6. \A f \in Entries : p[f] # "new" => ticket[f] <= nextTicket
  BY <1>1, <1>3 DEF WellFormed
<1>7. \A f \in Entries : phase[f] \in Settled => p[f] = phase[f]
  BY <1>1, <1>3 DEF Settled
<1>8. CASE e \notin stale
  <2>1. Pump(queue, activeTaskIds \ {e}, maxConcurrent, p) /\ stale' = stale
    BY <1>8 DEF Complete, p
  <2>2. WellFormed(queue, activeTaskIds \ {e}, stale, p, ticket, nextTicket)
    <3>1. /\ activeTaskIds \ {e} = {f \in Entries : p[f] = "running"} \ stale
          /\ stale \subseteq {f \in Entries : p[f] = "running"}
      BY <1>1, <1>3, <1>8 DEF WellFormed
    <3> QED
      BY <1>4, <1>5, <1>6, <3>1 DEF WellFormed
  <2>3. /\ queue \in Seq(Entries) /\ activeTaskIds \ {e} \in SUBSET Entries
        /\ stale \in SUBSET Entries /\ maxConcurrent \in Limits
        /\ ticket \in [Entries -> Nat] /\ nextTicket \in Nat
    BY <1>1 DEF TypeOK
  <2>4. Pumped(activeTaskIds \ {e}, stale, maxConcurrent, p, ticket, nextTicket)
    <3>1. Pumpable(queue, activeTaskIds \ {e}, stale, maxConcurrent, p, ticket,
                   nextTicket)
      BY <1>2, <2>2, <2>3 DEF Pumpable
    <3> QED
      BY <2>1, <3>1, PumpLane
  <2>5. IInv'
    BY <1>1, <2>1, <2>3, <2>4 DEF IInv, TypeOK, QueuedMeansFull, Pumped
  <2>6. activeTaskIds' \ activeTaskIds # {} =>
          Cardinality(activeTaskIds') <= maxConcurrent'
    BY <1>1, <2>4 DEF Pumped
  <2>7. \A f \in Entries : phase[f] \in Settled => phase'[f] = phase[f]
    BY <1>7, <2>4 DEF Pumped
  <2> QED
    BY <2>5, <2>6, <2>7 DEF StepKeeps
<1>9. CASE e \in stale
  <2>1. /\ stale' = stale \ {e} /\ phase' = p
        /\ queue' = queue /\ activeTaskIds' = activeTaskIds
    BY <1>9 DEF Complete, p
  <2>2. /\ activeTaskIds = {f \in Entries : p[f] = "running"} \ (stale \ {e})
        /\ stale \ {e} \subseteq {f \in Entries : p[f] = "running"}
    BY <1>1, <1>3, <1>9 DEF WellFormed
  <2>3. WellFormed(queue, activeTaskIds, stale \ {e}, p, ticket, nextTicket)
    BY <1>4, <1>5, <1>6, <2>2 DEF WellFormed
  <2>4. IInv'
    BY <1>1, <1>2, <2>1, <2>3 DEF IInv, TypeOK, QueuedMeansFull
  <2> QED
    BY <1>7, <2>1, <2>4 DEF StepKeeps
<1> QED
  BY <1>8, <1>9

LEMMA ClearStep ==
  ASSUME IInv, Clear
  PROVE  StepKeeps
<1>1. /\ TypeOK
      /\ WellFormed(queue, activeTaskIds, stale, phase, ticket, nextTicket)
  BY DEF IInv
<1>2. /\ queue' = <<>> /\ activeTaskIds' = activeTaskIds /\ stale' = stale
      /\ maxConcurrent' = maxConcurrent /\ ticket' = ticket
      /\ nextTicket' = nextTicket
      /\ phase' = [e \in Entries |-> IF phase[e] = "queued" THEN "cleared"
                                                            ELSE phase[e]]
  BY DEF Clear
<1>3. queue' \in Seq(Entries) /\ DOMAIN queue' = {}
  BY <1>2
<1>4. phase' \in [Entries -> Phase]
  BY <1>1, <1>2 DEF TypeOK, Phase
<1>5. Holds(queue', phase')
  BY <1>2, <1>3 DEF Holds, Distinct
<1>6. /\ activeTaskIds' = {e \in Entries : phase'[e] = "running"} \ stale'
      /\ stale' \subseteq {e \in Entries : phase'[e] = "running"}
  BY <1>1, <1>2 DEF WellFormed
<1>7. Ordered(queue', phase', ticket')
  BY <1>3 DEF Ordered
<1>8. \A e \in Entries : phase'[e] # "new" => ticket'[e] <= nextTicket'
  BY <1>1, <1>2 DEF WellFormed
<1>9. WellFormed(queue', activeTaskIds', stale', phase', ticket', nextTicket')
  BY <1>5, <1>6, <1>7, <1>8 DEF WellFormed
<1>10. IInv'
  BY <1>1, <1>2, <1>3, <1>4, <1>9 DEF IInv, TypeOK, QueuedMeansFull
<1> QED
  BY <1>2, <1>10 DEF StepKeeps, Settled

LEMMA SetConcurrencyStep ==
  ASSUME IInv, NEW max \in Limits, SetConcurrency(max)
  PROVE  StepKeeps
<1>1. /\ queue \in Seq(Entries) /\ activeTaskIds \in SUBSET Entries
      /\ stale \in SUBSET Entries /\ phase \in [Entries -> Phase]
      /\ ticket \in [Entries -> Nat] /\ nextTicket \in Nat
      /\ WellFormed(queue, activeTaskIds, stale, phase, ticket, nextTicket)
  BY DEF IInv, TypeOK
<1>2. /\ maxConcurrent' = max
      /\ Pump(queue, activeTaskIds, max, phase)
      /\ stale' = stale /\ ticket' = ticket /\ nextTicket' = nextTicket
  BY DEF SetConcurrency
<1>3. Pumped(activeTaskIds, stale, max, phase, ticket, nextTicket)
  <2>1. Pumpable(queue, activeTaskIds, stale, max, phase, ticket, nextTicket)
    BY <1>1 DEF Pumpable
  <2> QED
    BY <1>2, <2>1, PumpLane
<1>4. IInv'
  BY <1>1, <1>2, <1>3 DEF IInv, TypeOK, QueuedMeansFull, Pumped
<1> QED
  BY <1>2, <1>3, <1>4 DEF StepKeeps, Pumped

LEMMA NextStep ==
  ASSUME IInv, Next
  PROVE  StepKeeps
<1>1. CASE \E e \in Entries : Enqueue(e)
  BY <1>1, EnqueueStep
<1>2. CASE \E e \in Entries : Complete(e)
  BY <1>2, CompleteStep
<1>3. CASE Clear
  BY <1>3, ClearStep
<1>4. CASE \E max \in Limits : SetConcurrency(max)
  BY <1>4, SetConcurrencyStep
<1>5. CASE \E new \in Batches : Reset(new)
  BY <1>5, ResetStep
<1> QED
  BY <1>1, <1>2, <1>3, <1>4, <1>5 DEF Next

LEMMA InitInv == Init => IInv
<1> SUFFICES ASSUME Init PROVE IInv
  OBVIOUS
<1>1. queue = <<>> /\ queue \in Seq(Entries) /\ DOMAIN queue = {}
  BY DEF Init
<1>2. TypeOK
  BY <1>1, LimitsAssumption DEF Init, TypeOK, Phase
<1>3. Holds(queue, phase) /\ Ordered(queue, phase, ticket)
  BY <1>1 DEF Init, Holds, Distinct, Ordered
<1> QED
  BY <1>1, <1>2, <1>3 DEF Init, IInv, WellFormed, QueuedMeansFull

-----------------------------------------------------------------------------
(* Theorems *)

(* IInv holds in every reachable state of a lane. *)
THEOREM Invariance == Spec => []IInv
<1>1. IInv /\ [Next]_vars => IInv'
  <2>1. IInv /\ Next => IInv'
    BY NextStep DEF StepKeeps
  <2>2. IInv /\ UNCHANGED vars => IInv'
    BY DEF IInv, TypeOK, WellFormed, Holds, Distinct, Ordered, QueuedMeansFull, vars
  <2> QED
    BY <2>1, <2>2
<1> QED
  BY <1>1, InitInv, PTL DEF Spec

(* An entry waits only while its lane is full (no wake-up of drainLane is   *)
(* lost).                                                                   *)
THEOREM NoLostWakeup == Spec => []QueuedMeansFull
<1>1. IInv => QueuedMeansFull
  BY DEF IInv
<1> QED
  BY <1>1, Invariance, PTL

(* Entries start in the order enqueueCommandInLane was called. *)
THEOREM Fifo == Spec => []FirstComeFirstServed
<1>1. IInv => FirstComeFirstServed
  BY DEF IInv, WellFormed, Holds, Ordered, FirstComeFirstServed
<1> QED
  BY <1>1, Invariance, PTL

(* A lane never takes up work beyond its limit. *)
THEOREM WithinLimit == Spec => StartsOnlyInRoom
<1>1. IInv /\ [Next]_vars =>
        [activeTaskIds' \ activeTaskIds # {} =>
           Cardinality(activeTaskIds') <= maxConcurrent']_vars
  BY NextStep DEF StepKeeps
<1> QED
  BY <1>1, Invariance, PTL DEF Spec, StartsOnlyInRoom

(* The promise of an entry is settled once. *)
THEOREM SettledOnce == Spec => SettledForGood
<1>1. IInv /\ [Next]_vars =>
        [\A e \in Entries : phase[e] \in Settled => phase'[e] = phase[e]]_vars
  BY NextStep DEF StepKeeps
<1> QED
  BY <1>1, Invariance, PTL DEF Spec, SettledForGood
=============================================================================
