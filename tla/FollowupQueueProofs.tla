------------------------ MODULE FollowupQueueProofs ------------------------
(***************************************************************************)
(* Proofs about FollowupQueue, for any messages, routes, settings and      *)
(* bounds.                                                                 *)
(*                                                                         *)
(* A step changes one queue object and its drain, the fates of messages    *)
(* that this object knows of or that no object knows of yet, and where the *)
(* key leads.  The first lemmas say what an operation on one object keeps; *)
(* then come the objects together with the key, and the actions.           *)
(***************************************************************************)
EXTENDS FollowupQueue, FiniteSetTheorems, SequenceTheorems, TLAPS

-----------------------------------------------------------------------------
(* Sequences of messages *)

LEMMA NoEntries == ToSet(<<>>) = {}
  BY DEF ToSet

LEMMA OneEntry ==
  ASSUME NEW m
  PROVE  ToSet(<<m>>) = {m}
  BY DEF ToSet

LEMMA EntryIsThere ==
  ASSUME NEW s \in Seq(Msgs), NEW k \in DOMAIN s
  PROVE  s[k] \in ToSet(s)
  BY DEF ToSet

LEMMA EntriesAreMsgs ==
  ASSUME NEW s \in Seq(Msgs)
  PROVE  ToSet(s) \subseteq Msgs
  BY DEF ToSet

(* What is left behind the first n entries.                                 *)
LEMMA RestFacts ==
  ASSUME NEW s \in Seq(Msgs), NEW n \in Nat
  PROVE  /\ SubSeq(s, n + 1, Len(s)) \in Seq(Msgs)
         /\ Len(SubSeq(s, n + 1, Len(s))) = IF n <= Len(s) THEN Len(s) - n ELSE 0
         /\ \A k \in DOMAIN SubSeq(s, n + 1, Len(s)) :
              /\ k + n \in DOMAIN s
              /\ SubSeq(s, n + 1, Len(s))[k] = s[k + n]
<1>1. Len(s) \in Nat /\ DOMAIN s = 1 .. Len(s)
  BY LenProperties
<1>2. \A i \in n + 1 .. Len(s) : s[i] \in Msgs
  BY <1>1, ElementOfSeq
<1> DEFINE t == SubSeq(s, n + 1, Len(s))
<1>3. /\ t \in Seq(Msgs)
      /\ Len(t) = IF n + 1 <= Len(s) THEN Len(s) - (n + 1) + 1 ELSE 0
      /\ \A i \in 1 .. Len(s) - (n + 1) + 1 : t[i] = s[n + 1 + i - 1]
  BY <1>1, <1>2, SubSeqProperties
<1> HIDE DEF t
<1>4. DOMAIN t = 1 .. Len(t)
  BY <1>3, LenProperties
<1>5. /\ n <= Len(s) => Len(t) = Len(s) - n
      /\ ~(n <= Len(s)) => Len(t) = 0
  <2> DEFINE l == Len(s)
  <2>1. l \in Nat
    BY <1>1
  <2>2. Len(t) = IF n + 1 <= l THEN l - (n + 1) + 1 ELSE 0
    BY <1>3
  <2> HIDE DEF l
  <2>3. /\ n <= l => Len(t) = l - n
        /\ ~(n <= l) => Len(t) = 0
    <3>1. CASE n = l
      BY <2>1, <2>2, <3>1
    <3>2. CASE n # l
      BY <2>1, <2>2, <3>2
    <3> QED
      BY <3>1, <3>2
  <2> QED
    BY <2>3 DEF l
<1>6. ASSUME NEW k \in DOMAIN t
      PROVE  k + n \in DOMAIN s /\ t[k] = s[k + n]
  <2>1. k \in Nat /\ 1 <= k /\ k <= Len(s) - n
    <3>1. k \in 1 .. Len(t)
      BY <1>4, <1>6
    <3>2. n <= Len(s)
      <4>1. SUFFICES ASSUME ~(n <= Len(s)) PROVE FALSE
        OBVIOUS
      <4>2. Len(t) = 0
        BY <1>5, <4>1
      <4> QED
        BY <3>1, <4>2
    <3>3. Len(t) = Len(s) - n
      BY <1>5, <3>2
    <3> QED
      BY <1>1, <3>1, <3>3
  <2>2. k \in 1 .. Len(s) - (n + 1) + 1 /\ n + 1 + k - 1 = k + n
    BY <1>1, <2>1
  <2>3. t[k] = s[n + 1 + k - 1]
    BY <1>3, <2>2
  <2>4. k + n \in DOMAIN s
    BY <1>1, <2>1
  <2> QED
    BY <2>2, <2>3, <2>4
<1> QED
  BY <1>3, <1>5, <1>6 DEF t

(* The first n entries.                                                     *)
LEMMA FirstFacts ==
  ASSUME NEW s \in Seq(Msgs), NEW n \in Nat, n <= Len(s)
  PROVE  /\ SubSeq(s, 1, n) \in Seq(Msgs)
         /\ Len(SubSeq(s, 1, n)) = n
         /\ \A k \in 1 .. n : SubSeq(s, 1, n)[k] = s[k]
<1>1. Len(s) \in Nat /\ DOMAIN s = 1 .. Len(s)
  BY LenProperties
<1>2. \A i \in 1 .. n : s[i] \in Msgs
  BY <1>1, ElementOfSeq
<1> DEFINE t == SubSeq(s, 1, n)
<1>3. /\ t \in Seq(Msgs)
      /\ Len(t) = IF 1 <= n THEN n - 1 + 1 ELSE 0
      /\ \A i \in 1 .. n - 1 + 1 : t[i] = s[1 + i - 1]
  BY <1>1, <1>2, SubSeqProperties
<1> HIDE DEF t
<1>4. Len(t) = n
  BY <1>3
<1>5. \A k \in 1 .. n : t[k] = s[k]
  BY <1>3
<1> QED
  BY <1>3, <1>4, <1>5 DEF t

LEMMA FirstAreThere ==
  ASSUME NEW s \in Seq(Msgs), NEW n \in Nat, n <= Len(s)
  PROVE  ToSet(SubSeq(s, 1, n)) \subseteq ToSet(s)
<1> DEFINE t == SubSeq(s, 1, n)
<1>1. t \in Seq(Msgs) /\ Len(t) = n /\ \A k \in 1 .. n : t[k] = s[k]
  BY FirstFacts
<1> HIDE DEF t
<1>2. DOMAIN t = 1 .. n /\ DOMAIN s = 1 .. Len(s) /\ Len(s) \in Nat
  BY <1>1, LenProperties
<1>3. \A k \in 1 .. n : k \in DOMAIN s
  BY <1>2
<1>4. ToSet(t) \subseteq ToSet(s)
  BY <1>1, <1>2, <1>3 DEF ToSet
<1> QED
  BY <1>4 DEF t

LEMMA RestIsThere ==
  ASSUME NEW s \in Seq(Msgs), NEW n \in Nat
  PROVE  ToSet(SubSeq(s, n + 1, Len(s))) \subseteq ToSet(s)
<1> DEFINE t == SubSeq(s, n + 1, Len(s))
<1>1. \A k \in DOMAIN t : k + n \in DOMAIN s /\ t[k] = s[k + n]
  BY RestFacts
<1> HIDE DEF t
<1>2. ToSet(t) \subseteq ToSet(s)
  BY <1>1 DEF ToSet
<1> QED
  BY <1>2 DEF t

(* An entry is among the first n or in the rest.                            *)
LEMMA FirstOrRest ==
  ASSUME NEW s \in Seq(Msgs), NEW n \in Nat, n <= Len(s), NEW m \in ToSet(s)
  PROVE  m \in ToSet(SubSeq(s, 1, n)) \/ m \in ToSet(SubSeq(s, n + 1, Len(s)))
<1>1. Len(s) \in Nat /\ DOMAIN s = 1 .. Len(s)
  BY LenProperties
<1>2. PICK k \in DOMAIN s : m = s[k]
  BY DEF ToSet
<1>3. CASE k <= n
  <2> DEFINE t == SubSeq(s, 1, n)
  <2>1. t \in Seq(Msgs) /\ Len(t) = n /\ \A i \in 1 .. n : t[i] = s[i]
    BY FirstFacts
  <2> HIDE DEF t
  <2>2. k \in DOMAIN t
    BY <1>1, <1>3, <2>1, LenProperties
  <2>3. t[k] = m
    BY <1>1, <1>2, <1>3, <2>1
  <2>4. m \in ToSet(t)
    BY <2>2, <2>3 DEF ToSet
  <2> QED
    BY <2>4 DEF t
<1>4. CASE k > n
  <2> DEFINE t == SubSeq(s, n + 1, Len(s))
  <2>1. /\ t \in Seq(Msgs) /\ Len(t) = Len(s) - n
        /\ \A i \in DOMAIN t : t[i] = s[i + n]
    BY <1>1, RestFacts
  <2> HIDE DEF t
  <2>2. DOMAIN t = 1 .. Len(t)
    BY <2>1, LenProperties
  <2>3. k - n \in DOMAIN t /\ (k - n) + n = k
    BY <1>1, <1>4, <2>1, <2>2
  <2>4. t[k - n] = m
    BY <1>2, <2>1, <2>3
  <2>5. m \in ToSet(t)
    BY <2>3, <2>4 DEF ToSet
  <2> QED
    BY <2>5 DEF t
<1> QED
  BY <1>1, <1>3, <1>4

LEMMA BothAreThere ==
  ASSUME NEW s \in Seq(Msgs), NEW t \in Seq(Msgs)
  PROVE  /\ s \o t \in Seq(Msgs)
         /\ Len(s \o t) = Len(s) + Len(t)
         /\ ToSet(s \o t) \subseteq ToSet(s) \union ToSet(t)
<1> DEFINE u == s \o t
<1>1. /\ u \in Seq(Msgs)
      /\ Len(u) = Len(s) + Len(t)
      /\ \A i \in 1 .. Len(s) + Len(t) :
           u[i] = IF i <= Len(s) THEN s[i] ELSE t[i - Len(s)]
  BY ConcatProperties
<1> HIDE DEF u
<1>2. /\ DOMAIN u = 1 .. Len(u)
      /\ DOMAIN s = 1 .. Len(s) /\ Len(s) \in Nat
      /\ DOMAIN t = 1 .. Len(t) /\ Len(t) \in Nat
  BY <1>1, LenProperties
<1>3. ASSUME NEW k \in DOMAIN u
      PROVE  u[k] \in ToSet(s) \union ToSet(t)
  <2>1. CASE k <= Len(s)
    <3>1. k \in DOMAIN s /\ u[k] = s[k]
      BY <1>1, <1>2, <1>3, <2>1
    <3> QED
      BY <3>1 DEF ToSet
  <2>2. CASE k > Len(s)
    <3>1. k - Len(s) \in DOMAIN t /\ u[k] = t[k - Len(s)]
      BY <1>1, <1>2, <1>3, <2>2
    <3> QED
      BY <3>1 DEF ToSet
  <2> QED
    BY <1>1, <1>2, <1>3, <2>1, <2>2
<1>4. ToSet(u) \subseteq ToSet(s) \union ToSet(t)
  BY <1>3 DEF ToSet
<1> QED
  BY <1>1, <1>4 DEF u

LEMMA AppendFacts ==
  ASSUME NEW s \in Seq(Msgs), NEW m \in Msgs
  PROVE  /\ Append(s, m) \in Seq(Msgs)
         /\ Len(Append(s, m)) = Len(s) + 1
         /\ \A k \in DOMAIN Append(s, m) :
              Append(s, m)[k] = IF k = Len(s) + 1 THEN m ELSE s[k]
         /\ \A k \in DOMAIN Append(s, m) : k # Len(s) + 1 => k \in DOMAIN s
         /\ ToSet(Append(s, m)) = ToSet(s) \union {m}
<1> DEFINE u == Append(s, m)
<1>1. /\ u \in Seq(Msgs) /\ Len(u) = Len(s) + 1
      /\ \A k \in 1 .. Len(s) : u[k] = s[k]
      /\ u[Len(s) + 1] = m
  OBVIOUS
<1> HIDE DEF u
<1>2. DOMAIN u = 1 .. Len(u) /\ DOMAIN s = 1 .. Len(s) /\ Len(s) \in Nat
  BY <1>1, LenProperties
<1>3. \A k \in DOMAIN u : k # Len(s) + 1 => k \in DOMAIN s
  BY <1>1, <1>2
<1>4. \A k \in DOMAIN u : u[k] = IF k = Len(s) + 1 THEN m ELSE s[k]
  BY <1>1, <1>2
<1>5. Len(s) + 1 \in DOMAIN u /\ \A k \in DOMAIN s : k \in DOMAIN u /\ u[k] = s[k]
  BY <1>1, <1>2
<1>6. ToSet(u) = ToSet(s) \union {m}
  <2>1. ToSet(u) \subseteq ToSet(s) \union {m}
    BY <1>3, <1>4 DEF ToSet
  <2>2. m \in ToSet(u)
    BY <1>1, <1>5 DEF ToSet
  <2>3. ToSet(s) \subseteq ToSet(u)
    BY <1>5 DEF ToSet
  <2> QED
    BY <2>1, <2>2, <2>3
<1> QED
  BY <1>1, <1>3, <1>4, <1>6 DEF u

-----------------------------------------------------------------------------
(* One queue object and its drain *)

Fit(q, d) ==
  /\ q \in Queue /\ d \in Drain
  /\ q.draining <=> d.pc # "off"
  /\ Len(q.lines) <= q.dropped

Object(q, d, f) == Fit(q, d) /\ Sound(q, d, f)

(* The fields of a queue and of a drain.                                    *)
LEMMA Fields ==
  ASSUME NEW q, NEW d, Fit(q, d)
  PROVE  /\ q.items \in Seq(Msgs) /\ q.lines \in Seq(Msgs)
         /\ q.dropped \in Nat /\ q.cap \in Nat
         /\ d.told \in Seq(Msgs) /\ d.lines \in Seq(Msgs) /\ d.n \in Nat
         /\ q.draining \in BOOLEAN
  BY DEF Fit, Queue, Drain

LEMMA HeldAreMsgs ==
  ASSUME NEW q, NEW d, Fit(q, d)
  PROVE  Held(q, d) \subseteq Msgs
<1>1. /\ q.items \in Seq(Msgs) /\ q.lines \in Seq(Msgs)
      /\ d.told \in Seq(Msgs) /\ d.lines \in Seq(Msgs)
  BY Fields
<1>2. /\ ToSet(q.items) \subseteq Msgs /\ ToSet(q.lines) \subseteq Msgs
      /\ ToSet(d.told) \subseteq Msgs /\ ToSet(d.lines) \subseteq Msgs
  BY <1>1, EntriesAreMsgs
<1> QED
  BY <1>2 DEF Held

(* Equal fates of what an object knows of are as good.                      *)
LEMMA SoundByFates ==
  ASSUME NEW q, NEW d, NEW f, NEW g, Object(q, d, f),
         \A m \in Held(q, d) : g[m] = f[m]
  PROVE  Object(q, d, g)
  BY DEF Object, Sound, Held

(* Queue q2 has the entries and previews of q.                              *)
SameEntries(q2, q) ==
  /\ q2 \in Queue
  /\ q2.items = q.items /\ q2.lines = q.lines /\ q2.dropped = q.dropped

(* A drain that does not await a run.                                       *)
Silent(d) == d \in Drain /\ d.pc # "run" /\ d.told = <<>> /\ d.lines = <<>>

LEMMA SilentHolds ==
  ASSUME NEW q, NEW d, Silent(d)
  PROVE  /\ Held(q, d) = ToSet(q.items) \union ToSet(q.lines)
         /\ InStep(q, d)
  BY NoEntries DEF Silent, Held, InStep

LEMMA QuietIsSound ==
  ASSUME NEW q, NEW d, NEW f, Object(q, d, f),
         NEW q2, SameEntries(q2, q),
         NEW d2, Silent(d2), q2.draining <=> d2.pc # "off"
  PROVE  Object(q2, d2, f) /\ Held(q2, d2) \subseteq Held(q, d)
<1>1. Fit(q2, d2)
  BY DEF Object, Fit, SameEntries, Silent
<1>2. q2.items = q.items /\ q2.lines = q.lines
  BY DEF SameEntries
<1>3. Held(q2, d2) = ToSet(q.items) \union ToSet(q.lines)
  BY <1>2, SilentHolds
<1>4. Held(q2, d2) \subseteq Held(q, d)
  BY <1>3 DEF Held
<1>5. d2.told = <<>> /\ d2.lines = <<>> /\ ToSet(d2.told) = {} /\ ToSet(d2.lines) = {}
  BY NoEntries DEF Silent
<1>6. Sound(q2, d2, f)
  <2>1. Sound(q, d, f)
    BY DEF Object
  <2>2. \A m \in Held(q2, d2) : f[m] \notin {"new", "deciding"}
    BY <2>1, <1>4 DEF Sound
  <2>3. /\ IsInjective(q2.items)
        /\ ToSet(q2.items) \intersect ToSet(q2.lines) = {}
        /\ \A m \in ToSet(q2.items) : f[m] = "queued"
    BY <2>1, <1>2 DEF Sound
  <2>4. /\ \A k \in DOMAIN q2.items : k > d2.n => q2.items[k] \notin ToSet(d2.told)
        /\ ToSet(q2.items) \intersect ToSet(d2.lines) = {}
    BY <1>5
  <2> QED
    BY <2>2, <2>3, <2>4, <1>5 DEF Sound
<1> QED
  BY <1>1, <1>4, <1>6 DEF Object

(* Another setting, or another message to take the settings of runs from.   *)
LEMMA SettingsKeep ==
  ASSUME NEW q, NEW d, NEW f, Object(q, d, f),
         NEW q2, SameEntries(q2, q), q2.draining = q.draining
  PROVE  /\ Object(q2, d, f)
         /\ Held(q2, d) = Held(q, d)
         /\ InStep(q, d) => InStep(q2, d)
<1>1. q2 \in Queue /\ q2.items = q.items /\ q2.lines = q.lines /\ q2.dropped = q.dropped
  BY DEF SameEntries
<1>2. Fit(q2, d)
  BY <1>1 DEF Object, Fit
<1>3. Sound(q2, d, f)
  BY <1>1 DEF Object, Sound, Held
<1>4. Held(q2, d) = Held(q, d)
  BY <1>1 DEF Held
<1>5. InStep(q, d) => InStep(q2, d)
  BY <1>1 DEF InStep
<1> QED
  BY <1>2, <1>3, <1>4, <1>5 DEF Object

(* What a follow-up run may be given of a queue.                            *)
GivesFirst(d, q) ==
  /\ d \in Drain /\ d.pc = "run" /\ q.items # <<>>
  /\ d.told = <<Head(q.items)>> /\ d.lines = <<>> /\ d.n = 1 /\ ~d.summary

GivesSummary(d, q) ==
  /\ d \in Drain /\ d.pc = "run" /\ q.items # <<>>
  /\ d.told = <<>> /\ d.lines = q.lines /\ d.n = 1

GivesAll(d, q) ==
  /\ d \in Drain /\ d.pc = "run"
  /\ d.told = q.items /\ d.n = Len(q.items)
  /\ d.lines \in {<<>>, q.lines}
  /\ d.summary => d.lines = q.lines

LEMMA StartIsSound ==
  ASSUME NEW q, NEW d, NEW f, Object(q, d, f), d.pc = "wait",
         NEW d2, GivesFirst(d2, q) \/ GivesSummary(d2, q) \/ GivesAll(d2, q)
  PROVE  /\ Object(q, d2, f)
         /\ Held(q, d2) \subseteq Held(q, d)
         /\ ToSet(d2.told) \subseteq ToSet(q.items)
         /\ ~GivesSummary(d2, q) => InStep(q, d2)
<1>1. /\ q.items \in Seq(Msgs) /\ q.lines \in Seq(Msgs) /\ q.draining \in BOOLEAN
  BY Fields DEF Object
<1>2. Len(q.items) \in Nat /\ DOMAIN q.items = 1 .. Len(q.items)
  BY <1>1, LenProperties
<1>3. Sound(q, d, f) /\ Fit(q, d)
  BY DEF Object
<1>4. /\ d2 \in Drain /\ d2.pc = "run"
      /\ d2.told \in {<<>>, <<Head(q.items)>>, q.items}
      /\ d2.lines \in {<<>>, q.lines}
  BY DEF GivesFirst, GivesSummary, GivesAll
<1>5. Fit(q, d2)
  BY <1>3, <1>4 DEF Fit
<1>6. q.items # <<>> => /\ Head(q.items) = q.items[1] /\ 1 \in DOMAIN q.items
                        /\ Head(q.items) \in ToSet(q.items)
                        /\ SubSeq(q.items, 1, 1) = <<Head(q.items)>>
  <2> SUFFICES ASSUME q.items # <<>>
               PROVE  /\ Head(q.items) = q.items[1] /\ 1 \in DOMAIN q.items
                      /\ Head(q.items) \in ToSet(q.items)
                      /\ SubSeq(q.items, 1, 1) = <<Head(q.items)>>
    OBVIOUS
  <2>1. Len(q.items) >= 1
    BY <1>1, <1>2, EmptySeq
  <2>2. Head(q.items) = q.items[1] /\ 1 \in DOMAIN q.items
    BY <1>1, <1>2, <2>1
  <2>3. Head(q.items) \in ToSet(q.items)
    BY <1>1, <2>2, EntryIsThere
  <2> DEFINE one == SubSeq(q.items, 1, 1)
             head == <<Head(q.items)>>
  <2>4. one \in Seq(Msgs) /\ Len(one) = 1 /\ one[1] = q.items[1]
    BY <1>1, <2>1, FirstFacts
  <2>5. head \in Seq(Msgs) /\ Len(head) = 1 /\ head[1] = Head(q.items)
    BY <1>1, <2>2, <2>3, EntriesAreMsgs
  <2> HIDE DEF one, head
  <2>6. \A k \in 1 .. Len(one) : one[k] = head[k]
    BY <2>2, <2>4, <2>5
  <2>7. one = head
    BY <2>4, <2>5, <2>6, SeqEqual
  <2> QED
    BY <2>2, <2>3, <2>7 DEF one, head
<1>7. ToSet(d2.told) \subseteq ToSet(q.items)
  <2>1. CASE d2.told = <<>>
    BY <2>1, NoEntries
  <2>2. CASE d2.told = q.items
    BY <2>2
  <2>3. CASE GivesFirst(d2, q)
    BY <2>3, <1>6, OneEntry DEF GivesFirst
  <2> QED
    BY <2>1, <2>2, <2>3 DEF GivesSummary, GivesAll
<1>8. ToSet(d2.lines) \subseteq ToSet(q.lines)
  BY <1>4, NoEntries
<1>9. Held(q, d2) \subseteq Held(q, d)
  BY <1>7, <1>8 DEF Held
<1>10. \A k \in DOMAIN q.items : k > d2.n => q.items[k] \notin ToSet(d2.told)
  <2> SUFFICES ASSUME NEW k \in DOMAIN q.items, k > d2.n
               PROVE  q.items[k] \notin ToSet(d2.told)
    OBVIOUS
  <2>1. CASE GivesFirst(d2, q)
    <3>1. ToSet(d2.told) = {q.items[1]} /\ d2.n = 1 /\ 1 \in DOMAIN q.items
      BY <1>6, <2>1, OneEntry DEF GivesFirst
    <3>2. k # 1
      BY <1>2, <3>1
    <3> QED
      BY <1>3, <3>1, <3>2 DEF Sound, IsInjective
  <2>2. CASE GivesSummary(d2, q)
    BY <2>2, NoEntries DEF GivesSummary
  <2>3. CASE GivesAll(d2, q)
    BY <1>2, <2>3 DEF GivesAll
  <2> QED
    BY <2>1, <2>2, <2>3
<1>12. Sound(q, d2, f)
  <2>1. ToSet(q.items) \intersect ToSet(d2.lines) = {}
    BY <1>3, <1>8 DEF Sound
  <2>2. \A m \in Held(q, d2) : f[m] \notin {"new", "deciding"}
    BY <1>3, <1>9 DEF Sound
  <2>3. /\ IsInjective(q.items)
        /\ ToSet(q.items) \intersect ToSet(q.lines) = {}
        /\ \A m \in ToSet(q.items) : f[m] = "queued"
    BY <1>3 DEF Sound
  <2> QED
    BY <1>4, <1>10, <2>1, <2>2, <2>3 DEF Sound
<1>13. ~GivesSummary(d2, q) => InStep(q, d2)
  <2>1. CASE GivesFirst(d2, q)
    <3>1. d2.n = 1 /\ d2.told = SubSeq(q.items, 1, 1) /\ ~d2.summary
      BY <1>6, <2>1 DEF GivesFirst
    <3>2. 1 <= Len(q.items)
      BY <1>2, <1>6, <2>1 DEF GivesFirst
    <3> QED
      BY <3>1, <3>2 DEF InStep
  <2>2. CASE GivesAll(d2, q)
    <3>1. SubSeq(q.items, 1, Len(q.items)) = q.items
      BY <1>1, SubSeqFull
    <3>2. /\ d2.n = Len(q.items) /\ d2.told = q.items
          /\ d2.summary => d2.lines = q.lines
      BY <2>2 DEF GivesAll
    <3>3. d2.n <= Len(q.items)
      BY <1>2, <3>2
    <3> QED
      BY <3>1, <3>2, <3>3 DEF InStep
  <2> QED
    BY <2>1, <2>2
<1> QED
  BY <1>5, <1>7, <1>9, <1>12, <1>13 DEF Object

(* The fates after a run that was given told and lines.                     *)
FatesAfterRun(g, f, d, outcome) ==
  /\ g \in [Msgs -> Fates]
  /\ \A m \in Msgs : g[m] = IF m \in ToSet(d.told) THEN outcome
                            ELSE IF m \in ToSet(d.lines) THEN "listed" ELSE f[m]

(* Queue q2 is q without what the run of d had of it.                       *)
Rest(q2, q, d) ==
  /\ q2 \in Queue
  /\ q2.items = SubSeq(q.items, d.n + 1, Len(q.items))
  /\ \/ q2.lines = q.lines /\ q2.dropped = q.dropped /\ ~d.summary
     \/ q2.lines = <<>> /\ q2.dropped = 0 /\ d.summary
  /\ q2.draining = q.draining

LEMMA RunEndIsSound ==
  ASSUME NEW q, NEW d, NEW f \in [Msgs -> Fates], Object(q, d, f), d.pc = "run",
         NEW q2, Rest(q2, q, d),
         NEW d2, Silent(d2), d2.pc = "wait",
         NEW outcome \in {"run", "failed"},
         NEW g, FatesAfterRun(g, f, d, outcome)
  PROVE  /\ Object(q2, d2, g)
         /\ Held(q2, d2) \subseteq Held(q, d)
         /\ \A m \in Msgs : g[m] # f[m] => m \in Held(q, d)
         /\ InStep(q, d) => \A m \in ToSet(q.items) \union ToSet(q.lines) :
              g[m] = "queued" => m \in ToSet(q2.items) \union ToSet(q2.lines)
<1>1. /\ q.items \in Seq(Msgs) /\ q.lines \in Seq(Msgs) /\ q.dropped \in Nat
      /\ d.told \in Seq(Msgs) /\ d.lines \in Seq(Msgs) /\ d.n \in Nat
  BY Fields DEF Object
<1>2. Sound(q, d, f) /\ Fit(q, d)
  BY DEF Object
<1> DEFINE n == d.n
           rest == SubSeq(q.items, n + 1, Len(q.items))
<1>3. /\ rest \in Seq(Msgs)
      /\ \A k \in DOMAIN rest : k + n \in DOMAIN q.items /\ rest[k] = q.items[k + n]
      /\ ToSet(rest) \subseteq ToSet(q.items)
  BY <1>1, RestFacts, RestIsThere
<1>4. q2.items = rest
  BY DEF Rest
<1>5. ToSet(q2.lines) \subseteq ToSet(q.lines) /\ Len(q2.lines) <= q2.dropped
  BY <1>2, NoEntries DEF Rest, Fit
<1>6. DOMAIN rest \subseteq Nat \ {0} /\ n \in Nat
  BY <1>1, <1>3, LenProperties
<1>7. q2 \in Queue
  BY DEF Rest
<1> HIDE DEF rest, n
<1>8. \A m \in ToSet(rest) : m \notin ToSet(d.told) /\ m \notin ToSet(d.lines)
  <2> SUFFICES ASSUME NEW m \in ToSet(rest)
               PROVE  m \notin ToSet(d.told) /\ m \notin ToSet(d.lines)
    OBVIOUS
  <2>1. PICK k \in DOMAIN rest : m = rest[k]
    BY DEF ToSet
  <2>2. k + n > n
    BY <1>6
  <2>3. m \notin ToSet(d.told)
    BY <1>2, <1>3, <2>1, <2>2 DEF Sound, n
  <2>4. m \notin ToSet(d.lines)
    BY <1>2, <1>3 DEF Sound
  <2> QED
    BY <2>3, <2>4
<1>9. \A m \in Msgs : g[m] # f[m] => m \in Held(q, d)
  BY DEF FatesAfterRun, Held
<1>10. Held(q2, d2) \subseteq Held(q, d)
  <2>1. Held(q2, d2) = ToSet(rest) \union ToSet(q2.lines)
    BY <1>4, SilentHolds
  <2> QED
    BY <1>3, <1>5, <2>1 DEF Held
<1>11. Held(q, d) \subseteq Msgs
  BY <1>2, HeldAreMsgs
<1>12. Sound(q2, d2, g)
  <2>1. IsInjective(rest)
    <3> SUFFICES ASSUME NEW a \in DOMAIN rest, NEW b \in DOMAIN rest, rest[a] = rest[b]
                 PROVE  a = b
      BY DEF IsInjective
    <3>1. a + n = b + n
      BY <1>2, <1>3 DEF Sound, IsInjective
    <3>2. a \in Nat /\ b \in Nat
      BY <1>6
    <3> QED
      BY <1>6, <3>1, <3>2
  <2>2. ToSet(rest) \intersect ToSet(q2.lines) = {}
    BY <1>2, <1>3, <1>5 DEF Sound
  <2>3. \A m \in ToSet(rest) : g[m] = "queued"
    <3> SUFFICES ASSUME NEW m \in ToSet(rest) PROVE g[m] = "queued"
      OBVIOUS
    <3>1. m \in Msgs
      BY <1>3, EntriesAreMsgs
    <3>2. g[m] = f[m]
      BY <1>8, <3>1 DEF FatesAfterRun
    <3>3. f[m] = "queued"
      BY <1>2, <1>3 DEF Sound
    <3> QED
      BY <3>2, <3>3
  <2>4. \A m \in Held(q2, d2) : g[m] \notin {"new", "deciding"}
    <3> SUFFICES ASSUME NEW m \in Held(q2, d2) PROVE g[m] \notin {"new", "deciding"}
      OBVIOUS
    <3>1. m \in Msgs /\ f[m] \notin {"new", "deciding"}
      BY <1>2, <1>10, <1>11 DEF Sound
    <3>2. g[m] \in {outcome, "listed", f[m]}
      BY <3>1 DEF FatesAfterRun
    <3> QED
      BY <3>1, <3>2
  <2>5. d2.told = <<>> /\ d2.lines = <<>> /\ ToSet(d2.told) = {} /\ ToSet(d2.lines) = {}
    BY NoEntries DEF Silent
  <2>6. /\ \A k \in DOMAIN q2.items : k > d2.n => q2.items[k] \notin ToSet(d2.told)
        /\ ToSet(q2.items) \intersect ToSet(d2.lines) = {}
    BY <2>5
  <2> QED
    BY <1>4, <2>1, <2>2, <2>3, <2>4, <2>5, <2>6 DEF Sound
<1>13. Fit(q2, d2)
  BY <1>2, <1>5, <1>7 DEF Fit, Silent, Rest
<1>14. ASSUME InStep(q, d),
              NEW m \in ToSet(q.items) \union ToSet(q.lines), g[m] = "queued"
       PROVE  m \in ToSet(q2.items) \union ToSet(q2.lines)
  <2>0. m \in Msgs
    BY <1>1, EntriesAreMsgs
  <2>1. /\ n <= Len(q.items) /\ d.told = SubSeq(q.items, 1, n)
        /\ d.summary => d.lines = q.lines
    BY <1>14 DEF InStep, n
  <2>2. m \notin ToSet(d.told)
    BY <1>14, <2>0 DEF FatesAfterRun
  <2>3. m \notin ToSet(d.lines)
    BY <1>14, <2>0, <2>2 DEF FatesAfterRun
  <2>4. CASE m \in ToSet(q.items)
    BY <1>1, <1>4, <1>6, <2>1, <2>2, <2>4, FirstOrRest DEF rest
  <2>5. CASE m \in ToSet(q.lines)
    BY <2>1, <2>3, <2>5 DEF Rest
  <2> QED
    BY <1>14, <2>4, <2>5
<1> QED
  BY <1>9, <1>10, <1>12, <1>13, <1>14 DEF Object

(* Queue q2 is q with room for one more entry.                              *)
LEMMA DropIsSound ==
  ASSUME NEW q, NEW d, NEW f, Object(q, d, f),
         q.cap \in Nat \ {0}, Len(q.items) >= q.cap,
         NEW q2, q2 = DropOldest(q)
  PROVE  /\ Object(q2, d, f)
         /\ Held(q2, d) \subseteq Held(q, d)
         /\ q2.draining = q.draining
<1>1. /\ q.items \in Seq(Msgs) /\ q.lines \in Seq(Msgs) /\ q.dropped \in Nat
      /\ d.told \in Seq(Msgs) /\ d.lines \in Seq(Msgs) /\ d.n \in Nat
  BY Fields DEF Object
<1>2. Sound(q, d, f) /\ Fit(q, d) /\ q \in Queue
  BY DEF Object, Fit
<1>3. Len(q.items) \in Nat /\ Len(q.lines) \in Nat
  BY <1>1, LenProperties
<1> DEFINE over == Len(q.items) - q.cap + 1
<1>4. over \in Nat /\ 1 <= over /\ over <= Len(q.items)
  BY <1>3
<1> DEFINE cut  == SubSeq(q.items, 1, over)
           rest == SubSeq(q.items, over + 1, Len(q.items))
           all  == q.lines \o cut
           from == IF Len(all) > q.cap THEN Len(all) - q.cap ELSE 0
           last == SubSeq(all, from + 1, Len(all))
           kept == [q EXCEPT !.items = rest]
           summed == [kept EXCEPT !.dropped = @ + over, !.lines = last]
<1>5. q2 = IF q.drop # "summarize" THEN kept ELSE summed
  <2>1. SubSeq(all, 1 + (IF Len(all) > q.cap THEN Len(all) - q.cap ELSE 0), Len(all))
          = SubSeq(all, from + 1, Len(all))
    <3>1. from \in Int
      <4>1. Len(all) \in Nat
        BY <1>1, <1>4, FirstFacts, BothAreThere
      <4> QED
        BY <4>1
    <3>2. 1 + from = from + 1
      BY <3>1
    <3> QED
      BY <3>2
  <2> QED
    BY <2>1 DEF DropOldest
<1> HIDE DEF over
<1>6. /\ rest \in Seq(Msgs)
      /\ \A k \in DOMAIN rest : k + over \in DOMAIN q.items /\ rest[k] = q.items[k + over]
      /\ ToSet(rest) \subseteq ToSet(q.items)
  BY <1>1, <1>4, RestFacts, RestIsThere
<1>7. /\ cut \in Seq(Msgs) /\ Len(cut) = over
      /\ \A k \in 1 .. over : cut[k] = q.items[k]
      /\ ToSet(cut) \subseteq ToSet(q.items)
  BY <1>1, <1>4, FirstFacts, FirstAreThere
<1>8. DOMAIN cut = 1 .. over /\ DOMAIN rest \subseteq Nat \ {0}
  BY <1>6, <1>7, LenProperties
<1> HIDE DEF cut, rest
<1>9. /\ all \in Seq(Msgs) /\ Len(all) = Len(q.lines) + over
      /\ ToSet(all) \subseteq ToSet(q.lines) \union ToSet(cut)
  BY <1>1, <1>7, BothAreThere
<1> HIDE DEF all
<1>10. from \in Nat
  BY <1>2, <1>3, <1>4, <1>9
<1> HIDE DEF from
<1>11. /\ last \in Seq(Msgs)
       /\ Len(last) = IF from <= Len(all) THEN Len(all) - from ELSE 0
       /\ ToSet(last) \subseteq ToSet(all)
  BY <1>9, <1>10, RestFacts, RestIsThere
<1> HIDE DEF last
<1>12. Len(last) <= q.dropped + over
  <2>1. Len(q.lines) <= q.dropped
    BY <1>2 DEF Fit
  <2>2. Len(last) <= Len(all)
    BY <1>3, <1>4, <1>9, <1>10, <1>11
  <2>3. Len(last) \in Nat
    BY <1>11, LenProperties
  <2> QED
    BY <1>1, <1>3, <1>4, <1>9, <2>1, <2>2, <2>3
<1>13. /\ kept \in Queue /\ kept.items = rest /\ kept.lines = q.lines
       /\ kept.dropped = q.dropped /\ kept.draining = q.draining
  BY <1>2, <1>6 DEF Queue
<1> HIDE DEF kept
<1>14. /\ summed \in Queue /\ summed.items = rest /\ summed.lines = last
       /\ summed.dropped = q.dropped + over /\ summed.draining = q.draining
  <2>1. q.dropped + over \in Nat
    BY <1>1, <1>4
  <2> QED
    BY <1>11, <1>13, <2>1 DEF Queue
<1> HIDE DEF summed
<1>15. /\ q2 \in Queue /\ q2.items = rest /\ q2.draining = q.draining
       /\ q2.lines \in {q.lines, last}
       /\ Len(q2.lines) <= q2.dropped
  <2>1. CASE q.drop # "summarize"
    BY <1>2, <1>5, <1>13, <2>1 DEF Fit
  <2>2. CASE q.drop = "summarize"
    BY <1>5, <1>12, <1>14, <2>2
  <2> QED
    BY <2>1, <2>2
<1>16. ToSet(q2.lines) \subseteq ToSet(q.lines) \union ToSet(cut)
  BY <1>9, <1>11, <1>15
<1>17. \A m \in ToSet(rest) : m \notin ToSet(cut)
  <2> SUFFICES ASSUME NEW m \in ToSet(rest), m \in ToSet(cut) PROVE FALSE
    OBVIOUS
  <2>1. PICK k \in DOMAIN rest : m = rest[k]
    BY DEF ToSet
  <2>2. PICK l \in DOMAIN cut : m = cut[l]
    BY DEF ToSet
  <2>3. k + over \in DOMAIN q.items /\ m = q.items[k + over]
    BY <1>6, <2>1
  <2>4. l \in DOMAIN q.items /\ m = q.items[l] /\ l \in 1 .. over
    <3>1. DOMAIN q.items = 1 .. Len(q.items)
      BY <1>1, LenProperties
    <3>2. l \in 1 .. over
      BY <1>8, <2>2
    <3>3. l \in 1 .. Len(q.items)
      BY <1>3, <1>4, <3>2
    <3> QED
      BY <1>7, <2>2, <3>1, <3>2, <3>3
  <2>5. k + over = l
    BY <1>2, <2>3, <2>4 DEF Sound, IsInjective
  <2>6. k \in Nat \ {0}
    BY <1>8, <2>1
  <2> QED
    BY <1>4, <2>4, <2>5, <2>6
<1>18. Held(q2, d) \subseteq Held(q, d)
  BY <1>6, <1>7, <1>15, <1>16 DEF Held
<1>19. Sound(q2, d, f)
  <2>1. IsInjective(rest)
    <3> SUFFICES ASSUME NEW a \in DOMAIN rest, NEW b \in DOMAIN rest, rest[a] = rest[b]
                 PROVE  a = b
      BY DEF IsInjective
    <3>1. a + over = b + over
      BY <1>2, <1>6 DEF Sound, IsInjective
    <3>2. a \in Nat /\ b \in Nat
      BY <1>8
    <3> QED
      BY <1>4, <3>1, <3>2
  <2>2. ToSet(rest) \intersect ToSet(q2.lines) = {}
    BY <1>2, <1>6, <1>16, <1>17 DEF Sound
  <2>3. \A m \in ToSet(rest) : f[m] = "queued"
    BY <1>2, <1>6 DEF Sound
  <2>4. \A m \in Held(q2, d) : f[m] \notin {"new", "deciding"}
    BY <1>2, <1>18 DEF Sound
  <2>5. \A k \in DOMAIN rest : k > d.n => rest[k] \notin ToSet(d.told)
    <3> SUFFICES ASSUME NEW k \in DOMAIN rest, k > d.n
                 PROVE  rest[k] \notin ToSet(d.told)
      OBVIOUS
    <3>1. k + over > d.n
      BY <1>1, <1>4, <1>8
    <3> QED
      BY <1>2, <1>6, <3>1 DEF Sound
  <2>6. ToSet(rest) \intersect ToSet(d.lines) = {}
    BY <1>2, <1>6 DEF Sound
  <2>7. d.pc # "run" => d.told = <<>> /\ d.lines = <<>>
    BY <1>2 DEF Sound
  <2> QED
    BY <1>15, <2>1, <2>2, <2>3, <2>4, <2>5, <2>6, <2>7 DEF Sound
<1>20. Fit(q2, d)
  BY <1>2, <1>15 DEF Fit
<1> QED
  BY <1>15, <1>18, <1>19, <1>20 DEF Object

(* Queue q2 is q with m at its end.                                         *)
Queued(q2, q, m) ==
  /\ q2 \in Queue
  /\ q2.items = Append(q.items, m)
  /\ q2.lines = q.lines /\ q2.dropped = q.dropped /\ q2.draining = q.draining

(* The fates f and g agree about the entries and previews of q.             *)
LEMMA QueuedIsSound ==
  ASSUME NEW q, NEW d, NEW f, Object(q, d, f),
         NEW m \in Msgs, f[m] = "deciding", NEW q2, Queued(q2, q, m),
         NEW g, g[m] = "queued",
         \A k \in Held(q, d) : g[k] = f[k] \/ g[k] = "discarded",
         \A k \in ToSet(q.items) : g[k] = f[k]
  PROVE  /\ Object(q2, d, g)
         /\ Held(q2, d) = Held(q, d) \union {m}
         /\ InStep(q, d) => InStep(q2, d)
<1>1. /\ q.items \in Seq(Msgs) /\ q.lines \in Seq(Msgs) /\ q.dropped \in Nat
      /\ d.told \in Seq(Msgs) /\ d.lines \in Seq(Msgs) /\ d.n \in Nat
  BY Fields DEF Object
<1>2. Sound(q, d, f) /\ Fit(q, d)
  BY DEF Object
<1>3. /\ q2 \in Queue /\ q2.items = Append(q.items, m)
      /\ q2.lines = q.lines /\ q2.dropped = q.dropped /\ q2.draining = q.draining
  BY DEF Queued
<1> DEFINE u == Append(q.items, m)
<1>4. /\ u \in Seq(Msgs) /\ Len(u) = Len(q.items) + 1
      /\ \A k \in DOMAIN u : u[k] = IF k = Len(q.items) + 1 THEN m ELSE q.items[k]
      /\ \A k \in DOMAIN u : k # Len(q.items) + 1 => k \in DOMAIN q.items
      /\ ToSet(u) = ToSet(q.items) \union {m}
  BY <1>1, AppendFacts
<1>5. q2.items = u
  BY <1>3
<1> HIDE DEF u
<1>6. m \notin Held(q, d)
  BY <1>2 DEF Sound
<1>7. Held(q2, d) = Held(q, d) \union {m}
  BY <1>3, <1>4, <1>5 DEF Held
<1>8. Sound(q2, d, g)
  <2>1. IsInjective(u)
    <3> SUFFICES ASSUME NEW a \in DOMAIN u, NEW b \in DOMAIN u, u[a] = u[b]
                 PROVE  a = b
      BY DEF IsInjective
    <3>1. \A k \in DOMAIN u : k # Len(q.items) + 1 => u[k] \in ToSet(q.items) /\ u[k] = q.items[k]
      BY <1>1, <1>4, EntryIsThere
    <3>2. m \notin ToSet(q.items)
      BY <1>6 DEF Held
    <3>3. CASE a = Len(q.items) + 1 \/ b = Len(q.items) + 1
      BY <1>4, <3>1, <3>2, <3>3
    <3>4. CASE a # Len(q.items) + 1 /\ b # Len(q.items) + 1
      BY <1>2, <1>4, <3>1, <3>4 DEF Sound, IsInjective
    <3> QED
      BY <3>3, <3>4
  <2>2. ToSet(u) \intersect ToSet(q.lines) = {}
    BY <1>2, <1>4, <1>6 DEF Sound, Held
  <2>3. \A k \in ToSet(u) : g[k] = "queued"
    BY <1>2, <1>4 DEF Sound
  <2>4. \A k \in Held(q2, d) : g[k] \notin {"new", "deciding"}
    BY <1>2, <1>7 DEF Sound
  <2>5. \A k \in DOMAIN u : k > d.n => u[k] \notin ToSet(d.told)
    <3> SUFFICES ASSUME NEW k \in DOMAIN u, k > d.n
                 PROVE  u[k] \notin ToSet(d.told)
      OBVIOUS
    <3>1. CASE k = Len(q.items) + 1
      BY <1>4, <1>6, <3>1 DEF Held
    <3>2. CASE k # Len(q.items) + 1
      BY <1>2, <1>4, <3>2 DEF Sound
    <3> QED
      BY <3>1, <3>2
  <2>6. ToSet(u) \intersect ToSet(d.lines) = {}
    BY <1>2, <1>4, <1>6 DEF Sound, Held
  <2>7. d.pc # "run" => d.told = <<>> /\ d.lines = <<>>
    BY <1>2 DEF Sound
  <2> QED
    BY <1>3, <1>5, <2>1, <2>2, <2>3, <2>4, <2>5, <2>6, <2>7 DEF Sound
<1>9. Fit(q2, d)
  BY <1>2, <1>3 DEF Fit
<1>10. ASSUME InStep(q, d) PROVE InStep(q2, d)
  <2> SUFFICES ASSUME d.pc = "run"
               PROVE  /\ d.n <= Len(u) /\ d.told = SubSeq(u, 1, d.n)
                      /\ d.summary => d.lines = q.lines
    BY <1>3, <1>5 DEF InStep
  <2>1. /\ d.n <= Len(q.items) /\ d.told = SubSeq(q.items, 1, d.n)
        /\ d.summary => d.lines = q.lines
    BY <1>10 DEF InStep
  <2>2. Len(q.items) \in Nat
    BY <1>1, LenProperties
  <2>3. d.n <= Len(u)
    BY <1>1, <1>4, <2>1, <2>2
  <2> DEFINE s == SubSeq(q.items, 1, d.n)
             t == SubSeq(u, 1, d.n)
  <2>4. s \in Seq(Msgs) /\ Len(s) = d.n /\ \A k \in 1 .. d.n : s[k] = q.items[k]
    BY <1>1, <2>1, FirstFacts
  <2>5. t \in Seq(Msgs) /\ Len(t) = d.n /\ \A k \in 1 .. d.n : t[k] = u[k]
    BY <1>1, <1>4, <2>3, FirstFacts
  <2> HIDE DEF s, t
  <2>6. \A k \in 1 .. Len(s) : s[k] = t[k]
    <3> SUFFICES ASSUME NEW k \in 1 .. d.n PROVE s[k] = t[k]
      BY <2>4
    <3>1. k # Len(q.items) + 1 /\ k \in 1 .. Len(u)
      BY <1>1, <1>4, <2>1, <2>2
    <3>2. k \in DOMAIN u
      BY <1>4, <3>1, LenProperties
    <3> QED
      BY <1>4, <2>4, <2>5, <3>1, <3>2
  <2>7. s = t
    BY <2>4, <2>5, <2>6, SeqEqual
  <2> QED
    BY <2>1, <2>3, <2>7 DEF s, t
<1> QED
  BY <1>7, <1>8, <1>9, <1>10 DEF Object

(* Queue q2 is q emptied.                                                   *)
Emptied(q2, q) ==
  /\ q2 \in Queue /\ q2.items = <<>> /\ q2.lines = <<>> /\ q2.dropped = 0
  /\ q2.draining = q.draining

LEMMA ClearIsSound ==
  ASSUME NEW q, NEW d, NEW f, Object(q, d, f), NEW q2, Emptied(q2, q),
         NEW g, \A m \in Held(q, d) : g[m] = f[m] \/ g[m] = "discarded"
  PROVE  Object(q2, d, g) /\ Held(q2, d) \subseteq Held(q, d)
<1>1. Sound(q, d, f) /\ Fit(q, d)
  BY DEF Object
<1>2. /\ q2 \in Queue /\ q2.items = <<>> /\ q2.lines = <<>> /\ q2.dropped = 0
      /\ q2.draining = q.draining
  BY DEF Emptied
<1>3. ToSet(q2.items) = {} /\ ToSet(q2.lines) = {} /\ Len(q2.lines) = 0
  BY <1>2, NoEntries
<1>4. DOMAIN q2.items = {} /\ IsInjective(q2.items)
  BY <1>2 DEF IsInjective
<1>5. Held(q2, d) \subseteq Held(q, d)
  BY <1>3 DEF Held
<1>6. Sound(q2, d, g)
  <2>1. \A m \in Held(q2, d) : g[m] \notin {"new", "deciding"}
    BY <1>1, <1>5 DEF Sound
  <2>2. d.pc # "run" => d.told = <<>> /\ d.lines = <<>>
    BY <1>1 DEF Sound
  <2> QED
    BY <1>3, <1>4, <2>1, <2>2 DEF Sound
<1>7. Fit(q2, d)
  BY <1>1, <1>2, <1>3 DEF Fit
<1> QED
  BY <1>5, <1>6, <1>7 DEF Object

-----------------------------------------------------------------------------
(* The objects and the key *)

Fresh(f) == {m \in Msgs : f[m] \in {"new", "deciding"}}

Stored(qu, dr, f) ==
  /\ qu \in [Queues -> Queue] /\ dr \in [Queues -> Drain] /\ f \in [Msgs -> Fates]
  /\ \A i \in Queues : Object(qu[i], dr[i], f)
  /\ \A i, j \in Queues : i # j =>
       Held(qu[i], dr[i]) \intersect Held(qu[j], dr[j]) = {}

Bounds(mp, md, ex, cl) ==
  /\ mp \in {NoQueue} \union Queues /\ md \in 0 .. MaxQueues
  /\ ex \in BOOLEAN /\ cl \in 0 .. MaxClears

Made(mp, dr, md) == mp <= md /\ \A i \in Queues : i > md => dr[i].pc = "off"

Intact(ex, cl) == cl = 0 \/ ~ex

Owner(mp, dr, ex, cl) ==
  Intact(ex, cl) => \A i \in Queues : dr[i].pc # "off" => i = mp

AllInStep(qu, dr, ex) == ~ex => \A i \in Queues : InStep(qu[i], dr[i])

Kept(mp, qu, f, ex) ==
  ~ex => \A m \in Msgs : f[m] = "queued" =>
            /\ mp # NoQueue
            /\ m \in ToSet(qu[mp].items) \union ToSet(qu[mp].lines)

Good(mp, qu, dr, md, f, ex, cl) ==
  /\ Bounds(mp, md, ex, cl)
  /\ Stored(qu, dr, f)
  /\ Made(mp, dr, md)
  /\ Owner(mp, dr, ex, cl)
  /\ AllInStep(qu, dr, ex)
  /\ Kept(mp, qu, f, ex)

Put(g, f, i, v) == g = [f EXCEPT ![i] = v]

LEMMA PutFacts ==
  ASSUME NEW f, DOMAIN f = Queues, NEW i \in Queues, NEW v, NEW g, Put(g, f, i, v)
  PROVE  g[i] = v /\ DOMAIN g = Queues /\ \A j \in Queues : j # i => g[j] = f[j]
  BY DEF Put

(* The fates g are f but for messages that q and d know of, and fresh ones. *)
Elsewhere(g, f, q, d) ==
  /\ g \in [Msgs -> Fates]
  /\ \A m \in Msgs : g[m] # f[m] => m \in Held(q, d) \union Fresh(f)

Within(q2, d2, q, d, f) == Held(q2, d2) \subseteq Held(q, d) \union Fresh(f)

(* One object is replaced.                                                  *)
LEMMA ReplaceObject ==
  ASSUME NEW qu, NEW dr, NEW f, Stored(qu, dr, f), NEW i \in Queues,
         NEW q, NEW d, NEW g, Object(q, d, g),
         Within(q, d, qu[i], dr[i], f), Elsewhere(g, f, qu[i], dr[i]),
         NEW qu2, Put(qu2, qu, i, q), NEW dr2, Put(dr2, dr, i, d)
  PROVE  Stored(qu2, dr2, g)
<1>1. /\ qu \in [Queues -> Queue] /\ dr \in [Queues -> Drain] /\ f \in [Msgs -> Fates]
      /\ \A k \in Queues : Object(qu[k], dr[k], f)
      /\ \A k, l \in Queues : k # l =>
           Held(qu[k], dr[k]) \intersect Held(qu[l], dr[l]) = {}
  BY DEF Stored
<1>2. /\ qu2[i] = q /\ DOMAIN qu2 = Queues
      /\ \A j \in Queues : j # i => qu2[j] = qu[j]
  BY <1>1, PutFacts
<1>3. /\ dr2[i] = d /\ DOMAIN dr2 = Queues
      /\ \A j \in Queues : j # i => dr2[j] = dr[j]
  BY <1>1, PutFacts
<1>4. q \in Queue /\ d \in Drain
  BY DEF Object, Fit
<1>5. qu2 \in [Queues -> Queue] /\ dr2 \in [Queues -> Drain]
  BY <1>1, <1>4 DEF Put
<1>6. ASSUME NEW j \in Queues, j # i
      PROVE  /\ Held(qu[j], dr[j]) \intersect Held(q, d) = {}
             /\ \A m \in Held(qu[j], dr[j]) : g[m] = f[m]
  <2>1. Held(qu[j], dr[j]) \intersect Held(qu[i], dr[i]) = {}
    BY <1>1, <1>6
  <2>2. Object(qu[j], dr[j], f)
    BY <1>1
  <2>3. \A m \in Held(qu[j], dr[j]) : m \in Msgs /\ m \notin Fresh(f)
    <3>1. Held(qu[j], dr[j]) \subseteq Msgs
      BY <2>2, HeldAreMsgs DEF Object
    <3> QED
      BY <2>2, <3>1 DEF Object, Sound, Fresh
  <2>4. Held(qu[j], dr[j]) \intersect Held(q, d) = {}
    BY <2>1, <2>3 DEF Within
  <2>5. \A m \in Held(qu[j], dr[j]) : g[m] = f[m]
    BY <2>1, <2>3 DEF Elsewhere
  <2> QED
    BY <2>4, <2>5
<1>7. ASSUME NEW j \in Queues PROVE Object(qu2[j], dr2[j], g)
  <2>1. CASE j = i
    BY <1>2, <1>3, <2>1
  <2>2. CASE j # i
    <3>1. Object(qu[j], dr[j], f) /\ \A m \in Held(qu[j], dr[j]) : g[m] = f[m]
      BY <1>1, <1>6, <2>2
    <3>2. Object(qu[j], dr[j], g)
      BY <3>1, SoundByFates
    <3> QED
      BY <1>2, <1>3, <2>2, <3>2
  <2> QED
    BY <2>1, <2>2
<1>8. ASSUME NEW k \in Queues, NEW l \in Queues, k # l
      PROVE  Held(qu2[k], dr2[k]) \intersect Held(qu2[l], dr2[l]) = {}
  <2>1. CASE k = i
    BY <1>2, <1>3, <1>6, <1>8, <2>1
  <2>2. CASE l = i
    BY <1>2, <1>3, <1>6, <1>8, <2>2
  <2>3. CASE k # i /\ l # i
    BY <1>1, <1>2, <1>3, <1>8, <2>3
  <2> QED
    BY <2>1, <2>2, <2>3
<1>9. g \in [Msgs -> Fates]
  BY DEF Elsewhere
<1> QED
  BY <1>5, <1>7, <1>8, <1>9 DEF Stored

(* Unless the history excuses it.                                           *)
InStepOr(ex, q, d) == ~ex => InStep(q, d)

LEMMA ReplaceInStep ==
  ASSUME NEW qu, NEW dr, NEW f, Stored(qu, dr, f), NEW i \in Queues,
         NEW q, NEW d, NEW qu2, Put(qu2, qu, i, q), NEW dr2, Put(dr2, dr, i, d),
         NEW ex, NEW ex2, AllInStep(qu, dr, ex), ex => ex2, InStepOr(ex2, q, d)
  PROVE  AllInStep(qu2, dr2, ex2)
<1>1. DOMAIN qu = Queues /\ DOMAIN dr = Queues
  BY DEF Stored
<1>2. /\ qu2[i] = q /\ \A j \in Queues : j # i => qu2[j] = qu[j]
      /\ dr2[i] = d /\ \A j \in Queues : j # i => dr2[j] = dr[j]
  BY <1>1, PutFacts
<1> QED
  BY <1>2 DEF AllInStep, InStepOr

(* The same entries and previews under the same key.                        *)
LEMMA KeptBySame ==
  ASSUME NEW qu, NEW dr, NEW f, Stored(qu, dr, f), NEW i \in Queues,
         NEW q, SameEntries(q, qu[i]), NEW qu2, Put(qu2, qu, i, q),
         NEW mp, NEW ex, Kept(mp, qu, f, ex), mp \in {NoQueue} \union Queues
  PROVE  Kept(mp, qu2, f, ex)
<1>1. DOMAIN qu = Queues
  BY DEF Stored
<1>2. qu2[i] = q /\ \A j \in Queues : j # i => qu2[j] = qu[j]
  BY <1>1, PutFacts
<1>3. q.items = qu[i].items /\ q.lines = qu[i].lines
  BY DEF SameEntries
<1>4. mp \in Queues => qu2[mp].items = qu[mp].items /\ qu2[mp].lines = qu[mp].lines
  BY <1>2, <1>3
<1> QED
  BY <1>4 DEF Kept

LEMMA OffIsSilent ==
  /\ Silent(Off) /\ Off.pc = "off"
  /\ \A b \in BOOLEAN : /\ Silent([Off EXCEPT !.pc = "wait", !.force = b])
                        /\ [Off EXCEPT !.pc = "wait", !.force = b].pc = "wait"
  /\ Silent([Off EXCEPT !.pc = "wait"]) /\ [Off EXCEPT !.pc = "wait"].pc = "wait"
<1>1. <<>> \in Seq(Msgs)
  OBVIOUS
<1> QED
  BY <1>1 DEF Off, Silent, Drain

(* Nothing but the drain of i has changed, and it is silent.                *)
LEMMA QuietIsGood ==
  ASSUME NEW mp, NEW qu, NEW dr, NEW md, NEW f, NEW ex, NEW cl,
         Good(mp, qu, dr, md, f, ex, cl), NEW i \in Queues, i <= md,
         NEW q, SameEntries(q, qu[i]), NEW d, Silent(d), q.draining <=> d.pc # "off",
         dr[i].pc = "off" /\ d.pc # "off" => i = mp,
         NEW qu2, Put(qu2, qu, i, q), NEW dr2, Put(dr2, dr, i, d)
  PROVE  Good(mp, qu2, dr2, md, f, ex, cl)
<1>1. /\ Bounds(mp, md, ex, cl) /\ Stored(qu, dr, f) /\ Made(mp, dr, md)
      /\ Owner(mp, dr, ex, cl) /\ AllInStep(qu, dr, ex) /\ Kept(mp, qu, f, ex)
  BY DEF Good
<1>2. Object(qu[i], dr[i], f) /\ f \in [Msgs -> Fates] /\ DOMAIN dr = Queues
  BY <1>1 DEF Stored
<1>3. Object(q, d, f) /\ Held(q, d) \subseteq Held(qu[i], dr[i])
  BY <1>2, QuietIsSound
<1>4. Within(q, d, qu[i], dr[i], f) /\ Elsewhere(f, f, qu[i], dr[i])
  BY <1>2, <1>3 DEF Within, Elsewhere
<1>5. Stored(qu2, dr2, f)
  BY <1>1, <1>3, <1>4, ReplaceObject
<1>6. dr2[i] = d /\ \A j \in Queues : j # i => dr2[j] = dr[j]
  BY <1>2, PutFacts
<1>7. md \in Nat /\ i \in Nat
  BY <1>1 DEF Bounds, Queues
<1>8. Made(mp, dr2, md)
  BY <1>1, <1>6, <1>7 DEF Made
<1>9. Owner(mp, dr2, ex, cl)
  BY <1>1, <1>6 DEF Owner
<1>10. InStepOr(ex, q, d)
  BY SilentHolds DEF InStepOr
<1>11. AllInStep(qu2, dr2, ex)
  BY <1>1, <1>10, ReplaceInStep
<1>12. mp \in {NoQueue} \union Queues
  BY <1>1 DEF Bounds
<1>13. Kept(mp, qu2, f, ex)
  BY <1>1, <1>12, KeptBySame
<1> QED
  BY <1>1, <1>5, <1>8, <1>9, <1>11, <1>13 DEF Good

(* The key of an empty queue is given up: by the drain of the queue, or by  *)
(* that of another one once a clear hit a queue in its drain.               *)
LEMMA GiveUpIsGood ==
  ASSUME NEW mp, NEW qu, NEW dr, NEW md, NEW f, NEW ex, NEW cl,
         Good(mp, qu, dr, md, f, ex, cl), NEW i \in Queues, Idle(qu[i]),
         dr[i].pc = "off", Intact(ex, cl) => i = mp
  PROVE  Good(NoQueue, qu, dr, md, f, ex, cl)
<1>1. /\ Bounds(mp, md, ex, cl) /\ Stored(qu, dr, f) /\ Made(mp, dr, md)
      /\ Owner(mp, dr, ex, cl) /\ AllInStep(qu, dr, ex) /\ Kept(mp, qu, f, ex)
  BY DEF Good
<1>2. Object(qu[i], dr[i], f)
  BY <1>1 DEF Stored
<1>3. /\ qu[i].lines \in Seq(Msgs) /\ Len(qu[i].lines) <= 0 /\ qu[i].items = <<>>
  BY <1>2, Fields DEF Object, Fit, Idle
<1>4. qu[i].lines = <<>>
  BY <1>3, EmptySeq, LenProperties
<1>5. ToSet(qu[i].items) \union ToSet(qu[i].lines) = {}
  BY <1>3, <1>4, NoEntries
<1>6. Kept(NoQueue, qu, f, ex)
  BY <1>1, <1>5 DEF Kept, Intact
<1>7. Owner(NoQueue, dr, ex, cl)
  BY <1>1 DEF Owner
<1>8. Bounds(NoQueue, md, ex, cl) /\ Made(NoQueue, dr, md)
  BY <1>1 DEF Bounds, Made, NoQueue
<1> QED
  BY <1>1, <1>6, <1>7, <1>8 DEF Good

-----------------------------------------------------------------------------
(* The drain as a function of the store *)

Stores == [map : {NoQueue} \union Queues, queue : [Queues -> Queue],
           drain : [Queues -> Drain]]

Ok(s, md, f, ex, cl) ==
  s \in Stores /\ Good(s.map, s.queue, s.drain, md, f, ex, cl)

(* No drain of t awaits a run that it did not await in s.                   *)
NoNewRun(t, s) ==
  \A j \in Queues : t.drain[j].pc = "run" => s.drain[j].pc = "run"

Marked(q, b) == [q EXCEPT !.draining = b]

LEMMA MarkedFacts ==
  ASSUME NEW q \in Queue, NEW b \in BOOLEAN
  PROVE  SameEntries(Marked(q, b), q) /\ Marked(q, b).draining = b
<1> DEFINE v == [q EXCEPT !.draining = b]
<1>1. v \in Queue
  BY DEF Queue
<1>2. v.items = q.items /\ v.lines = q.lines /\ v.dropped = q.dropped /\ v.draining = b
  BY DEF Queue
<1> HIDE DEF v
<1>3. Marked(q, b) = v
  BY DEF Marked, v
<1> QED
  BY <1>1, <1>2, <1>3 DEF SameEntries

LEMMA DrainedStore ==
  ASSUME NEW s \in Stores, NEW i \in Queues, NEW b \in BOOLEAN, NEW d \in Drain,
         NEW t, t = [s EXCEPT !.queue[i].draining = b, !.drain[i] = d]
  PROVE  /\ t \in Stores /\ t.map = s.map
         /\ Put(t.queue, s.queue, i, Marked(s.queue[i], b))
         /\ Put(t.drain, s.drain, i, d)
<1>1. /\ t.map = s.map
      /\ t.queue = [s.queue EXCEPT ![i] = [s.queue[i] EXCEPT !.draining = b]]
      /\ t.drain = [s.drain EXCEPT ![i] = d]
      /\ t = [map |-> t.map, queue |-> t.queue, drain |-> t.drain]
  BY DEF Stores
<1>2. /\ s.queue \in [Queues -> Queue] /\ s.drain \in [Queues -> Drain]
      /\ s.map \in {NoQueue} \union Queues
  BY DEF Stores
<1>3. Marked(s.queue[i], b) \in Queue
  BY <1>2, MarkedFacts DEF SameEntries
<1>4. t.queue = [s.queue EXCEPT ![i] = Marked(s.queue[i], b)]
  BY <1>1 DEF Marked
<1>5. t.queue \in [Queues -> Queue] /\ t.drain \in [Queues -> Drain]
  BY <1>1, <1>2, <1>3, <1>4
<1>6. t \in Stores
  BY <1>1, <1>2, <1>5 DEF Stores
<1> QED
  BY <1>1, <1>4, <1>6 DEF Put

LEMMA NoKeyStore ==
  ASSUME NEW s \in Stores, NEW t, t = [s EXCEPT !.map = NoQueue]
  PROVE  t \in Stores /\ t.map = NoQueue /\ t.queue = s.queue /\ t.drain = s.drain
  BY DEF Stores

LEMMA ScheduleIsGood ==
  ASSUME NEW s, NEW md, NEW f, NEW ex, NEW cl, Ok(s, md, f, ex, cl)
  PROVE  Ok(ScheduleDrain(s), md, f, ex, cl) /\ NoNewRun(ScheduleDrain(s), s)
<1> DEFINE i == s.map
<1>1. s \in Stores /\ Good(i, s.queue, s.drain, md, f, ex, cl)
  BY DEF Ok
<1>2. /\ Bounds(i, md, ex, cl) /\ Stored(s.queue, s.drain, f) /\ Made(i, s.drain, md)
  BY <1>1 DEF Good
<1>3. i \in {NoQueue} \union Queues
  BY <1>1 DEF Stores
<1>4. CASE ScheduleDrain(s) = s
  BY <1>4 DEF NoNewRun
<1>5. CASE i # NoQueue /\ ~s.queue[i].draining /\ Idle(s.queue[i])
  <2> DEFINE t == [s EXCEPT !.map = NoQueue]
  <2>1. ScheduleDrain(s) = t
    BY <1>5 DEF ScheduleDrain
  <2>2. t \in Stores /\ t.map = NoQueue /\ t.queue = s.queue /\ t.drain = s.drain
    BY <1>1, NoKeyStore
  <2> HIDE DEF t
  <2>3. i \in Queues
    BY <1>3, <1>5
  <2>4. s.drain[i].pc = "off"
    BY <1>2, <1>5, <2>3 DEF Stored, Object, Fit
  <2>5. Good(NoQueue, s.queue, s.drain, md, f, ex, cl)
    BY <1>1, <1>5, <2>3, <2>4, GiveUpIsGood
  <2> QED
    BY <2>1, <2>2, <2>5 DEF Ok, NoNewRun
<1>6. CASE i # NoQueue /\ ~s.queue[i].draining /\ ~Idle(s.queue[i])
  <2> DEFINE d == [Off EXCEPT !.pc = "wait"]
             t == [s EXCEPT !.queue[i].draining = TRUE, !.drain[i] = d]
  <2>1. ScheduleDrain(s) = t
    BY <1>6 DEF ScheduleDrain
  <2>2. Silent(d) /\ d.pc = "wait" /\ d \in Drain
    BY OffIsSilent DEF Silent
  <2> HIDE DEF d
  <2>3. i \in Queues /\ i <= md
    BY <1>2, <1>3, <1>6 DEF Made
  <2>4. /\ t \in Stores /\ t.map = i
        /\ Put(t.queue, s.queue, i, Marked(s.queue[i], TRUE))
        /\ Put(t.drain, s.drain, i, d)
    BY <1>1, <2>2, <2>3, DrainedStore
  <2> HIDE DEF t
  <2>5. s.queue[i] \in Queue /\ DOMAIN s.drain = Queues
    BY <1>1, <2>3 DEF Stores
  <2> DEFINE q == Marked(s.queue[i], TRUE)
  <2>6. SameEntries(q, s.queue[i]) /\ q.draining = TRUE
    BY <2>5, MarkedFacts
  <2> HIDE DEF q
  <2>7. Put(t.queue, s.queue, i, q)
    BY <2>4 DEF q
  <2>8. q.draining <=> d.pc # "off"
    BY <2>2, <2>6
  <2>9. Good(i, t.queue, t.drain, md, f, ex, cl)
    BY <1>1, <2>2, <2>3, <2>4, <2>6, <2>7, <2>8, QuietIsGood
  <2>10. t.drain[i] = d /\ \A j \in Queues : j # i => t.drain[j] = s.drain[j]
    BY <2>3, <2>4, <2>5, PutFacts
  <2>11. NoNewRun(t, s)
    BY <2>2, <2>10 DEF NoNewRun
  <2> QED
    BY <2>1, <2>4, <2>9, <2>11 DEF Ok
<1> QED
  BY <1>4, <1>5, <1>6 DEF ScheduleDrain

LEMMA FinallyIsGood ==
  ASSUME NEW s \in Stores, NEW i \in Queues, NEW dr, NEW md, NEW f, NEW ex, NEW cl,
         Good(s.map, s.queue, dr, md, f, ex, cl), dr[i].pc # "off",
         \A j \in Queues : j # i => dr[j] = s.drain[j]
  PROVE  Ok(Finally(s, i), md, f, ex, cl) /\ NoNewRun(Finally(s, i), s)
<1> DEFINE t == [s EXCEPT !.queue[i].draining = FALSE, !.drain[i] = Off]
<1>1. Silent(Off) /\ Off.pc = "off" /\ Off \in Drain
  BY OffIsSilent DEF Silent
<1>2. /\ t \in Stores /\ t.map = s.map
      /\ Put(t.queue, s.queue, i, Marked(s.queue[i], FALSE))
      /\ Put(t.drain, s.drain, i, Off)
  BY <1>1, DrainedStore
<1>3. Finally(s, i) = IF Idle(t.queue[i]) THEN [t EXCEPT !.map = NoQueue]
                                          ELSE ScheduleDrain(t)
  BY DEF Finally
<1> HIDE DEF t
<1>4. /\ Bounds(s.map, md, ex, cl) /\ Stored(s.queue, dr, f)
      /\ Made(s.map, dr, md) /\ Owner(s.map, dr, ex, cl)
  BY DEF Good
<1>5. /\ s.queue[i] \in Queue /\ DOMAIN s.drain = Queues /\ DOMAIN s.queue = Queues
      /\ dr \in [Queues -> Drain]
  BY <1>4 DEF Stores, Stored
<1> DEFINE q == Marked(s.queue[i], FALSE)
<1>6. SameEntries(q, s.queue[i]) /\ q.draining = FALSE
  BY <1>5, MarkedFacts
<1> HIDE DEF q
<1>7. Put(t.queue, s.queue, i, q)
  BY <1>2 DEF q
<1>8. Put(t.drain, dr, i, Off)
  <2>1. [s.drain EXCEPT ![i] = Off] = [dr EXCEPT ![i] = Off]
    BY <1>5
  <2> QED
    BY <1>2, <2>1 DEF Put
<1>9. i <= md
  <2>1. md \in Nat /\ i \in Nat
    BY <1>4 DEF Bounds, Queues
  <2> QED
    BY <1>4, <2>1 DEF Made
<1>10. q.draining <=> Off.pc # "off"
  BY <1>1, <1>6
<1>11. Good(s.map, t.queue, t.drain, md, f, ex, cl)
  BY <1>1, <1>6, <1>7, <1>8, <1>9, <1>10, QuietIsGood
<1>12. /\ t.drain[i] = Off /\ \A j \in Queues : j # i => t.drain[j] = s.drain[j]
  BY <1>2, <1>5, PutFacts
<1>13. NoNewRun(t, s)
  BY <1>1, <1>12 DEF NoNewRun
<1>14. CASE Idle(t.queue[i])
  <2> DEFINE u == [t EXCEPT !.map = NoQueue]
  <2>1. Finally(s, i) = u
    BY <1>3, <1>14
  <2>2. u \in Stores /\ u.map = NoQueue /\ u.queue = t.queue /\ u.drain = t.drain
    BY <1>2, NoKeyStore
  <2> HIDE DEF u
  <2>3. t.drain[i].pc = "off"
    BY <1>1, <1>12
  <2>4. Intact(ex, cl) => i = s.map
    BY <1>4 DEF Owner
  <2>5. Good(NoQueue, t.queue, t.drain, md, f, ex, cl)
    BY <1>11, <1>14, <2>3, <2>4, GiveUpIsGood
  <2> QED
    BY <1>13, <2>1, <2>2, <2>5 DEF Ok, NoNewRun
<1>15. CASE ~Idle(t.queue[i])
  <2>1. Finally(s, i) = ScheduleDrain(t)
    BY <1>3, <1>15
  <2>2. Ok(t, md, f, ex, cl)
    BY <1>2, <1>11 DEF Ok
  <2>3. Ok(ScheduleDrain(t), md, f, ex, cl) /\ NoNewRun(ScheduleDrain(t), t)
    BY <2>2, ScheduleIsGood
  <2> QED
    BY <1>13, <2>1, <2>3 DEF NoNewRun
<1> QED
  BY <1>14, <1>15

LEMMA LoopHeadIsGood ==
  ASSUME NEW s \in Stores, NEW i \in Queues, NEW dr, NEW md, NEW f, NEW ex, NEW cl,
         Put(dr, s.drain, i, [Off EXCEPT !.pc = "wait", !.force = s.drain[i].force]),
         Good(s.map, s.queue, dr, md, f, ex, cl)
  PROVE  Ok(LoopHead(s, i), md, f, ex, cl) /\ NoNewRun(LoopHead(s, i), s)
<1> DEFINE d == [Off EXCEPT !.pc = "wait", !.force = s.drain[i].force]
<1>1. s.drain[i] \in Drain /\ DOMAIN s.drain = Queues
  BY DEF Stores
<1>2. s.drain[i].force \in BOOLEAN
  BY <1>1 DEF Drain
<1>3. d.pc = "wait"
  BY <1>2, OffIsSilent
<1>4. Put(dr, s.drain, i, d)
  OBVIOUS
<1>5. LoopHead(s, i) = IF Idle(s.queue[i]) THEN Finally(s, i)
                       ELSE [s EXCEPT !.drain[i] = d]
  BY DEF LoopHead
<1> HIDE DEF d
<1>6. dr[i] = d /\ \A j \in Queues : j # i => dr[j] = s.drain[j]
  BY <1>1, <1>4, PutFacts
<1>7. CASE Idle(s.queue[i])
  <2>1. Ok(Finally(s, i), md, f, ex, cl) /\ NoNewRun(Finally(s, i), s)
    BY <1>3, <1>6, FinallyIsGood
  <2> QED
    BY <1>5, <1>7, <2>1
<1>8. CASE ~Idle(s.queue[i])
  <2> DEFINE t == [s EXCEPT !.drain[i] = d]
  <2>1. LoopHead(s, i) = t
    BY <1>5, <1>8
  <2>2. /\ t.map = s.map /\ t.queue = s.queue /\ t.drain = [s.drain EXCEPT ![i] = d]
        /\ t = [map |-> t.map, queue |-> t.queue, drain |-> t.drain]
    BY DEF Stores
  <2> HIDE DEF t
  <2>3. t.drain = dr
    BY <1>4, <2>2 DEF Put
  <2>4. dr \in [Queues -> Drain]
    BY DEF Good, Stored
  <2>5. t \in Stores
    BY <2>2, <2>3, <2>4 DEF Stores
  <2>6. NoNewRun(t, s)
    BY <1>3, <1>6, <2>3 DEF NoNewRun
  <2> QED
    BY <2>1, <2>2, <2>3, <2>5, <2>6 DEF Ok
<1> QED
  BY <1>7, <1>8

-----------------------------------------------------------------------------
(* Fates, settings and new entries *)

(* Messages that no object knows of get a fate other than "queued".         *)
LEMMA FateIsGood ==
  ASSUME NEW mp, NEW qu, NEW dr, NEW md, NEW f, NEW ex, NEW cl,
         Good(mp, qu, dr, md, f, ex, cl), NEW g \in [Msgs -> Fates],
         \A m \in Msgs : g[m] # f[m] => m \in Fresh(f) /\ g[m] # "queued"
  PROVE  Good(mp, qu, dr, md, g, ex, cl)
<1>1. Stored(qu, dr, f) /\ Kept(mp, qu, f, ex)
  BY DEF Good
<1>2. ASSUME NEW i \in Queues PROVE Object(qu[i], dr[i], g)
  <2>1. Object(qu[i], dr[i], f)
    BY <1>1 DEF Stored
  <2>2. Held(qu[i], dr[i]) \subseteq Msgs
    BY <2>1, HeldAreMsgs DEF Object
  <2>3. \A m \in Held(qu[i], dr[i]) : g[m] = f[m]
    BY <2>1, <2>2 DEF Object, Sound, Fresh
  <2> QED
    BY <2>1, <2>3, SoundByFates
<1>3. Stored(qu, dr, g)
  BY <1>1, <1>2 DEF Stored
<1>4. Kept(mp, qu, g, ex)
  BY <1>1 DEF Kept
<1> QED
  BY <1>3, <1>4 DEF Good

LEMMA SettingsAreGood ==
  ASSUME NEW mp, NEW qu, NEW dr, NEW md, NEW f, NEW ex, NEW cl,
         Good(mp, qu, dr, md, f, ex, cl), NEW i \in Queues,
         NEW q, SameEntries(q, qu[i]), q.draining = qu[i].draining,
         NEW qu2, Put(qu2, qu, i, q)
  PROVE  Good(mp, qu2, dr, md, f, ex, cl)
<1>1. /\ Bounds(mp, md, ex, cl) /\ Stored(qu, dr, f) /\ Made(mp, dr, md)
      /\ Owner(mp, dr, ex, cl) /\ AllInStep(qu, dr, ex) /\ Kept(mp, qu, f, ex)
  BY DEF Good
<1>2. Object(qu[i], dr[i], f) /\ f \in [Msgs -> Fates] /\ dr \in [Queues -> Drain]
  BY <1>1 DEF Stored
<1> DEFINE d == dr[i]
<1>3. Put(dr, dr, i, d)
  BY <1>2 DEF Put
<1>4. /\ Object(q, d, f) /\ Held(q, d) = Held(qu[i], d)
      /\ InStep(qu[i], d) => InStep(q, d)
  BY <1>2, SettingsKeep
<1>5. Within(q, d, qu[i], dr[i], f) /\ Elsewhere(f, f, qu[i], dr[i])
  BY <1>2, <1>4 DEF Within, Elsewhere
<1>6. InStepOr(ex, q, d)
  BY <1>1, <1>4 DEF AllInStep, InStepOr
<1> HIDE DEF d
<1>7. Stored(qu2, dr, f)
  BY <1>1, <1>3, <1>4, <1>5, ReplaceObject
<1>8. AllInStep(qu2, dr, ex)
  BY <1>1, <1>3, <1>6, ReplaceInStep
<1>9. mp \in {NoQueue} \union Queues
  BY <1>1 DEF Bounds
<1>10. Kept(mp, qu2, f, ex)
  BY <1>1, <1>9, KeptBySame
<1> QED
  BY <1>1, <1>7, <1>8, <1>10 DEF Good

LEMMA CreatedFacts ==
  ASSUME NEW s \in Settings
  PROVE  /\ Created(s) \in Queue /\ Created(s).items = <<>> /\ Created(s).lines = <<>>
         /\ Created(s).dropped = 0 /\ Created(s).draining = FALSE
         /\ Created(s).cap = s.cap /\ s.cap \in Nat \ {0}
         /\ s.mode \in Modes /\ s.drop \in Drops
<1>1. s.mode \in Modes /\ s.cap \in Nat \ {0} /\ s.drop \in Drops
  BY SettingsAssumption
<1>2. <<>> \in Seq(Msgs)
  OBVIOUS
<1> QED
  BY <1>1, <1>2 DEF Created, Queue

(* An empty queue with a silent drain.                                      *)
LEMMA EmptyIsSound ==
  ASSUME NEW s \in Settings, NEW d, Silent(d), d.pc = "off", NEW f
  PROVE  Object(Created(s), d, f) /\ Held(Created(s), d) = {}
<1> DEFINE q == Created(s)
<1>1. q \in Queue /\ q.items = <<>> /\ q.lines = <<>> /\ q.dropped = 0 /\ q.draining = FALSE
  BY CreatedFacts
<1> HIDE DEF q
<1>2. ToSet(q.items) = {} /\ ToSet(q.lines) = {} /\ Len(q.lines) = 0 /\ DOMAIN q.items = {}
  BY <1>1, NoEntries
<1>3. Held(q, d) = {}
  BY <1>2, SilentHolds
<1>4. d.told = <<>> /\ d.lines = <<>> /\ d \in Drain /\ ToSet(d.told) = {}
  BY NoEntries DEF Silent
<1>5. IsInjective(q.items)
  BY <1>2 DEF IsInjective
<1>6. Sound(q, d, f)
  BY <1>2, <1>3, <1>4, <1>5 DEF Sound
<1>7. Fit(q, d)
  BY <1>1, <1>2, <1>4 DEF Fit
<1> QED
  BY <1>3, <1>6, <1>7 DEF Object, q

(* getFollowupQueue makes a queue for a key that has none.                  *)
LEMMA OpenIsGood ==
  ASSUME NEW qu, NEW dr, NEW md, NEW f, NEW ex, NEW cl,
         Good(NoQueue, qu, dr, md, f, ex, cl), md < MaxQueues,
         NEW s \in Settings, NEW i, i = md + 1,
         NEW qu2, Put(qu2, qu, i, Created(s))
  PROVE  Good(i, qu2, dr, i, f, ex, cl) /\ i \in Queues /\ dr[i].pc = "off"
<1>1. /\ Bounds(NoQueue, md, ex, cl) /\ Stored(qu, dr, f) /\ Made(NoQueue, dr, md)
      /\ Owner(NoQueue, dr, ex, cl) /\ AllInStep(qu, dr, ex) /\ Kept(NoQueue, qu, f, ex)
  BY DEF Good
<1>2. md \in Nat /\ MaxQueues \in Nat
  BY <1>1, BoundsAssumption DEF Bounds
<1>3. i \in Queues /\ i > md
  BY <1>2 DEF Queues
<1>4. dr[i].pc = "off"
  BY <1>1, <1>3 DEF Made
<1>5. Object(qu[i], dr[i], f) /\ f \in [Msgs -> Fates] /\ dr \in [Queues -> Drain]
  BY <1>1, <1>3 DEF Stored
<1> DEFINE d == dr[i]
           q == Created(s)
<1>6. Silent(d)
  BY <1>4, <1>5 DEF Silent, Object, Sound, Fit
<1>7. Put(dr, dr, i, d)
  BY <1>5 DEF Put
<1>8. Object(q, d, f) /\ Held(q, d) = {} /\ InStepOr(ex, q, d)
  BY <1>4, <1>6, EmptyIsSound, SilentHolds DEF InStepOr
<1>9. Within(q, d, qu[i], dr[i], f) /\ Elsewhere(f, f, qu[i], dr[i])
  BY <1>5, <1>8 DEF Within, Elsewhere
<1> HIDE DEF d
<1>10. Put(qu2, qu, i, q)
  OBVIOUS
<1> HIDE DEF q
<1>11. Stored(qu2, dr, f)
  BY <1>1, <1>3, <1>7, <1>8, <1>9, <1>10, ReplaceObject
<1>12. AllInStep(qu2, dr, ex)
  BY <1>1, <1>3, <1>7, <1>8, <1>10, ReplaceInStep
<1>13. Made(i, dr, i)
  <2>1. \A j \in Queues : j > i => j > md
    BY <1>2 DEF Queues
  <2>2. i <= i
    BY <1>2
  <2> QED
    BY <1>1, <2>1, <2>2 DEF Made
<1>14. Owner(i, dr, ex, cl)
  <2>1. \A j \in Queues : j # NoQueue
    BY DEF Queues, NoQueue
  <2> QED
    BY <1>1, <2>1 DEF Owner
<1>15. Kept(i, qu2, f, ex)
  BY <1>1 DEF Kept
<1>16. Bounds(i, i, ex, cl)
  BY <1>1, <1>2, <1>3 DEF Bounds, Queues
<1> QED
  BY <1>3, <1>4, <1>11, <1>12, <1>13, <1>14, <1>15, <1>16 DEF Good

(* The fates once m is in the queue q that was made room in.                *)
FatesAfterPush(g, f, m, q, room) ==
  /\ g \in [Msgs -> Fates]
  /\ \A k \in Msgs : g[k] = IF k = m THEN "queued"
                            ELSE IF k \in Forgotten(q, room) THEN "discarded" ELSE f[k]

RoomOf(room, q) ==
  \/ room = q
  \/ room = DropOldest(q) /\ q.cap \in Nat \ {0} /\ Len(q.items) >= q.cap

LEMMA PushIsGood ==
  ASSUME NEW i \in Queues, NEW qu, NEW dr, NEW md, NEW f, NEW ex, NEW cl,
         Good(i, qu, dr, md, f, ex, cl),
         NEW m \in Msgs, f[m] = "deciding",
         NEW room, RoomOf(room, qu[i]), NEW q2, Queued(q2, room, m),
         NEW g, FatesAfterPush(g, f, m, qu[i], room),
         NEW ex2 \in BOOLEAN, ex => ex2, ~ex2 => room = qu[i] \/ dr[i].pc # "run",
         NEW qu2, Put(qu2, qu, i, q2)
  PROVE  Good(i, qu2, dr, md, g, ex2, cl)
<1>1. /\ Bounds(i, md, ex, cl) /\ Stored(qu, dr, f) /\ Made(i, dr, md)
      /\ Owner(i, dr, ex, cl) /\ AllInStep(qu, dr, ex) /\ Kept(i, qu, f, ex)
  BY DEF Good
<1>2. Object(qu[i], dr[i], f) /\ f \in [Msgs -> Fates] /\ dr \in [Queues -> Drain]
      /\ DOMAIN qu = Queues
  BY <1>1 DEF Stored
<1> DEFINE d == dr[i]
           q == qu[i]
<1>3. Put(dr, dr, i, d)
  BY <1>2 DEF Put
<1>4. Object(q, d, f) /\ dr[i] = d /\ qu[i] = q
  BY <1>2
<1> HIDE DEF d, q
<1>5. RoomOf(room, q) /\ FatesAfterPush(g, f, m, q, room)
  BY <1>4
<1>6. Object(room, d, f) /\ Held(room, d) \subseteq Held(q, d)
  BY <1>4, <1>5, DropIsSound DEF RoomOf
<1>7. Held(room, d) \subseteq Msgs /\ m \notin Held(room, d)
  BY <1>6, HeldAreMsgs DEF Object, Sound
<1>8. g \in [Msgs -> Fates]
  BY <1>5 DEF FatesAfterPush
<1>9. /\ g[m] = "queued"
      /\ \A k \in Held(room, d) : g[k] = f[k] \/ g[k] = "discarded"
  BY <1>5, <1>7 DEF FatesAfterPush
<1>10. \A k \in ToSet(room.items) : g[k] = f[k]
  <2> SUFFICES ASSUME NEW k \in ToSet(room.items) PROVE g[k] = f[k]
    OBVIOUS
  <2>1. k \in Held(room, d)
    BY DEF Held
  <2>2. k \in Msgs /\ k # m
    BY <1>7, <2>1
  <2>3. k \notin Forgotten(q, room)
    BY DEF Forgotten
  <2> QED
    BY <1>5, <2>2, <2>3 DEF FatesAfterPush
<1>11. /\ Object(q2, d, g) /\ Held(q2, d) = Held(room, d) \union {m}
       /\ InStep(room, d) => InStep(q2, d)
  BY <1>6, <1>9, <1>10, QueuedIsSound
<1>12. Within(q2, d, q, d, f)
  BY <1>6, <1>11 DEF Within, Fresh
<1>13. Elsewhere(g, f, q, d)
  <2> SUFFICES ASSUME NEW k \in Msgs, g[k] # f[k]
               PROVE  k \in Held(q, d) \union Fresh(f)
    BY <1>8 DEF Elsewhere
  <2>1. k = m \/ k \in Forgotten(q, room)
    BY <1>5 DEF FatesAfterPush
  <2> QED
    BY <2>1 DEF Fresh, Forgotten, Held
<1>14. Stored(qu2, dr, g)
  BY <1>1, <1>3, <1>4, <1>11, <1>12, <1>13, ReplaceObject
<1>15. InStepOr(ex2, q2, d)
  <2>1. ~ex2 => InStep(q, d)
    BY <1>1, <1>4 DEF AllInStep
  <2>2. d.pc # "run" => InStep(q2, d)
    BY DEF InStep
  <2>3. ~ex2 => room = q \/ d.pc # "run"
    BY <1>4
  <2> QED
    BY <1>11, <2>1, <2>2, <2>3 DEF InStepOr
<1>16. AllInStep(qu2, dr, ex2)
  BY <1>1, <1>3, <1>15, ReplaceInStep
<1>17. Owner(i, dr, ex2, cl)
  BY <1>1 DEF Owner, Intact
<1>18. Kept(i, qu2, g, ex2)
  <2> SUFFICES ASSUME ~ex2, NEW k \in Msgs, g[k] = "queued"
               PROVE  k \in ToSet(q2.items) \union ToSet(q2.lines) /\ i # NoQueue
    BY <1>2, PutFacts DEF Kept
  <2>1. q2.items = Append(room.items, m) /\ q2.lines = room.lines
    BY DEF Queued
  <2>2. room.items \in Seq(Msgs)
    BY <1>6, Fields DEF Object
  <2>3. ToSet(q2.items) = ToSet(room.items) \union {m}
    BY <2>1, <2>2, AppendFacts
  <2>4. i # NoQueue
    BY DEF Queues, NoQueue
  <2>5. CASE k = m
    BY <2>3, <2>4, <2>5
  <2>6. CASE k # m
    <3>1. k \notin Forgotten(q, room) /\ f[k] = "queued"
      BY <1>5, <2>6 DEF FatesAfterPush
    <3>2. k \in ToSet(q.items) \union ToSet(q.lines)
      BY <1>1, <1>4, <3>1 DEF Kept
    <3>3. k \in ToSet(room.items) \union ToSet(room.lines)
      BY <3>1, <3>2 DEF Forgotten
    <3> QED
      BY <2>1, <2>3, <2>4, <3>3
  <2> QED
    BY <2>5, <2>6
<1>19. Bounds(i, md, ex2, cl)
  BY <1>1 DEF Bounds
<1> QED
  BY <1>1, <1>14, <1>16, <1>17, <1>18, <1>19 DEF Good

-----------------------------------------------------------------------------
(* The invariant by its parts *)

GoodNow == Good(map, queue, drain, made, fate, excused, clears)

Others == active \in BOOLEAN /\ ending \in Nat /\ throws \in 0 .. MaxThrows

NoNewRuns == \A i \in Queues : drain'[i].pc = "run" => drain[i].pc = "run"

LEMMA Parts ==
  ASSUME IInv
  PROVE  GoodNow /\ Others
<1>1. TypeOK
  BY DEF IInv
<1>2. /\ queue \in [Queues -> Queue] /\ drain \in [Queues -> Drain]
      /\ fate \in [Msgs -> Fates]
      /\ \A i \in Queues : /\ queue[i].draining <=> drain[i].pc # "off"
                           /\ Len(queue[i].lines) <= queue[i].dropped
  BY <1>1 DEF TypeOK
<1>3. \A i \in Queues : Fit(queue[i], drain[i])
  BY <1>2 DEF Fit
<1>4. \A i \in Queues : Object(queue[i], drain[i], fate)
  BY <1>3 DEF IInv, Object
<1>5. Stored(queue, drain, fate)
  BY <1>2, <1>4 DEF IInv, Apart, Stored
<1>6. Bounds(map, made, excused, clears) /\ Others
  BY <1>1 DEF TypeOK, Bounds, Others
<1>7. Made(map, drain, made)
  BY DEF IInv, MadeInOrder, Made
<1>8. Owner(map, drain, excused, clears)
  BY DEF IInv, KeyOwnsDrain, Owner, Intact
<1>9. AllInStep(queue, drain, excused)
  BY DEF IInv, AllInStep
<1>10. Kept(map, queue, fate, excused)
  BY DEF IInv, KeyHasQueued, Kept
<1> QED
  BY <1>5, <1>6, <1>7, <1>8, <1>9, <1>10 DEF GoodNow, Good

LEMMA Whole ==
  ASSUME GoodNow, Others
  PROVE  IInv
<1>1. /\ Bounds(map, made, excused, clears) /\ Stored(queue, drain, fate)
      /\ Made(map, drain, made) /\ Owner(map, drain, excused, clears)
      /\ AllInStep(queue, drain, excused) /\ Kept(map, queue, fate, excused)
  BY DEF GoodNow, Good
<1>2. \A i \in Queues : Fit(queue[i], drain[i]) /\ Sound(queue[i], drain[i], fate)
  BY <1>1 DEF Stored, Object
<1>3. \A i \in Queues : /\ queue[i].draining <=> drain[i].pc # "off"
                        /\ Len(queue[i].lines) <= queue[i].dropped
  BY <1>2 DEF Fit
<1>4. TypeOK
  BY <1>1, <1>3 DEF TypeOK, Bounds, Stored, Others
<1>5. MadeInOrder
  BY <1>1 DEF Made, MadeInOrder
<1>6. KeyOwnsDrain
  BY <1>1 DEF Owner, Intact, KeyOwnsDrain
<1>7. Apart
  BY <1>1 DEF Stored, Apart
<1>8. ~excused => \A i \in Queues : InStep(queue[i], drain[i])
  BY <1>1 DEF AllInStep
<1>9. KeyHasQueued
  BY <1>1 DEF Kept, KeyHasQueued
<1> QED
  BY <1>2, <1>4, <1>5, <1>6, <1>7, <1>8, <1>9 DEF IInv

LEMMA WholeNext ==
  ASSUME GoodNow', Others'
  PROVE  IInv'
<1>1. /\ Bounds(map, made, excused, clears)' /\ Stored(queue, drain, fate)'
      /\ Made(map, drain, made)' /\ Owner(map, drain, excused, clears)'
      /\ AllInStep(queue, drain, excused)' /\ Kept(map, queue, fate, excused)'
  BY DEF GoodNow, Good
<1>2. \A i \in Queues : Fit(queue'[i], drain'[i]) /\ Sound(queue'[i], drain'[i], fate')
  BY <1>1 DEF Stored, Object
<1>3. \A i \in Queues : /\ queue'[i].draining <=> drain'[i].pc # "off"
                        /\ Len(queue'[i].lines) <= queue'[i].dropped
  BY <1>2 DEF Fit
<1>4. TypeOK'
  BY <1>1, <1>3 DEF TypeOK, Bounds, Stored, Others
<1>5. MadeInOrder'
  BY <1>1 DEF Made, MadeInOrder
<1>6. KeyOwnsDrain'
  BY <1>1 DEF Owner, Intact, KeyOwnsDrain
<1>7. Apart'
  BY <1>1 DEF Stored, Apart
<1>8. ~excused' => \A i \in Queues : InStep(queue'[i], drain'[i])
  BY <1>1 DEF AllInStep
<1>9. KeyHasQueued'
  BY <1>1 DEF Kept, KeyHasQueued
<1> QED
  BY <1>2, <1>4, <1>5, <1>6, <1>7, <1>8, <1>9 DEF IInv

LEMMA InitGood ==
  ASSUME Init
  PROVE  IInv
<1> DEFINE s == CHOOSE s \in Settings : TRUE
           q == Created(s)
<1>1. s \in Settings
  BY SettingsAssumption
<1>2. /\ map = NoQueue /\ made = 0 /\ queue \in [Queues -> {q}]
      /\ drain = [i \in Queues |-> Off] /\ fate = [m \in Msgs |-> "new"]
      /\ active = FALSE /\ ending = 0 /\ excused = FALSE /\ clears = 0 /\ throws = 0
  BY DEF Init
<1> HIDE DEF s
<1>3. q \in Queue
  BY <1>1, CreatedFacts
<1>4. Silent(Off) /\ Off.pc = "off" /\ Off \in Drain
  BY OffIsSilent DEF Silent
<1>5. Object(q, Off, fate) /\ Held(q, Off) = {} /\ InStep(q, Off)
  BY <1>1, <1>4, EmptyIsSound, SilentHolds
<1> HIDE DEF q
<1>6. \A i \in Queues : queue[i] = q /\ drain[i] = Off
  BY <1>2
<1>7. queue \in [Queues -> Queue] /\ drain \in [Queues -> Drain]
  BY <1>2, <1>3, <1>4
<1>8. fate \in [Msgs -> Fates]
  BY <1>2 DEF Fates, Final
<1>9. Stored(queue, drain, fate)
  BY <1>5, <1>6, <1>7, <1>8 DEF Stored
<1>10. Bounds(map, made, excused, clears) /\ Others
  <2>1. made \in 0 .. MaxQueues /\ clears \in 0 .. MaxClears /\ throws \in 0 .. MaxThrows
    BY <1>2, BoundsAssumption
  <2>2. excused \in BOOLEAN /\ active \in BOOLEAN
    BY <1>2
  <2> QED
    BY <1>2, <2>1, <2>2 DEF Bounds, Others
<1>11. Made(map, drain, made)
  BY <1>2, <1>4, <1>6 DEF Made, NoQueue
<1>12. Owner(map, drain, excused, clears) /\ AllInStep(queue, drain, excused)
  BY <1>4, <1>5, <1>6 DEF Owner, AllInStep
<1>13. Kept(map, queue, fate, excused)
  BY <1>2 DEF Kept
<1>14. GoodNow
  BY <1>9, <1>10, <1>11, <1>12, <1>13 DEF GoodNow, Good
<1> QED
  BY <1>10, <1>14, Whole

LEMMA StoreFacts ==
  ASSUME GoodNow
  PROVE  /\ store \in Stores
         /\ store.map = map /\ store.queue = queue /\ store.drain = drain
         /\ Ok(store, made, fate, excused, clears)
<1>1. store.map = map /\ store.queue = queue /\ store.drain = drain
  BY DEF store
<1>2. /\ map \in {NoQueue} \union Queues
      /\ queue \in [Queues -> Queue] /\ drain \in [Queues -> Drain]
  BY DEF GoodNow, Good, Bounds, Stored
<1>3. store \in Stores
  BY <1>2 DEF store, Stores
<1> QED
  BY <1>1, <1>3 DEF GoodNow, Ok

LEMMA BecomeIsGood ==
  ASSUME NEW t, Become(t), Ok(t, made', fate', excused', clears'),
         NEW s, NoNewRun(t, s), s.drain = drain
  PROVE  GoodNow' /\ NoNewRuns
<1>1. map' = t.map /\ queue' = t.queue /\ drain' = t.drain
  BY DEF Become
<1>2. Good(map, queue, drain, made, fate, excused, clears)'
  BY <1>1 DEF Ok
<1> QED
  BY <1>1, <1>2 DEF GoodNow, NoNewRun, NoNewRuns

-----------------------------------------------------------------------------
(* The actions *)

LEMMA ArriveKeeps ==
  ASSUME IInv, NEW m \in Msgs, Arrive(m)
  PROVE  IInv' /\ NoNewRuns
<1>1. GoodNow /\ Others
  BY Parts
<1>2. fate \in [Msgs -> Fates]
  BY <1>1 DEF GoodNow, Good, Stored
<1>3. /\ map' = map /\ made' = made /\ queue' = queue /\ drain' = drain
      /\ ending' = ending /\ excused' = excused /\ clears' = clears /\ throws' = throws
      /\ fate[m] = "new"
      /\ \/ fate' = [fate EXCEPT ![m] = "deciding"] /\ active' = active
         \/ fate' = [fate EXCEPT ![m] = "run"] /\ active' = TRUE
  BY DEF Arrive
<1>4. /\ fate' \in [Msgs -> Fates]
      /\ \A k \in Msgs : fate'[k] # fate[k] => k \in Fresh(fate) /\ fate'[k] # "queued"
  BY <1>2, <1>3 DEF Fates, Final, Fresh
<1>5. Good(map, queue, drain, made, fate', excused, clears)
  BY <1>1, <1>4, FateIsGood DEF GoodNow
<1>6. GoodNow'
  BY <1>3, <1>5 DEF GoodNow
<1>7. Others'
  <2>1. active' \in BOOLEAN
    BY <1>1, <1>3 DEF Others
  <2> QED
    BY <1>1, <1>3, <2>1 DEF Others
<1>8. NoNewRuns
  BY <1>3 DEF NoNewRuns
<1> QED
  BY <1>6, <1>7, <1>8, WholeNext

LEMMA MainRunKeeps ==
  ASSUME IInv, MainRunEnds \/ MainRunThrows \/ UNCHANGED vars
  PROVE  IInv' /\ NoNewRuns
<1>1. GoodNow /\ Others
  BY Parts
<1>2. /\ map' = map /\ made' = made /\ queue' = queue /\ drain' = drain /\ fate' = fate
      /\ excused' = excused /\ clears' = clears
  BY DEF MainRunEnds, MainRunThrows, vars
<1>3. GoodNow'
  BY <1>1, <1>2 DEF GoodNow
<1>4. Others'
  <2>1. CASE MainRunEnds
    <3>1. active' = FALSE
      BY <2>1 DEF MainRunEnds
    <3>2. active' \in BOOLEAN
      BY <3>1
    <3> QED
      BY <1>1, <2>1, <3>2 DEF MainRunEnds, Others
  <2>2. CASE MainRunThrows
    BY <1>1, <2>2, BoundsAssumption DEF MainRunThrows, Others
  <2>3. CASE UNCHANGED vars
    BY <1>1, <2>3 DEF vars, Others
  <2> QED
    BY <2>1, <2>2, <2>3
<1>5. NoNewRuns
  BY <1>2 DEF NoNewRuns
<1> QED
  BY <1>3, <1>4, <1>5, WholeNext

LEMMA FinalizeKeeps ==
  ASSUME IInv, Finalize
  PROVE  IInv' /\ NoNewRuns
<1>1. GoodNow /\ Others
  BY Parts
<1> DEFINE t == ScheduleDrain(store)
<1>2. /\ ending > 0 /\ ending' = ending - 1 /\ Become(t)
      /\ made' = made /\ active' = active /\ fate' = fate
      /\ excused' = excused /\ clears' = clears /\ throws' = throws
  BY DEF Finalize
<1>3. Ok(store, made, fate, excused, clears) /\ store.drain = drain
  BY <1>1, StoreFacts
<1>4. Ok(t, made, fate, excused, clears) /\ NoNewRun(t, store)
  BY <1>3, ScheduleIsGood
<1> HIDE DEF t
<1>5. Ok(t, made', fate', excused', clears')
  BY <1>2, <1>4
<1>6. GoodNow' /\ NoNewRuns
  BY <1>2, <1>3, <1>4, <1>5, BecomeIsGood
<1>7. Others'
  BY <1>1, <1>2 DEF Others
<1> QED
  BY <1>6, <1>7, WholeNext

(* The drain of i ends, in the state as it is.                              *)
LEMMA StopKeeps ==
  ASSUME GoodNow, NEW i \in Queues, drain[i].pc # "off", Become(Finally(store, i)),
         made' = made, fate' = fate, excused' = excused, clears' = clears
  PROVE  GoodNow' /\ NoNewRuns
<1> DEFINE t == Finally(store, i)
<1>1. /\ store \in Stores /\ store.map = map /\ store.queue = queue /\ store.drain = drain
  BY StoreFacts
<1>2. Good(store.map, store.queue, drain, made, fate, excused, clears)
  BY <1>1 DEF GoodNow
<1>3. Ok(t, made, fate, excused, clears) /\ NoNewRun(t, store)
  BY <1>1, <1>2, FinallyIsGood
<1>4. Become(t)
  OBVIOUS
<1> HIDE DEF t
<1>5. Ok(t, made', fate', excused', clears')
  BY <1>3
<1> QED
  BY <1>1, <1>3, <1>4, <1>5, BecomeIsGood

(* The drain of i starts a run, and gives it what d2 says.                  *)
LEMMA RunKeeps ==
  ASSUME GoodNow, NEW i \in Queues, drain[i].pc = "wait",
         NEW d2, GivesFirst(d2, queue[i]) \/ GivesSummary(d2, queue[i])
                   \/ GivesAll(d2, queue[i]),
         Become([store EXCEPT !.drain[i] = d2]),
         made' = made, fate' = fate, clears' = clears,
         excused' \in BOOLEAN, excused => excused',
         GivesSummary(d2, queue[i]) => excused'
  PROVE  /\ GoodNow'
         /\ \A j \in Queues : drain[j].pc = "wait" /\ drain'[j].pc = "run" =>
              \A m \in ToSet(drain'[j].told) : fate[m] = "queued"
<1>1. /\ Bounds(map, made, excused, clears) /\ Stored(queue, drain, fate)
      /\ Made(map, drain, made) /\ Owner(map, drain, excused, clears)
      /\ AllInStep(queue, drain, excused) /\ Kept(map, queue, fate, excused)
  BY DEF GoodNow, Good
<1>2. /\ Object(queue[i], drain[i], fate) /\ fate \in [Msgs -> Fates]
      /\ queue \in [Queues -> Queue] /\ drain \in [Queues -> Drain]
  BY <1>1 DEF Stored
<1>3. map' = map /\ queue' = queue /\ Put(drain', drain, i, d2)
  BY <1>2 DEF Become, store, Put
<1> DEFINE q == queue[i]
<1>4. Put(queue', queue, i, q)
  BY <1>2, <1>3 DEF Put
<1>5. /\ Object(q, d2, fate) /\ Held(q, d2) \subseteq Held(q, drain[i])
      /\ ToSet(d2.told) \subseteq ToSet(q.items)
      /\ ~GivesSummary(d2, q) => InStep(q, d2)
  BY <1>2, StartIsSound
<1>6. Within(q, d2, queue[i], drain[i], fate) /\ Elsewhere(fate, fate, queue[i], drain[i])
  BY <1>2, <1>5 DEF Within, Elsewhere
<1>7. InStepOr(excused', q, d2)
  BY <1>5 DEF InStepOr
<1>8. q = queue[i]
  OBVIOUS
<1> HIDE DEF q
<1>9. Stored(queue', drain', fate)
  BY <1>1, <1>3, <1>4, <1>5, <1>6, ReplaceObject
<1>10. AllInStep(queue', drain', excused')
  BY <1>1, <1>3, <1>4, <1>7, ReplaceInStep
<1>11. drain'[i] = d2 /\ \A j \in Queues : j # i => drain'[j] = drain[j]
  BY <1>2, <1>3, PutFacts
<1>12. Owner(map, drain', excused', clears)
  BY <1>1, <1>11 DEF Owner, Intact
<1>13. Made(map, drain', made)
  BY <1>1, <1>11 DEF Made
<1>14. Kept(map, queue, fate, excused')
  BY <1>1 DEF Kept
<1>15. Bounds(map, made, excused', clears)
  BY <1>1 DEF Bounds
<1>16. Good(map, queue, drain, made, fate, excused, clears)'
  BY <1>3, <1>9, <1>10, <1>12, <1>13, <1>14, <1>15 DEF Good
<1>17. ASSUME NEW j \in Queues, drain[j].pc = "wait", drain'[j].pc = "run",
              NEW m \in ToSet(drain'[j].told)
       PROVE  fate[m] = "queued"
  <2>1. j = i
    BY <1>11, <1>17
  <2>2. m \in ToSet(q.items)
    BY <1>5, <1>11, <1>17, <2>1
  <2> QED
    BY <1>2, <1>8, <2>2 DEF Object, Sound
<1> QED
  BY <1>16, <1>17 DEF GoodNow

LEMMA OffDrain ==
  /\ Off \in Drain /\ Off.pc = "off" /\ Off.told = <<>> /\ Off.lines = <<>>
  /\ Off.n = 0 /\ Off.summary = FALSE
<1>1. <<>> \in Seq(Msgs)
  OBVIOUS
<1> QED
  BY <1>1 DEF Off, Drain

(* The fields a drain sets, one after the other.                            *)
Forced(force)               == [Off EXCEPT !.force = force]
Running(b)                  == [b EXCEPT !.pc = "run"]
WithTold(b, told)           == [b EXCEPT !.told = told]
WithCount(b, n)             == [b EXCEPT !.n = n]
WithSummary(b, sum, lines)  == [b EXCEPT !.summary = sum, !.lines = lines]

LEMMA ForcedDrain ==
  ASSUME NEW force \in BOOLEAN
  PROVE  /\ Forced(force) \in Drain /\ Forced(force).told = <<>>
         /\ Forced(force).lines = <<>> /\ Forced(force).summary = FALSE
<1>1. /\ Off \in Drain /\ Off.told = <<>> /\ Off.lines = <<>> /\ Off.summary = FALSE
  BY OffDrain
<1> QED
  BY <1>1 DEF Drain, Forced

LEMMA RunningDrain ==
  ASSUME NEW b \in Drain
  PROVE  /\ Running(b) \in Drain /\ Running(b).pc = "run" /\ Running(b).told = b.told
         /\ Running(b).lines = b.lines /\ Running(b).n = b.n
         /\ Running(b).summary = b.summary
  BY DEF Drain, Running

LEMMA ToldDrain ==
  ASSUME NEW b \in Drain, NEW told \in Seq(Msgs)
  PROVE  /\ WithTold(b, told) \in Drain /\ WithTold(b, told).told = told
         /\ WithTold(b, told).lines = b.lines /\ WithTold(b, told).n = b.n
         /\ WithTold(b, told).summary = b.summary
  BY DEF Drain, WithTold

LEMMA CountedDrain ==
  ASSUME NEW b \in Drain, NEW n \in Nat
  PROVE  /\ WithCount(b, n) \in Drain /\ WithCount(b, n).told = b.told
         /\ WithCount(b, n).lines = b.lines /\ WithCount(b, n).n = n
         /\ WithCount(b, n).summary = b.summary
  BY DEF Drain, WithCount

LEMMA SummaryDrain ==
  ASSUME NEW b \in Drain, NEW sum \in BOOLEAN, NEW lines \in Seq(Msgs)
  PROVE  /\ WithSummary(b, sum, lines) \in Drain
         /\ WithSummary(b, sum, lines).told = b.told
         /\ WithSummary(b, sum, lines).lines = lines
         /\ WithSummary(b, sum, lines).n = b.n
         /\ WithSummary(b, sum, lines).summary = sum
  BY DEF Drain, WithSummary

QueuedIsRun ==
  \A j \in Queues : drain[j].pc = "wait" /\ drain'[j].pc = "run" =>
     \A m \in ToSet(drain'[j].told) : fate[m] = "queued"

LEMMA NoNewRunsIsQueuedIsRun ==
  ASSUME NoNewRuns
  PROVE  QueuedIsRun
  BY DEF NoNewRuns, QueuedIsRun

LEMMA DrainCollectKeeps ==
  ASSUME IInv, NEW i \in Queues, DrainCollect(i)
  PROVE  IInv' /\ QueuedIsRun
<1>1. GoodNow /\ Others
  BY Parts
<1> DEFINE q     == queue[i]
           cross == IsCrossChannel(q.items)
           force == drain[i].force \/ cross
           base  == [Off EXCEPT !.force = force]
           lines == IF Summarizes(q) THEN q.lines ELSE <<>>
           one   == [base EXCEPT !.told = <<Head(q.items)>>, !.n = 1]
           all   == [base EXCEPT !.told = q.items, !.n = Len(q.items),
                                 !.summary = Summarizes(q), !.lines = lines]
<1>2. /\ drain[i].pc = "wait"
      /\ made' = made /\ active' = active /\ ending' = ending /\ fate' = fate
      /\ excused' = excused /\ clears' = clears /\ throws' = throws
  BY DEF DrainCollect
<1>3. \/ Become(Finally(store, i))
      \/ force /\ q.items # <<>> /\ Start(store, i, one)
      \/ ~force /\ Start(store, i, all)
  BY DEF DrainCollect
<1>4. Object(q, drain[i], fate)
  BY <1>1 DEF GoodNow, Good, Stored
<1>5. /\ q.items \in Seq(Msgs) /\ q.lines \in Seq(Msgs) /\ drain[i].force \in BOOLEAN
  <2>1. q.items \in Seq(Msgs) /\ q.lines \in Seq(Msgs)
    BY <1>4, Fields DEF Object
  <2>2. drain[i].force \in BOOLEAN
    BY <1>4 DEF Object, Fit, Drain
  <2> QED
    BY <2>1, <2>2
<1>6. excused \in BOOLEAN
  BY <1>1 DEF GoodNow, Good, Bounds
<1>7. excused' \in BOOLEAN /\ (excused => excused')
  BY <1>2, <1>6
<1>8. force \in BOOLEAN
  BY <1>5 DEF IsCrossChannel
<1>9. <<>> \in Seq(Msgs)
  OBVIOUS
<1>10. Others'
  BY <1>1, <1>2 DEF Others
<1>11. CASE Become(Finally(store, i))
  <2>1. GoodNow' /\ NoNewRuns
    BY <1>1, <1>2, <1>11, StopKeeps
  <2> QED
    BY <1>10, <2>1, NoNewRunsIsQueuedIsRun, WholeNext
<1>12. CASE q.items # <<>> /\ Start(store, i, one)
  <2> DEFINE d2  == [one EXCEPT !.pc = "run"]
             two == [base EXCEPT !.told = <<Head(q.items)>>]
  <2>1. Become([store EXCEPT !.drain[i] = d2])
    BY <1>12 DEF Start
  <2>2. /\ d2 = Running(one) /\ one = WithCount(two, 1)
        /\ two = WithTold(base, <<Head(q.items)>>) /\ base = Forced(force)
    BY DEF Running, WithCount, WithTold, Forced
  <2> HIDE DEF d2, one, two, base, force
  <2>3. Head(q.items) \in Msgs
    BY <1>5, <1>12
  <2>4. <<Head(q.items)>> \in Seq(Msgs)
    BY <2>3
  <2>5. /\ d2 \in Drain /\ d2.pc = "run" /\ d2.told = <<Head(q.items)>>
        /\ d2.lines = <<>> /\ d2.n = 1 /\ d2.summary = FALSE
    <3>1. base \in Drain /\ base.told = <<>> /\ base.lines = <<>> /\ base.summary = FALSE
      BY <1>8, <2>2, ForcedDrain
    <3>2. /\ two \in Drain /\ two.told = <<Head(q.items)>> /\ two.lines = <<>>
          /\ two.summary = FALSE
      BY <2>2, <2>4, <3>1, ToldDrain
    <3>3. /\ one \in Drain /\ one.told = <<Head(q.items)>> /\ one.lines = <<>>
          /\ one.summary = FALSE /\ one.n = 1
      BY <2>2, <3>2, CountedDrain
    <3> QED
      BY <2>2, <3>3, RunningDrain
  <2>6. GivesFirst(d2, q) /\ ~GivesSummary(d2, q)
    BY <1>12, <2>5 DEF GivesFirst, GivesSummary
  <2>7. GoodNow' /\ QueuedIsRun
    BY <1>1, <1>2, <1>7, <2>1, <2>6, RunKeeps DEF QueuedIsRun
  <2> QED
    BY <1>10, <2>7, WholeNext
<1>13. CASE ~force /\ Start(store, i, all)
  <2> DEFINE d2   == [all EXCEPT !.pc = "run"]
             two  == [base EXCEPT !.told = q.items]
             more == [two EXCEPT !.n = Len(q.items)]
  <2>1. Become([store EXCEPT !.drain[i] = d2])
    BY <1>13 DEF Start
  <2>2. /\ d2 = Running(all) /\ all = WithSummary(more, Summarizes(q), lines)
        /\ more = WithCount(two, Len(q.items)) /\ two = WithTold(base, q.items)
        /\ base = Forced(force)
    BY DEF Running, WithCount, WithTold, WithSummary, Forced
  <2> HIDE DEF d2, all, more, two, base
  <2>3. /\ Len(q.items) \in Nat /\ Summarizes(q) \in BOOLEAN /\ lines \in Seq(Msgs)
    BY <1>5, <1>9, LenProperties DEF Summarizes
  <2>4. /\ lines \in {<<>>, q.lines} /\ (Summarizes(q) => lines = q.lines)
    OBVIOUS
  <2>5. ~cross
    BY <1>13
  <2>6. /\ d2 \in Drain /\ d2.pc = "run" /\ d2.told = q.items
        /\ d2.lines = lines /\ d2.n = Len(q.items) /\ d2.summary = Summarizes(q)
    <3> HIDE DEF force, lines
    <3>1. base \in Drain
      BY <1>8, <2>2, ForcedDrain
    <3>2. two \in Drain /\ two.told = q.items
      BY <1>5, <2>2, <3>1, ToldDrain
    <3>3. more \in Drain /\ more.told = q.items /\ more.n = Len(q.items)
      BY <2>2, <2>3, <3>2, CountedDrain
    <3>4. /\ all \in Drain /\ all.told = q.items /\ all.n = Len(q.items)
          /\ all.lines = lines /\ all.summary = Summarizes(q)
      BY <2>2, <2>3, <3>3, SummaryDrain
    <3> QED
      BY <2>2, <3>4, RunningDrain
  <2>7. GivesAll(d2, q)
    BY <2>4, <2>5, <2>6 DEF GivesAll
  <2>8. GivesSummary(d2, q) => excused'
    <3> SUFFICES ASSUME GivesSummary(d2, q) PROVE FALSE
      OBVIOUS
    <3>1. d2.told = <<>> /\ q.items # <<>>
      BY DEF GivesSummary
    <3> QED
      BY <2>6, <3>1
  <2>9. GoodNow' /\ QueuedIsRun
    BY <1>1, <1>2, <1>7, <2>1, <2>7, <2>8, RunKeeps DEF QueuedIsRun
  <2> QED
    BY <1>10, <2>9, WholeNext
<1> QED
  BY <1>3, <1>11, <1>12, <1>13

LEMMA DrainNextKeeps ==
  ASSUME IInv, NEW i \in Queues, DrainNext(i)
  PROVE  IInv' /\ QueuedIsRun
<1>1. GoodNow /\ Others
  BY Parts
<1> DEFINE q    == queue[i]
           force == drain[i].force
           base == [Off EXCEPT !.force = force, !.n = 1]
           sum  == [base EXCEPT !.summary = TRUE, !.lines = q.lines]
           one  == [base EXCEPT !.told = <<Head(q.items)>>]
<1>2. /\ drain[i].pc = "wait"
      /\ made' = made /\ active' = active /\ ending' = ending /\ fate' = fate
      /\ clears' = clears /\ throws' = throws
      /\ excused' = (excused \/ (q.items # <<>> /\ Summarizes(q)))
  BY DEF DrainNext
<1>3. \/ q.items = <<>> /\ Become(Finally(store, i))
      \/ q.items # <<>> /\ Summarizes(q) /\ Start(store, i, sum)
      \/ q.items # <<>> /\ Start(store, i, one)
  BY DEF DrainNext
<1>4. Object(q, drain[i], fate)
  BY <1>1 DEF GoodNow, Good, Stored
<1>5. q.items \in Seq(Msgs) /\ q.lines \in Seq(Msgs)
  BY <1>4, Fields DEF Object
<1>6. force \in BOOLEAN
  BY <1>4 DEF Object, Fit, Drain
<1>7. excused \in BOOLEAN
  BY <1>1 DEF GoodNow, Good, Bounds
<1>8. excused' \in BOOLEAN /\ (excused => excused')
  BY <1>2, <1>7
<1>9. <<>> \in Seq(Msgs)
  OBVIOUS
<1>10. Others'
  BY <1>1, <1>2 DEF Others
<1>11. CASE q.items = <<>> /\ Become(Finally(store, i))
  <2>1. excused' = excused
    BY <1>2, <1>7, <1>11
  <2>2. GoodNow' /\ NoNewRuns
    BY <1>1, <1>2, <1>11, <2>1, StopKeeps
  <2> QED
    BY <1>10, <2>2, NoNewRunsIsQueuedIsRun, WholeNext
<1>12. CASE q.items # <<>> /\ Start(store, i, one)
  <2> DEFINE d2  == [one EXCEPT !.pc = "run"]
             off == [Off EXCEPT !.force = force]
  <2>1. Become([store EXCEPT !.drain[i] = d2])
    BY <1>12 DEF Start
  <2>2. /\ d2 = Running(one) /\ one = WithTold(base, <<Head(q.items)>>)
        /\ base = WithCount(off, 1) /\ off = Forced(force)
    BY DEF Running, WithCount, WithTold, Forced
  <2> HIDE DEF d2, one, base, off, force
  <2>3. Head(q.items) \in Msgs
    BY <1>5, <1>12
  <2>4. <<Head(q.items)>> \in Seq(Msgs)
    BY <2>3
  <2>5. /\ d2 \in Drain /\ d2.pc = "run" /\ d2.told = <<Head(q.items)>>
        /\ d2.lines = <<>> /\ d2.n = 1 /\ d2.summary = FALSE
    <3>1. off \in Drain /\ off.told = <<>> /\ off.lines = <<>> /\ off.summary = FALSE
      BY <1>6, <2>2, ForcedDrain
    <3>2. /\ base \in Drain /\ base.told = <<>> /\ base.lines = <<>>
          /\ base.summary = FALSE /\ base.n = 1
      BY <2>2, <3>1, CountedDrain
    <3>3. /\ one \in Drain /\ one.told = <<Head(q.items)>> /\ one.lines = <<>>
          /\ one.summary = FALSE /\ one.n = 1
      BY <2>2, <2>4, <3>2, ToldDrain
    <3> QED
      BY <2>2, <3>3, RunningDrain
  <2>6. GivesFirst(d2, q) /\ ~GivesSummary(d2, q)
    BY <1>12, <2>5 DEF GivesFirst, GivesSummary
  <2>7. GoodNow' /\ QueuedIsRun
    BY <1>1, <1>2, <1>8, <2>1, <2>6, RunKeeps DEF QueuedIsRun
  <2> QED
    BY <1>10, <2>7, WholeNext
<1>13. CASE q.items # <<>> /\ Summarizes(q) /\ Start(store, i, sum)
  <2> DEFINE d2  == [sum EXCEPT !.pc = "run"]
             off == [Off EXCEPT !.force = force]
  <2>1. Become([store EXCEPT !.drain[i] = d2])
    BY <1>13 DEF Start
  <2>2. /\ d2 = Running(sum) /\ sum = WithSummary(base, TRUE, q.lines)
        /\ base = WithCount(off, 1) /\ off = Forced(force)
    BY DEF Running, WithCount, WithSummary, Forced
  <2> HIDE DEF d2, sum, base, off, force
  <2>3. /\ d2 \in Drain /\ d2.pc = "run" /\ d2.told = <<>>
        /\ d2.lines = q.lines /\ d2.n = 1
    <3>1. off \in Drain /\ off.told = <<>> /\ off.lines = <<>> /\ off.summary = FALSE
      BY <1>6, <2>2, ForcedDrain
    <3>2. /\ base \in Drain /\ base.told = <<>> /\ base.lines = <<>>
          /\ base.summary = FALSE /\ base.n = 1
      BY <2>2, <3>1, CountedDrain
    <3>3. /\ sum \in Drain /\ sum.told = <<>> /\ sum.lines = q.lines /\ sum.n = 1
      BY <1>5, <2>2, <3>2, SummaryDrain
    <3> QED
      BY <2>2, <3>3, RunningDrain
  <2>4. GivesSummary(d2, q)
    BY <1>13, <2>3 DEF GivesSummary
  <2>5. excused'
    BY <1>2, <1>13
  <2>6. GoodNow' /\ QueuedIsRun
    BY <1>1, <1>2, <1>8, <2>1, <2>4, <2>5, RunKeeps DEF QueuedIsRun
  <2> QED
    BY <1>10, <2>6, WholeNext
<1> QED
  BY <1>3, <1>11, <1>12, <1>13

LEMMA FollowupThrowsKeeps ==
  ASSUME IInv, NEW i \in Queues, FollowupThrows(i)
  PROVE  IInv' /\ NoNewRuns
<1>1. GoodNow /\ Others
  BY Parts
<1>2. /\ drain[i].pc = "run" /\ throws < MaxThrows /\ throws' = throws + 1
      /\ Become(Finally(store, i))
      /\ made' = made /\ active' = active /\ ending' = ending /\ fate' = fate
      /\ excused' = excused /\ clears' = clears
  BY DEF FollowupThrows
<1>3. GoodNow' /\ NoNewRuns
  BY <1>1, <1>2, StopKeeps
<1>4. Others'
  BY <1>1, <1>2, BoundsAssumption DEF Others
<1> QED
  BY <1>3, <1>4, WholeNext

(* What the end of a run leaves of the queue.                               *)
Left(q, d) ==
  LET rest == [q EXCEPT !.items = SubSeq(q.items, d.n + 1, Len(q.items))]
  IN  IF d.summary THEN [rest EXCEPT !.dropped = 0, !.lines = <<>>] ELSE rest

LEMMA LeftIsRest ==
  ASSUME NEW q, NEW d, Fit(q, d)
  PROVE  Rest(Left(q, d), q, d)
<1>1. q.items \in Seq(Msgs) /\ d.n \in Nat /\ q \in Queue
  BY Fields DEF Fit
<1> DEFINE items == SubSeq(q.items, d.n + 1, Len(q.items))
           rest  == [q EXCEPT !.items = items]
           none  == [rest EXCEPT !.dropped = 0, !.lines = <<>>]
<1>2. Left(q, d) = IF d.summary THEN none ELSE rest
  BY DEF Left
<1>3. items \in Seq(Msgs)
  BY <1>1, RestFacts
<1> HIDE DEF items
<1>4. /\ rest \in Queue /\ rest.items = items /\ rest.lines = q.lines
      /\ rest.dropped = q.dropped /\ rest.draining = q.draining
  BY <1>1, <1>3 DEF Queue
<1> HIDE DEF rest
<1>5. <<>> \in Seq(Msgs)
  OBVIOUS
<1>6. /\ none \in Queue /\ none.items = items /\ none.lines = <<>>
      /\ none.dropped = 0 /\ none.draining = q.draining
  BY <1>4, <1>5 DEF Queue
<1> HIDE DEF none
<1>7. items = SubSeq(q.items, d.n + 1, Len(q.items))
  BY DEF items
<1>8. CASE d.summary
  BY <1>2, <1>6, <1>7, <1>8 DEF Rest
<1>9. CASE ~d.summary
  BY <1>2, <1>4, <1>7, <1>9 DEF Rest
<1> QED
  BY <1>8, <1>9

LEMMA FollowupEndsKeeps ==
  ASSUME IInv, NEW i \in Queues, NEW outcome \in {"run", "failed"},
         FollowupEnds(i, outcome)
  PROVE  IInv' /\ NoNewRuns
<1>1. GoodNow /\ Others
  BY Parts
<1> DEFINE q == queue[i]
           d == drain[i]
           after == Left(q, d)
           s  == [store EXCEPT !.queue[i] = after]
           d2 == [Off EXCEPT !.pc = "wait", !.force = d.force]
           dr == [drain EXCEPT ![i] = d2]
           t  == LoopHead(s, i)
<1>2. /\ d.pc = "run"
      /\ fate' = [m \in Msgs |->
                    IF m \in ToSet(d.told) THEN outcome
                    ELSE IF m \in ToSet(d.lines) THEN "listed" ELSE fate[m]]
      /\ made' = made /\ active' = active /\ ending' = ending
      /\ excused' = excused /\ clears' = clears /\ throws' = throws
  BY DEF FollowupEnds
<1>3. Become(t)
  BY DEF FollowupEnds, Left
<1>4. /\ Bounds(map, made, excused, clears) /\ Stored(queue, drain, fate)
      /\ Made(map, drain, made) /\ Owner(map, drain, excused, clears)
      /\ AllInStep(queue, drain, excused) /\ Kept(map, queue, fate, excused)
  BY <1>1 DEF GoodNow, Good
<1>5. /\ Object(q, d, fate) /\ fate \in [Msgs -> Fates]
      /\ queue \in [Queues -> Queue] /\ drain \in [Queues -> Drain]
      /\ d.force \in BOOLEAN
  BY <1>4 DEF Stored, Drain
<1>6. Rest(after, q, d)
  BY <1>5, LeftIsRest DEF Object
<1>7. Silent(d2) /\ d2.pc = "wait"
  BY <1>5, OffIsSilent
<1>8. FatesAfterRun(fate', fate, d, outcome)
  <2>1. \A m \in Msgs : fate'[m] \in Fates
    BY <1>2, <1>5 DEF Fates, Final
  <2>2. fate' \in [Msgs -> Fates]
    BY <1>2, <2>1
  <2> QED
    BY <1>2, <2>2 DEF FatesAfterRun
<1>9. /\ store \in Stores /\ store.map = map /\ store.queue = queue /\ store.drain = drain
  BY <1>1, StoreFacts
<1>10. after \in Queue
  BY <1>6 DEF Rest
<1> HIDE DEF after
<1>11. /\ s \in Stores /\ s.map = map /\ s.drain = drain
       /\ Put(s.queue, queue, i, after)
  <2>1. /\ s.map = store.map /\ s.drain = store.drain
        /\ s.queue = [store.queue EXCEPT ![i] = after]
        /\ s = [map |-> s.map, queue |-> s.queue, drain |-> s.drain]
    BY <1>9 DEF Stores
  <2>2. s.queue \in [Queues -> Queue]
    BY <1>5, <1>9, <1>10, <2>1
  <2>3. s \in Stores
    BY <1>9, <2>1, <2>2 DEF Stores
  <2> QED
    BY <1>9, <2>1, <2>3 DEF Put
<1>12. Put(dr, drain, i, d2) /\ Put(dr, s.drain, i, [Off EXCEPT !.pc = "wait",
                                                         !.force = s.drain[i].force])
  BY <1>11 DEF Put
<1> HIDE DEF s, d2, dr
<1>13. /\ Object(after, d2, fate') /\ Held(after, d2) \subseteq Held(q, d)
       /\ \A m \in Msgs : fate'[m] # fate[m] => m \in Held(q, d)
       /\ InStep(q, d) => \A m \in ToSet(q.items) \union ToSet(q.lines) :
            fate'[m] = "queued" => m \in ToSet(after.items) \union ToSet(after.lines)
  <2> HIDE DEF q, d
  <2> QED
    BY <1>2, <1>5, <1>6, <1>7, <1>8, RunEndIsSound
<1>14. Within(after, d2, queue[i], drain[i], fate) /\ Elsewhere(fate', fate, queue[i], drain[i])
  BY <1>8, <1>13 DEF Within, Elsewhere, FatesAfterRun
<1>15. Stored(s.queue, dr, fate')
  BY <1>4, <1>11, <1>12, <1>13, <1>14, ReplaceObject
<1>16. InStepOr(excused, after, d2)
  BY <1>7, SilentHolds DEF InStepOr
<1>17. AllInStep(s.queue, dr, excused)
  BY <1>4, <1>11, <1>12, <1>16, ReplaceInStep
<1>18. dr[i] = d2 /\ \A j \in Queues : j # i => dr[j] = drain[j]
  BY <1>5, <1>12, PutFacts
<1>19. Made(map, dr, made) /\ Owner(map, dr, excused, clears)
  <2>1. Made(map, dr, made)
    BY <1>2, <1>4, <1>7, <1>18 DEF Made
  <2>2. Owner(map, dr, excused, clears)
    BY <1>2, <1>4, <1>7, <1>18 DEF Owner
  <2> QED
    BY <2>1, <2>2
<1>20. Kept(map, s.queue, fate', excused)
  <2> SUFFICES ASSUME ~excused, NEW m \in Msgs, fate'[m] = "queued"
               PROVE  /\ map # NoQueue
                      /\ m \in ToSet(s.queue[map].items) \union ToSet(s.queue[map].lines)
    BY DEF Kept
  <2>1. i = map
    BY <1>2, <1>4 DEF Owner, Intact
  <2>2. fate[m] = "queued"
    BY <1>8 DEF FatesAfterRun
  <2>3. m \in ToSet(q.items) \union ToSet(q.lines) /\ map # NoQueue
    BY <1>4, <2>1, <2>2 DEF Kept
  <2>4. InStep(q, d)
    BY <1>4 DEF AllInStep
  <2>5. m \in ToSet(after.items) \union ToSet(after.lines)
    BY <1>13, <2>3, <2>4
  <2>6. s.queue[i] = after
    BY <1>5, <1>11, PutFacts
  <2> QED
    BY <2>1, <2>3, <2>5, <2>6
<1>21. Good(s.map, s.queue, dr, made, fate', excused, clears)
  BY <1>4, <1>11, <1>15, <1>17, <1>19, <1>20 DEF Good
<1>22. Ok(t, made, fate', excused, clears) /\ NoNewRun(t, s)
  BY <1>11, <1>12, <1>21, LoopHeadIsGood
<1> HIDE DEF t
<1>23. Ok(t, made', fate', excused', clears')
  BY <1>2, <1>22
<1>24. GoodNow' /\ NoNewRuns
  BY <1>3, <1>11, <1>22, <1>23, BecomeIsGood
<1>25. Others'
  BY <1>1, <1>2 DEF Others
<1> QED
  BY <1>24, <1>25, WholeNext

LEMMA ClearKeeps ==
  ASSUME IInv, Clear
  PROVE  IInv' /\ NoNewRuns
<1>1. GoodNow /\ Others
  BY Parts
<1> DEFINE q  == queue[map]
           d  == drain[map]
           q2 == [q EXCEPT !.items = <<>>, !.dropped = 0, !.lines = <<>>, !.lastRun = FALSE]
<1>2. /\ map # NoQueue /\ clears < MaxClears /\ clears' = clears + 1 /\ map' = NoQueue
      /\ queue' = [queue EXCEPT ![map] = q2]
      /\ fate' = [m \in Msgs |->
                    IF m \in ToSet(q.items) \union ToSet(q.lines)
                    THEN "discarded" ELSE fate[m]]
      /\ excused' = (excused \/ q.draining)
      /\ made' = made /\ drain' = drain /\ active' = active /\ ending' = ending
      /\ throws' = throws
  BY DEF Clear
<1>3. /\ Bounds(map, made, excused, clears) /\ Stored(queue, drain, fate)
      /\ Made(map, drain, made) /\ Owner(map, drain, excused, clears)
      /\ AllInStep(queue, drain, excused) /\ Kept(map, queue, fate, excused)
  BY <1>1 DEF GoodNow, Good
<1>4. map \in Queues
  BY <1>2, <1>3 DEF Bounds
<1>5. /\ Object(q, d, fate) /\ fate \in [Msgs -> Fates]
      /\ queue \in [Queues -> Queue] /\ drain \in [Queues -> Drain]
  BY <1>3, <1>4 DEF Stored
<1>6. Emptied(q2, q)
  <2>1. q \in Queue /\ <<>> \in Seq(Msgs)
    BY <1>5 DEF Object, Fit
  <2>2. q2 \in Queue
    BY <2>1 DEF Queue
  <2>3. q2.items = <<>> /\ q2.lines = <<>> /\ q2.dropped = 0 /\ q2.draining = q.draining
    BY <2>1 DEF Queue
  <2> QED
    BY <2>2, <2>3 DEF Emptied
<1>7. Put(queue', queue, map, q2) /\ Put(drain', drain, map, d)
  BY <1>2, <1>5 DEF Put
<1> HIDE DEF q2
<1>8. fate' \in [Msgs -> Fates]
  BY <1>2, <1>5 DEF Fates, Final
<1>9. /\ \A m \in Msgs : fate'[m] # fate[m] => m \in Held(q, d)
      /\ \A m \in Held(q, d) : fate'[m] = fate[m] \/ fate'[m] = "discarded"
  <2>1. Held(q, d) \subseteq Msgs
    BY <1>5, HeldAreMsgs DEF Object
  <2> QED
    BY <1>2, <2>1 DEF Held
<1>10. Object(q2, d, fate') /\ Held(q2, d) \subseteq Held(q, d)
  <2> HIDE DEF q, d
  <2> QED
    BY <1>5, <1>6, <1>9, ClearIsSound
<1>11. Within(q2, d, queue[map], drain[map], fate) /\ Elsewhere(fate', fate, queue[map], drain[map])
  BY <1>8, <1>9, <1>10 DEF Within, Elsewhere
<1>12. Object(q, d, fate) /\ (q.draining <=> d.pc # "off")
  BY <1>5 DEF Object, Fit
<1>13. excused \in BOOLEAN /\ q.draining \in BOOLEAN
  BY <1>3, <1>5, Fields DEF Bounds, Object
<1>14. excused' \in BOOLEAN /\ (excused => excused') /\ (~excused' => d.pc = "off")
  BY <1>2, <1>12, <1>13
<1>15. Stored(queue', drain', fate')
  BY <1>3, <1>4, <1>7, <1>10, <1>11, ReplaceObject
<1>16. InStepOr(excused', q2, d)
  BY <1>14 DEF InStepOr, InStep
<1>17. AllInStep(queue', drain', excused')
  BY <1>3, <1>4, <1>7, <1>14, <1>16, ReplaceInStep
<1>18. clears' \in 0 .. MaxClears /\ clears' # 0
  BY <1>2, <1>3, BoundsAssumption DEF Bounds
<1>19. Owner(NoQueue, drain', excused', clears')
  <2> SUFFICES ASSUME ~excused', NEW j \in Queues, drain[j].pc # "off"
               PROVE  FALSE
    BY <1>2, <1>18 DEF Owner, Intact
  <2>1. j = map
    BY <1>3, <1>14 DEF Owner, Intact
  <2> QED
    BY <1>14, <2>1
<1>20. Made(NoQueue, drain', made)
  <2>1. NoQueue <= made
    BY <1>3 DEF Bounds, NoQueue
  <2> QED
    BY <1>2, <1>3, <2>1 DEF Made
<1>21. Kept(NoQueue, queue', fate', excused')
  <2> SUFFICES ASSUME ~excused', NEW m \in Msgs, fate'[m] = "queued"
               PROVE  FALSE
    BY DEF Kept
  <2>1. fate[m] = "queued" /\ m \notin ToSet(q.items) \union ToSet(q.lines)
    BY <1>2
  <2> QED
    BY <1>3, <1>14, <2>1 DEF Kept
<1>22. Bounds(NoQueue, made, excused', clears')
  BY <1>3, <1>14, <1>18 DEF Bounds
<1>23. Good(map, queue, drain, made, fate, excused, clears)'
  BY <1>2, <1>15, <1>17, <1>19, <1>20, <1>21, <1>22 DEF Good
<1>24. GoodNow' /\ NoNewRuns
  BY <1>2, <1>23 DEF GoodNow, NoNewRuns
<1>25. Others'
  BY <1>1, <1>2 DEF Others
<1> QED
  BY <1>24, <1>25, WholeNext

WithSettings(q, s) == [q EXCEPT !.mode = s.mode, !.cap = s.cap, !.drop = s.drop]

LEMMA WithSettingsFacts ==
  ASSUME NEW q \in Queue, NEW s \in Settings
  PROVE  /\ SameEntries(WithSettings(q, s), q)
         /\ WithSettings(q, s).draining = q.draining
         /\ WithSettings(q, s).cap = s.cap
<1>1. s.mode \in Modes /\ s.cap \in Nat \ {0} /\ s.drop \in Drops
  BY CreatedFacts
<1> DEFINE v == [q EXCEPT !.mode = s.mode, !.cap = s.cap, !.drop = s.drop]
<1>2. v \in Queue
  BY <1>1 DEF Queue
<1>3. /\ v.items = q.items /\ v.lines = q.lines /\ v.dropped = q.dropped
      /\ v.draining = q.draining /\ v.cap = s.cap
  BY <1>1 DEF Queue
<1> HIDE DEF v
<1>4. WithSettings(q, s) = v
  BY DEF WithSettings, v
<1> QED
  BY <1>2, <1>3, <1>4 DEF SameEntries

Used(q)      == [q EXCEPT !.lastRun = TRUE]
Pushed(q, m) == [q EXCEPT !.items = Append(q.items, m), !.lastRun = TRUE]

LEMMA UsedFacts ==
  ASSUME NEW q \in Queue
  PROVE  SameEntries(Used(q), q) /\ Used(q).draining = q.draining
<1> DEFINE v == [q EXCEPT !.lastRun = TRUE]
<1>1. v \in Queue
  BY DEF Queue
<1>2. /\ v.items = q.items /\ v.lines = q.lines /\ v.dropped = q.dropped
      /\ v.draining = q.draining
  BY DEF Queue
<1> HIDE DEF v
<1>3. Used(q) = v
  BY DEF Used, v
<1> QED
  BY <1>1, <1>2, <1>3 DEF SameEntries

LEMMA PushedFacts ==
  ASSUME NEW q \in Queue, NEW m \in Msgs
  PROVE  Queued(Pushed(q, m), q, m)
<1> DEFINE u == Append(q.items, m)
           v == [q EXCEPT !.items = u, !.lastRun = TRUE]
<1>1. u \in Seq(Msgs)
  BY DEF Queue
<1> HIDE DEF u
<1>2. v \in Queue
  BY <1>1 DEF Queue
<1>3. /\ v.items = u /\ v.lines = q.lines /\ v.dropped = q.dropped
      /\ v.draining = q.draining
  BY DEF Queue
<1> HIDE DEF v
<1>4. Pushed(q, m) = v /\ u = Append(q.items, m)
  BY DEF Pushed, v, u
<1> QED
  BY <1>2, <1>3, <1>4 DEF Queued

LEMMA EnqueueKeeps ==
  ASSUME IInv, NEW m \in Msgs, NEW s \in Settings, Enqueue(m, s)
  PROVE  IInv' /\ NoNewRuns
<1>1. GoodNow /\ Others
  BY Parts
<1> DEFINE i    == IF map = NoQueue THEN made + 1 ELSE map
           q    == IF map = NoQueue THEN Created(s)
                   ELSE [queue[map] EXCEPT !.mode = s.mode, !.cap = s.cap,
                                           !.drop = s.drop]
           full == Len(q.items) >= q.cap
           room == IF full THEN DropOldest(q) ELSE q
           md   == IF map = NoQueue THEN i ELSE made
           qu   == [queue EXCEPT ![i] = q]
<1>2. /\ fate[m] = "deciding" /\ (map = NoQueue => made < MaxQueues)
      /\ map' = i /\ made' = md /\ drain' = drain /\ active' = active
      /\ ending' = ending /\ clears' = clears /\ throws' = throws
  BY DEF Enqueue
<1>3. \/ /\ queue' = [queue EXCEPT ![i] = q]
         /\ fate' = [fate EXCEPT ![m] = "discarded"] /\ excused' = excused
      \/ /\ queue' = [queue EXCEPT ![i] = [q EXCEPT !.lastRun = TRUE]]
         /\ fate' = [fate EXCEPT ![m] = "discarded"] /\ excused' = excused
      \/ /\ queue' = [queue EXCEPT ![i] = [room EXCEPT !.items = Append(@, m),
                                                       !.lastRun = TRUE]]
         /\ fate' = [k \in Msgs |->
                       IF k = m THEN "queued"
                       ELSE IF k \in Forgotten(q, room) THEN "discarded"
                       ELSE fate[k]]
         /\ excused' = (excused \/ (full /\ drain[i].pc = "run"))
  BY DEF Enqueue
<1>4. Good(map, queue, drain, made, fate, excused, clears)
  BY <1>1 DEF GoodNow
<1>5. /\ queue \in [Queues -> Queue] /\ fate \in [Msgs -> Fates] /\ excused \in BOOLEAN
      /\ map \in {NoQueue} \union Queues
  BY <1>4 DEF Good, Stored, Bounds
<1>6. /\ Good(i, qu, drain, md, fate, excused, clears) /\ i \in Queues
      /\ q \in Queue /\ q.cap = s.cap
  <2>1. CASE map = NoQueue
    <3>1. i = made + 1 /\ md = i /\ q = Created(s) /\ made < MaxQueues
      BY <1>2, <2>1
    <3>2. Put(qu, queue, i, Created(s))
      BY <3>1 DEF Put
    <3>3. Good(NoQueue, queue, drain, made, fate, excused, clears)
      BY <1>4, <2>1
    <3> HIDE DEF i, q, qu, md
    <3>4. Good(i, qu, drain, i, fate, excused, clears) /\ i \in Queues
      BY <3>1, <3>2, <3>3, OpenIsGood
    <3> QED
      BY <3>1, <3>4, CreatedFacts
  <2>2. CASE map # NoQueue
    <3>1. i = map /\ md = made /\ q = WithSettings(queue[map], s) /\ i \in Queues
      BY <1>5, <2>2 DEF WithSettings
    <3>2. Put(qu, queue, i, q)
      BY DEF Put
    <3> HIDE DEF i, q, qu, md
    <3>3. queue[i] \in Queue
      BY <1>5, <3>1
    <3>4. SameEntries(q, queue[i]) /\ q.draining = queue[i].draining /\ q.cap = s.cap
      BY <3>1, <3>3, WithSettingsFacts
    <3>5. Good(map, qu, drain, made, fate, excused, clears)
      BY <1>4, <3>1, <3>2, <3>4, SettingsAreGood
    <3> QED
      BY <3>1, <3>4, <3>5 DEF SameEntries
  <2> QED
    BY <2>1, <2>2
<1>7. q.cap \in Nat \ {0}
  BY <1>6, CreatedFacts
<1> DEFINE new == [room EXCEPT !.items = Append(@, m), !.lastRun = TRUE]
<1>8. new = Pushed(room, m)
  BY DEF Pushed
<1>9. /\ full => room = DropOldest(q)
      /\ ~full => room = q
      /\ full => Len(q.items) >= q.cap
  OBVIOUS
<1>10. full \in BOOLEAN
  OBVIOUS
<1>11. qu = [queue EXCEPT ![i] = q]
  OBVIOUS
<1> HIDE DEF new, room, full, i, q, md, qu
<1>12. qu[i] = q /\ DOMAIN qu = Queues
  BY <1>5, <1>6, <1>11
<1>13. \A v : [queue EXCEPT ![i] = v] = [qu EXCEPT ![i] = v]
  BY <1>5, <1>6, <1>11
<1>14. Others'
  BY <1>1, <1>2 DEF Others
<1>15. NoNewRuns
  BY <1>2 DEF NoNewRuns
<1>16. ASSUME fate' = [fate EXCEPT ![m] = "discarded"]
       PROVE  /\ fate' \in [Msgs -> Fates]
              /\ \A k \in Msgs : fate'[k] # fate[k] =>
                    k \in Fresh(fate) /\ fate'[k] # "queued"
  BY <1>2, <1>5, <1>16 DEF Fates, Final, Fresh
<1>17. CASE /\ queue' = [queue EXCEPT ![i] = q]
            /\ fate' = [fate EXCEPT ![m] = "discarded"] /\ excused' = excused
  <2>1. queue' = qu
    BY <1>11, <1>17
  <2>2. Good(i, qu, drain, md, fate', excused, clears)
    BY <1>6, <1>16, <1>17, FateIsGood
  <2>3. GoodNow'
    BY <1>2, <1>17, <2>1, <2>2 DEF GoodNow
  <2> QED
    BY <1>14, <1>15, <2>3, WholeNext
<1>18. CASE /\ queue' = [queue EXCEPT ![i] = [q EXCEPT !.lastRun = TRUE]]
            /\ fate' = [fate EXCEPT ![m] = "discarded"] /\ excused' = excused
  <2> DEFINE q2 == Used(q)
  <2>1. Put(queue', qu, i, q2)
    BY <1>13, <1>18 DEF Used, Put
  <2>2. SameEntries(q2, qu[i]) /\ q2.draining = qu[i].draining
    BY <1>6, <1>12, UsedFacts
  <2> HIDE DEF q2
  <2>3. Good(i, queue', drain, md, fate, excused, clears)
    BY <1>6, <2>1, <2>2, SettingsAreGood
  <2>4. Good(i, queue', drain, md, fate', excused, clears)
    BY <1>16, <1>18, <2>3, FateIsGood
  <2>5. GoodNow'
    BY <1>2, <1>18, <2>4 DEF GoodNow
  <2> QED
    BY <1>14, <1>15, <2>5, WholeNext
<1>19. CASE /\ queue' = [queue EXCEPT ![i] = new]
            /\ fate' = [k \in Msgs |->
                          IF k = m THEN "queued"
                          ELSE IF k \in Forgotten(q, room) THEN "discarded"
                          ELSE fate[k]]
            /\ excused' = (excused \/ (full /\ drain[i].pc = "run"))
  <2>1. Put(queue', qu, i, new)
    BY <1>13, <1>19 DEF Put
  <2>2. RoomOf(room, q)
    BY <1>7, <1>9 DEF RoomOf
  <2>3. Object(q, drain[i], fate)
    BY <1>6, <1>12 DEF Good, Stored
  <2>4. Object(room, drain[i], fate)
    BY <2>2, <2>3, DropIsSound DEF RoomOf
  <2>5. Queued(new, room, m)
    BY <1>8, <2>4, PushedFacts DEF Object, Fit
  <2>6. FatesAfterPush(fate', fate, m, q, room)
    <3>1. \A k \in Msgs : fate'[k] \in Fates
      BY <1>5, <1>19 DEF Fates, Final
    <3>2. fate' \in [Msgs -> Fates]
      BY <1>19, <3>1
    <3> QED
      BY <1>19, <3>2 DEF FatesAfterPush
  <2>7. excused' \in BOOLEAN
    BY <1>5, <1>10, <1>19
  <2>8. /\ excused => excused'
        /\ ~excused' => room = qu[i] \/ drain[i].pc # "run"
    BY <1>9, <1>12, <1>19
  <2>9. RoomOf(room, qu[i]) /\ FatesAfterPush(fate', fate, m, qu[i], room)
    BY <1>12, <2>2, <2>6
  <2>10. Good(i, queue', drain, md, fate', excused', clears)
    BY <1>2, <1>6, <2>1, <2>5, <2>7, <2>8, <2>9, PushIsGood
  <2>11. GoodNow'
    BY <1>2, <2>10 DEF GoodNow
  <2> QED
    BY <1>14, <1>15, <2>11, WholeNext
<1> QED
  BY <1>3, <1>17, <1>18, <1>19 DEF new

-----------------------------------------------------------------------------
(* The theorems *)

(* Every step keeps the invariant, and starts a run only with messages that *)
(* wait for one.                                                            *)
LEMMA StepKeeps ==
  ASSUME IInv, [Next]_vars
  PROVE  IInv' /\ QueuedIsRun
<1>1. CASE \E m \in Msgs : Arrive(m)
  BY <1>1, ArriveKeeps, NoNewRunsIsQueuedIsRun
<1>2. CASE \E m \in Msgs, s \in Settings : Enqueue(m, s)
  BY <1>2, EnqueueKeeps, NoNewRunsIsQueuedIsRun
<1>3. CASE MainRunEnds \/ MainRunThrows \/ UNCHANGED vars
  BY <1>3, MainRunKeeps, NoNewRunsIsQueuedIsRun
<1>4. CASE Finalize
  BY <1>4, FinalizeKeeps, NoNewRunsIsQueuedIsRun
<1>5. CASE \E i \in Queues : DrainCollect(i)
  BY <1>5, DrainCollectKeeps
<1>6. CASE \E i \in Queues : DrainNext(i)
  BY <1>6, DrainNextKeeps
<1>7. CASE \E i \in Queues, outcome \in {"run", "failed"} : FollowupEnds(i, outcome)
  BY <1>7, FollowupEndsKeeps, NoNewRunsIsQueuedIsRun
<1>8. CASE \E i \in Queues : FollowupThrows(i)
  BY <1>8, FollowupThrowsKeeps, NoNewRunsIsQueuedIsRun
<1>9. CASE Clear
  BY <1>9, ClearKeeps, NoNewRunsIsQueuedIsRun
<1> QED
  BY <1>1, <1>2, <1>3, <1>4, <1>5, <1>6, <1>7, <1>8, <1>9 DEF Next

(* What the queue objects, their drains, the key and the fates of messages  *)
(* owe to each other holds throughout.                                      *)
THEOREM Invariance == Spec => []IInv
<1>1. Init => IInv
  BY InitGood
<1>2. IInv /\ [Next]_vars => IInv'
  BY StepKeeps
<1> QED
  BY <1>1, <1>2, PTL DEF Spec

(* The variables keep their types, a queue is draining exactly while its    *)
(* drain is at work, and it has no more previews than dropped messages.     *)
THEOREM Typing == Spec => []TypeOK
<1>1. IInv => TypeOK
  BY DEF IInv
<1> QED
  BY <1>1, Invariance, PTL

(* Drains neither lose nor strand a queued message unless an overflow, a    *)
(* clear or a summary met a queue in its drain (drain.ts, finally).         *)
THEOREM NothingIsLost == Spec => []LossNeedsRace
<1>1. IInv => LossNeedsRace
  <2> SUFFICES ASSUME IInv, ~excused, NEW m \in Msgs, fate[m] = "queued"
               PROVE  Reachable(m)
    BY DEF LossNeedsRace
  <2>1. /\ map # NoQueue
        /\ m \in ToSet(queue[map].items) \union ToSet(queue[map].lines)
    BY DEF IInv, KeyHasQueued
  <2>2. map \in Queues
    BY <2>1 DEF IInv, TypeOK
  <2> QED
    BY <2>1, <2>2 DEF Reachable
<1> QED
  BY <1>1, Invariance, PTL

(* Until the session is cleared, its follow-up runs follow one another.     *)
THEOREM OneRunAtATime == Spec => []OneRunPerKey
<1>1. IInv => OneRunPerKey
  BY DEF IInv, KeyOwnsDrain, OneRunPerKey
<1> QED
  BY <1>1, Invariance, PTL

(* No run is started with a message that was run, cleared or dropped.       *)
THEOREM WaitingIsRun == Spec => OnlyQueuedIsRun
<1>1. IInv /\ [Next]_vars =>
        [\A i \in Queues : drain[i].pc = "wait" /\ drain'[i].pc = "run" =>
            \A m \in ToSet(drain'[i].told) : fate[m] = "queued"]_vars
  BY StepKeeps DEF QueuedIsRun
<1> QED
  BY <1>1, Invariance, PTL DEF Spec, OnlyQueuedIsRun

=============================================================================
