------------------------- MODULE CronServiceProofs --------------------------
(***************************************************************************)
(* Proofs about CronService, for any jobs, schedules, drafts and bounds.   *)
(*                                                                         *)
(* What a block does to the store, it does job by job: the job is tidied,  *)
(* scheduled again, marked, patched, or gets the result of its run.  The   *)
(* first lemmas say what these keep of a job; then come the stores, and    *)
(* the actions.                                                            *)
(***************************************************************************)
EXTENDS CronService, TLAPS

-----------------------------------------------------------------------------
(* Jobs *)

LEMMA Constants ==
  /\ Period \in Nat /\ Period > 0 /\ RefireGap \in Nat /\ StuckAfter \in Nat
  /\ Len(Backoff) \in Nat /\ Len(Backoff) > 0
  /\ \A e \in 1 .. Len(Backoff) : Backoff[e] \in Nat
  BY ScheduleAssumption

(* A next run is an instant, and only a one-shot job may have none.         *)
LEMMA NextRunFacts ==
  ASSUME NEW j \in Job, ~Throws(j), NEW n \in Nat
  PROVE  /\ NextRun(j, n) \in Nat
         /\ j.enabled /\ NextRun(j, n) = NoTime => IsOver(j)
<1>1. /\ j.t \in Nat /\ j.kind \in Kinds /\ j.enabled \in BOOLEAN
  BY DEF Job
<1>2. Period \in Nat /\ Period > 0
  BY Constants
<1>3. CASE ~j.enabled
  BY <1>3 DEF NextRun, NoTime
<1>4. CASE j.enabled /\ j.kind = "at"
  BY <1>1, <1>4 DEF NextRun, NoTime, IsOver
<1>5. CASE j.enabled /\ j.kind = "every"
  <2>1. NextRun(j, n) = EveryNext(j.t, n)
    BY <1>5 DEF NextRun
  <2>2. EveryNext(j.t, n) \in Nat /\ EveryNext(j.t, n) > 0
    <3>1. CASE n < j.t
      BY <1>1, <3>1 DEF EveryNext
    <3>2. CASE ~(n < j.t)
      <4> DEFINE m == AtLeast(1, (n - j.t + Period - 1) \div Period)
      <4>1. (n - j.t + Period - 1) \div Period \in Int
        BY <1>1, <1>2
      <4>2. m \in Nat /\ m >= 1
        BY <4>1 DEF AtLeast
      <4> HIDE DEF m
      <4>3. Period * m \in Nat /\ Period * m > 0
        BY <1>2, <4>2
      <4>4. EveryNext(j.t, n) = j.t + Period * m
        BY <3>2 DEF EveryNext, m
      <4> QED
        BY <1>1, <4>3, <4>4
    <3> QED
      BY <3>1, <3>2
  <2> QED
    BY <2>1, <2>2 DEF NoTime
<1>6. CASE j.enabled /\ j.kind = "cron"
  <2> DEFINE d == n - j.t
             q == d \div Period
  <2>1. NextRun(j, n) = j.t + Period * (q + 1)
    BY <1>6 DEF NextRun, CronNext
  <2>2. d \in Int
    BY <1>1
  <2> HIDE DEF d
  <2>3. q \in Int /\ Period * q <= d /\ d < Period * (q + 1)
    BY <1>2, <2>2
  <2> HIDE DEF q
  <2>4. Period * (q + 1) \in Int
    BY <1>2, <2>3
  <2> DEFINE x == Period * (q + 1)
  <2> HIDE DEF x
  <2>5. x \in Int /\ d < x
    BY <2>3, <2>4 DEF x
  <2>6. j.t + x \in Nat /\ j.t + x > 0
    BY <1>1, <2>5 DEF d
  <2> QED
    BY <2>1, <2>6 DEF x, NoTime
<1> QED
  BY <1>1, <1>3, <1>4, <1>5, <1>6 DEF Throws, Kinds

(* A job after maintenance at n: v was j.                                   *)
Upkept(v, j, n) ==
  /\ v \in Job
  /\ v.kind = j.kind /\ v.t = j.t /\ v.keep = j.keep /\ v.status = j.status
  /\ v.enabled => j.enabled
  /\ ~Throws(j) /\ j.enabled => v.enabled
  /\ v.mark # NoTime => v.mark = j.mark
  /\ j.enabled /\ ~IsStuck(j, n) => v.mark = j.mark
  /\ ~Throws(j) /\ v.enabled /\ v.next = NoTime => IsOver(v)

(* A next run that is there is kept, and one that cannot be is not made up. *)
NextKept(v, j) ==
  /\ j.enabled /\ j.next # NoTime => v.next = j.next
  /\ ~Throws(j) /\ j.enabled /\ j.next = NoTime /\ IsOver(j) => v.next = NoTime

LEMMA TidiedFacts ==
  ASSUME NEW j \in Job, NEW n
  PROVE  /\ Tidied(j, n) \in Job
         /\ Tidied(j, n).kind = j.kind /\ Tidied(j, n).t = j.t
         /\ Tidied(j, n).keep = j.keep /\ Tidied(j, n).status = j.status
         /\ Tidied(j, n).enabled = j.enabled
         /\ j.enabled => Tidied(j, n).next = j.next
         /\ Tidied(j, n).mark # NoTime => Tidied(j, n).mark = j.mark
         /\ j.enabled /\ ~IsStuck(j, n) => Tidied(j, n).mark = j.mark
<1>1. CASE ~j.enabled
  <2> DEFINE v == [j EXCEPT !.next = NoTime, !.mark = NoTime]
  <2>1. Tidied(j, n) = v
    BY <1>1 DEF Tidied
  <2>2. v \in Job
    BY DEF Job, NoTime
  <2>3. /\ v.kind = j.kind /\ v.t = j.t /\ v.keep = j.keep /\ v.status = j.status
        /\ v.enabled = j.enabled /\ v.mark = NoTime
    BY DEF Job
  <2> HIDE DEF v
  <2> QED
    BY <1>1, <2>1, <2>2, <2>3
<1>2. CASE j.enabled /\ IsStuck(j, n)
  <2> DEFINE v == [j EXCEPT !.mark = NoTime]
  <2>1. Tidied(j, n) = v
    BY <1>2 DEF Tidied
  <2>2. v \in Job
    BY DEF Job, NoTime
  <2>3. /\ v.kind = j.kind /\ v.t = j.t /\ v.keep = j.keep /\ v.status = j.status
        /\ v.enabled = j.enabled /\ v.next = j.next /\ v.mark = NoTime
    BY DEF Job
  <2> HIDE DEF v
  <2> QED
    BY <1>2, <2>1, <2>2, <2>3
<1>3. CASE j.enabled /\ ~IsStuck(j, n)
  BY <1>3 DEF Tidied
<1> QED
  BY <1>1, <1>2, <1>3

LEMMA RescheduledFacts ==
  ASSUME NEW j \in Job, NEW n \in Nat, j.enabled
  PROVE  /\ Rescheduled(j, n) \in Job
         /\ Rescheduled(j, n).kind = j.kind /\ Rescheduled(j, n).t = j.t
         /\ Rescheduled(j, n).keep = j.keep /\ Rescheduled(j, n).status = j.status
         /\ Rescheduled(j, n).mark = j.mark
         /\ ~Throws(j) => Rescheduled(j, n).enabled
         /\ ~Throws(j) /\ Rescheduled(j, n).next = NoTime => IsOver(j)
         /\ ~Throws(j) /\ IsOver(j) => Rescheduled(j, n).next = NoTime
<1>1. CASE Throws(j)
  <2> DEFINE e == j.bad + 1 < MaxScheduleErrors
             c == j.bad + 1
  <2>1. e \in BOOLEAN /\ c \in Nat
    BY DEF Job
  <2> DEFINE v == [j EXCEPT !.next = NoTime, !.bad = c, !.enabled = e]
  <2>2. Rescheduled(j, n) = v
    BY <1>1 DEF Rescheduled
  <2> HIDE DEF e, c
  <2>3. v \in Job
    BY <2>1 DEF Job, NoTime
  <2>4. /\ v.kind = j.kind /\ v.t = j.t /\ v.keep = j.keep /\ v.status = j.status
        /\ v.mark = j.mark
    BY DEF Job
  <2> HIDE DEF v
  <2> QED
    BY <1>1, <2>2, <2>3, <2>4
<1>2. CASE ~Throws(j)
  <2> DEFINE x == NextRun(j, n)
  <2>1. x \in Nat /\ (x = NoTime => IsOver(j))
    BY <1>2, NextRunFacts
  <2>2. IsOver(j) => x = NoTime
    BY DEF IsOver, NextRun, NoTime
  <2> DEFINE v == [j EXCEPT !.next = x, !.bad = 0]
  <2>3. Rescheduled(j, n) = v
    BY <1>2 DEF Rescheduled
  <2> HIDE DEF x
  <2>4. v \in Job
    BY <2>1 DEF Job
  <2>5. /\ v.next = x
        /\ v.kind = j.kind /\ v.t = j.t /\ v.keep = j.keep /\ v.status = j.status
        /\ v.mark = j.mark /\ v.enabled = j.enabled
    BY DEF Job
  <2> HIDE DEF v
  <2> QED
    BY <1>2, <2>1, <2>2, <2>3, <2>4, <2>5
<1> QED
  BY <1>1, <1>2

(* One job of Maintain and of Recompute.                                    *)
Maintained(j, n) ==
  IF Tidied(j, n).enabled /\ Tidied(j, n).next = NoTime
  THEN Rescheduled(Tidied(j, n), n) ELSE Tidied(j, n)
Recomputed(j, n) ==
  IF Tidied(j, n).enabled /\ n >= Tidied(j, n).next
  THEN Rescheduled(Tidied(j, n), n) ELSE Tidied(j, n)

LEMMA TidiedUpkept ==
  ASSUME NEW j \in Job, NEW n \in Nat
  PROVE  /\ Tidied(j, n).enabled => Upkept(Rescheduled(Tidied(j, n), n), j, n)
         /\ ~(Tidied(j, n).enabled /\ Tidied(j, n).next = NoTime) => Upkept(Tidied(j, n), j, n)
<1> DEFINE v == Tidied(j, n)
<1>1. /\ v \in Job
      /\ v.kind = j.kind /\ v.t = j.t /\ v.keep = j.keep /\ v.status = j.status
      /\ v.enabled = j.enabled
      /\ j.enabled => v.next = j.next
      /\ v.mark # NoTime => v.mark = j.mark
      /\ j.enabled /\ ~IsStuck(j, n) => v.mark = j.mark
  BY TidiedFacts
<1>2. /\ Throws(v) <=> Throws(j)
      /\ IsOver(v) <=> IsOver(j)
  BY <1>1 DEF Throws, IsOver
<1> HIDE DEF v
<1>3. ASSUME v.enabled
      PROVE  Upkept(Rescheduled(v, n), j, n)
  <2> DEFINE w == Rescheduled(v, n)
  <2>1. /\ w \in Job
        /\ w.kind = v.kind /\ w.t = v.t /\ w.keep = v.keep /\ w.status = v.status
        /\ w.mark = v.mark
        /\ ~Throws(v) => w.enabled
        /\ ~Throws(v) /\ w.next = NoTime => IsOver(v)
    BY <1>1, <1>3, RescheduledFacts
  <2> HIDE DEF w
  <2>2. IsOver(w) <=> IsOver(v)
    BY <2>1 DEF IsOver
  <2>3. Upkept(w, j, n)
    BY <1>1, <1>2, <1>3, <2>1, <2>2 DEF Upkept
  <2> QED
    BY <2>3 DEF w
<1>4. ASSUME ~(v.enabled /\ v.next = NoTime)
      PROVE  Upkept(v, j, n)
  BY <1>1, <1>4 DEF Upkept
<1> QED
  BY <1>3, <1>4 DEF v

LEMMA MaintainedFacts ==
  ASSUME NEW j \in Job, NEW n \in Nat
  PROVE  Upkept(Maintained(j, n), j, n) /\ NextKept(Maintained(j, n), j)
<1>1. Upkept(Maintained(j, n), j, n)
  BY TidiedUpkept DEF Maintained
<1> DEFINE v == Tidied(j, n)
<1>2. /\ v \in Job
      /\ v.kind = j.kind /\ v.t = j.t /\ v.keep = j.keep /\ v.status = j.status
      /\ v.enabled = j.enabled
      /\ j.enabled => v.next = j.next
  BY TidiedFacts
<1>3. Maintained(j, n) = IF v.enabled /\ v.next = NoTime THEN Rescheduled(v, n) ELSE v
  BY DEF Maintained
<1> HIDE DEF v
<1>4. /\ Throws(v) <=> Throws(j)
      /\ IsOver(v) <=> IsOver(j)
  BY <1>2 DEF Throws, IsOver
<1>5. v.enabled /\ ~Throws(v) /\ IsOver(v) => Rescheduled(v, n).next = NoTime
  BY <1>2, RescheduledFacts
<1>6. NextKept(Maintained(j, n), j)
  BY <1>2, <1>3, <1>4, <1>5 DEF NextKept
<1> QED
  BY <1>1, <1>6

LEMMA RecomputedFacts ==
  ASSUME NEW j \in Job, NEW n \in Nat
  PROVE  Upkept(Recomputed(j, n), j, n)
<1>1. Tidied(j, n) \in Job
  BY TidiedFacts
<1>2. Tidied(j, n).next = NoTime => n >= Tidied(j, n).next
  BY DEF NoTime
<1> QED
  BY <1>2, TidiedUpkept DEF Recomputed

(* The result of a run clears the marker, and disables a one-shot job.      *)
LEMMA NotedFacts ==
  ASSUME NEW j \in Job, NEW o \in Outcomes
  PROVE  /\ Noted(j, o) \in Job
         /\ Noted(j, o).kind = j.kind /\ Noted(j, o).t = j.t /\ Noted(j, o).keep = j.keep
         /\ Noted(j, o).enabled = j.enabled /\ Noted(j, o).next = j.next
         /\ Noted(j, o).mark = NoTime /\ Noted(j, o).status = o
         /\ o = "error" => Noted(j, o).errs \in 1 .. Len(Backoff)
<1> DEFINE c == IF o # "error" THEN 0
                ELSE IF j.errs < Len(Backoff) THEN j.errs + 1 ELSE j.errs
           v == [j EXCEPT !.mark = NoTime, !.status = o, !.errs = c]
<1>1. j.errs \in 0 .. Len(Backoff) /\ Len(Backoff) \in Nat /\ Len(Backoff) > 0
  BY Constants DEF Job
<1>2. c \in 0 .. Len(Backoff) /\ (o = "error" => c \in 1 .. Len(Backoff))
  BY <1>1
<1>3. Noted(j, o) = v
  BY DEF Noted
<1>4. o \in Status
  BY OutcomesAssumption
<1> HIDE DEF c
<1>5. v \in Job
  BY <1>2, <1>4 DEF Job, NoTime
<1>6. /\ v.kind = j.kind /\ v.t = j.t /\ v.keep = j.keep /\ v.enabled = j.enabled
      /\ v.next = j.next /\ v.mark = NoTime /\ v.status = o /\ v.errs = c
  BY DEF Job
<1> HIDE DEF v
<1> QED
  BY <1>2, <1>3, <1>5, <1>6

LEMMA AfterFacts ==
  ASSUME NEW j \in Job, ~Throws(j), NEW o \in Outcomes, NEW end \in Nat
  PROVE  /\ After(j, o, end) \in Job
         /\ After(j, o, end).kind = j.kind /\ After(j, o, end).mark = NoTime
         /\ After(j, o, end).enabled => j.enabled /\ j.kind # "at"
<1> DEFINE d == Noted(j, o)
           x == NextRun(d, end)
           y == IF ~j.enabled THEN NoTime
                ELSE IF o = "error" THEN AtLeast(x, end + Backoff[d.errs])
                ELSE IF j.kind = "cron" THEN AtLeast(x, end + RefireGap)
                ELSE x
<1>1. /\ d \in Job /\ d.kind = j.kind /\ d.enabled = j.enabled /\ d.mark = NoTime
      /\ o = "error" => d.errs \in 1 .. Len(Backoff)
  BY NotedFacts
<1>2. After(j, o, end) = IF j.kind = "at" THEN [d EXCEPT !.enabled = FALSE, !.next = NoTime]
                         ELSE [d EXCEPT !.next = y]
  BY DEF After
<1> HIDE DEF d
<1>3. ~Throws(d)
  BY <1>1 DEF Throws
<1>4. x \in Nat
  BY <1>1, <1>3, NextRunFacts
<1>5. o = "error" => Backoff[d.errs] \in Nat
  BY <1>1, Constants
<1> HIDE DEF x
<1>6. y \in Nat
  BY <1>4, <1>5, Constants DEF AtLeast, NoTime
<1> HIDE DEF y
<1>7. CASE j.kind = "at"
  <2> DEFINE v == [d EXCEPT !.enabled = FALSE, !.next = NoTime]
  <2>1. v \in Job
    BY <1>1 DEF Job, NoTime
  <2>2. v.kind = d.kind /\ v.mark = d.mark /\ v.enabled = FALSE
    BY <1>1 DEF Job
  <2> HIDE DEF v
  <2>3. After(j, o, end) = v
    BY <1>2, <1>7 DEF v
  <2> QED
    BY <1>1, <2>1, <2>2, <2>3
<1>8. CASE j.kind # "at"
  <2> DEFINE v == [d EXCEPT !.next = y]
  <2>1. v \in Job
    BY <1>1, <1>6 DEF Job
  <2>2. v.kind = d.kind /\ v.mark = d.mark /\ v.enabled = d.enabled
    BY <1>1 DEF Job
  <2> HIDE DEF v
  <2>3. After(j, o, end) = v
    BY <1>2, <1>8 DEF v
  <2> QED
    BY <1>1, <1>8, <2>1, <2>2, <2>3
<1> QED
  BY <1>7, <1>8

-----------------------------------------------------------------------------
(* Stores *)

(* The parts of the invariant about one job, for the jobs C that are        *)
(* claimed, the history e of the edits and the jobs l that lost a marker.   *)
Fit(j, i, C, e, l) ==
  /\ e[i] # "rejected" => ~Throws(j)
  /\ e[i] # "rejected" /\ i \in C \ l => j.mark # NoTime /\ j.enabled
  /\ e[i] = "none" /\ j.kind = "at" /\ j.enabled => j.status = "none"

Fits(s, C, e, l)  == \A i \in DOMAIN s : Fit(s[i], i, C, e, l)
MarksOf(s, C, l)  == \A i \in DOMAIN s \ l : s[i].mark # NoTime => i \in C
Calm(s)           == \A i \in DOMAIN s : ~Throws(s[i])
StuckAt(s, n)     == {i \in DOMAIN s : IsStuck(s[i], n)}
SameDomain(ns, s) == DOMAIN ns = DOMAIN s
Kept(ns, s, n)    == SameDomain(ns, s) /\ \A i \in DOMAIN s : Upkept(ns[i], s[i], n)
NextsKept(ns, s)  == SameDomain(ns, s) /\ \A i \in DOMAIN s : NextKept(ns[i], s[i])

LEMMA StoreJobs ==
  ASSUME NEW s, IsStore(s), NEW i \in DOMAIN s
  PROVE  s[i] \in Job /\ i \in Ids
  BY DEF IsStore

LEMMA MaintainKeeps ==
  ASSUME NEW s, IsStore(s), NEW n \in Nat
  PROVE  IsStore(Maintain(s, n)) /\ Kept(Maintain(s, n), s, n) /\ NextsKept(Maintain(s, n), s)
<1> DEFINE ns == Maintain(s, n)
<1>1. ns = [i \in DOMAIN s |-> Maintained(s[i], n)]
  BY DEF Maintain, Maintained
<1> HIDE DEF ns
<1>2. DOMAIN ns = DOMAIN s /\ \A i \in DOMAIN s : ns[i] = Maintained(s[i], n)
  BY <1>1
<1>3. \A i \in DOMAIN s : Upkept(ns[i], s[i], n) /\ NextKept(ns[i], s[i])
  BY <1>2, StoreJobs, MaintainedFacts
<1>4. \A i \in DOMAIN s : ns[i] \in Job
  BY <1>3 DEF Upkept
<1>5. IsStore(ns)
  BY <1>1, <1>2, <1>4 DEF IsStore
<1>6. Kept(ns, s, n) /\ NextsKept(ns, s)
  BY <1>2, <1>3 DEF Kept, NextsKept, SameDomain
<1> QED
  BY <1>5, <1>6 DEF ns

LEMMA RecomputeKeeps ==
  ASSUME NEW s, IsStore(s), NEW n \in Nat
  PROVE  IsStore(Recompute(s, n)) /\ Kept(Recompute(s, n), s, n)
<1> DEFINE ns == Recompute(s, n)
<1>1. ns = [i \in DOMAIN s |-> Recomputed(s[i], n)]
  BY DEF Recompute, Recomputed
<1> HIDE DEF ns
<1>2. DOMAIN ns = DOMAIN s /\ \A i \in DOMAIN s : ns[i] = Recomputed(s[i], n)
  BY <1>1
<1>3. \A i \in DOMAIN s : Upkept(ns[i], s[i], n)
  BY <1>2, StoreJobs, RecomputedFacts
<1>4. \A i \in DOMAIN s : ns[i] \in Job
  BY <1>3 DEF Upkept
<1>5. IsStore(ns)
  BY <1>1, <1>2, <1>4 DEF IsStore
<1>6. Kept(ns, s, n)
  BY <1>2, <1>3 DEF Kept, SameDomain
<1> QED
  BY <1>5, <1>6 DEF ns

(* Maintenance keeps a store fit, if its stuck jobs count as lost.          *)
LEMMA KeptFits ==
  ASSUME NEW ns, NEW s, NEW n, Kept(ns, s, n),
         NEW C, NEW e, NEW l, NEW l2, Fits(s, C, e, l),
         l \subseteq l2, StuckAt(s, n) \subseteq l2
  PROVE  Fits(ns, C, e, l2)
<1> SUFFICES ASSUME NEW i \in DOMAIN ns
             PROVE  Fit(ns[i], i, C, e, l2)
  BY DEF Fits
<1>1. i \in DOMAIN s /\ Upkept(ns[i], s[i], n) /\ Fit(s[i], i, C, e, l)
  BY DEF Kept, SameDomain, Fits
<1>2. i \notin l2 => i \notin l /\ ~IsStuck(s[i], n)
  BY <1>1 DEF StuckAt
<1>3. e[i] # "rejected" => ~Throws(ns[i])
  BY <1>1 DEF Fit, Upkept, Throws
<1>4. e[i] # "rejected" /\ i \in C \ l2 => ns[i].mark # NoTime /\ ns[i].enabled
  BY <1>1, <1>2 DEF Fit, Upkept
<1>5. e[i] = "none" /\ ns[i].kind = "at" /\ ns[i].enabled => ns[i].status = "none"
  BY <1>1 DEF Fit, Upkept
<1> QED
  BY <1>3, <1>4, <1>5 DEF Fit

LEMMA KeptMarks ==
  ASSUME NEW ns, NEW s, NEW n, Kept(ns, s, n),
         NEW C, NEW l, NEW l2, MarksOf(s, C, l), l \subseteq l2
  PROVE  MarksOf(ns, C, l2)
  BY DEF Kept, SameDomain, MarksOf, Upkept

(* Afterwards the only enabled jobs without a next run are those that get   *)
(* none, and the timer is needed no more than before.                       *)
LEMMA KeptPlanned ==
  ASSUME NEW ns, NEW s, NEW n, Kept(ns, s, n), Calm(s)
  PROVE  Planned(ns)
  BY DEF Kept, SameDomain, Calm, Upkept, Planned

LEMMA KeptWakes ==
  ASSUME NEW ns, NEW s, NEW n, Kept(ns, s, n), NextsKept(ns, s), Calm(s), Planned(s), Wakes(ns)
  PROVE  Wakes(s)
<1>1. PICK i \in DOMAIN ns : ns[i].enabled /\ ns[i].next # NoTime
  BY DEF Wakes
<1>2. i \in DOMAIN s /\ Upkept(ns[i], s[i], n) /\ NextKept(ns[i], s[i]) /\ ~Throws(s[i])
  BY DEF Kept, NextsKept, SameDomain, Calm
<1>3. s[i].enabled
  BY <1>1, <1>2 DEF Upkept
<1>4. s[i].next # NoTime
  BY <1>1, <1>2, <1>3 DEF NextKept, Planned
<1> QED
  BY <1>2, <1>3, <1>4 DEF Wakes

(* Jobs that are marked keep all but their marker.                          *)
Tagged(ns, s, S) ==
  /\ SameDomain(ns, s)
  /\ \A i \in DOMAIN s :
       /\ ns[i].kind = s[i].kind /\ ns[i].t = s[i].t /\ ns[i].status = s[i].status
       /\ ns[i].enabled = s[i].enabled /\ ns[i].next = s[i].next
       /\ i \in S => ns[i].mark # NoTime
       /\ i \notin S => ns[i].mark = s[i].mark

(* A job that is claimed with its marker is enabled.                        *)
Able(s, C, C2) == \A i \in (C2 \ C) \intersect DOMAIN s : s[i].enabled

LEMMA MarkedTags ==
  ASSUME NEW s, IsStore(s), NEW S, now \in Nat, now # NoTime
  PROVE  IsStore(Marked(s, S)) /\ Tagged(Marked(s, S), s, S)
<1> DEFINE ns == Marked(s, S)
<1>1. ns = [i \in DOMAIN s |-> IF i \in S THEN [s[i] EXCEPT !.mark = now] ELSE s[i]]
  BY DEF Marked
<1> HIDE DEF ns
<1>2. ASSUME NEW i \in DOMAIN s
      PROVE  /\ ns[i] \in Job
             /\ ns[i].kind = s[i].kind /\ ns[i].t = s[i].t /\ ns[i].status = s[i].status
             /\ ns[i].enabled = s[i].enabled /\ ns[i].next = s[i].next
             /\ i \in S => ns[i].mark # NoTime
             /\ i \notin S => ns[i].mark = s[i].mark
  <2> DEFINE j == s[i]
             v == [j EXCEPT !.mark = now]
  <2>1. j \in Job
    BY StoreJobs
  <2>2. ns[i] = IF i \in S THEN v ELSE j
    BY <1>1
  <2> HIDE DEF j
  <2>3. v \in Job
    BY <2>1 DEF Job
  <2>4. /\ v.kind = j.kind /\ v.t = j.t /\ v.status = j.status
        /\ v.enabled = j.enabled /\ v.next = j.next /\ v.mark = now
    BY <2>1 DEF Job
  <2> HIDE DEF v
  <2> QED
    BY <2>1, <2>2, <2>3, <2>4 DEF j
<1>3. DOMAIN ns = DOMAIN s
  BY <1>1
<1>4. IsStore(ns)
  BY <1>1, <1>2, <1>3 DEF IsStore
<1>5. Tagged(ns, s, S)
  BY <1>2, <1>3 DEF Tagged, SameDomain
<1> QED
  BY <1>4, <1>5 DEF ns

LEMMA TaggedFits ==
  ASSUME NEW ns, NEW s, NEW S, Tagged(ns, s, S),
         NEW C, NEW C2, NEW e, NEW l, Fits(s, C, e, l), C2 \subseteq C \union S, Able(s, C, C2)
  PROVE  Fits(ns, C2, e, l)
<1> SUFFICES ASSUME NEW i \in DOMAIN ns
             PROVE  Fit(ns[i], i, C2, e, l)
  BY DEF Fits
<1>1. /\ i \in DOMAIN s /\ Fit(s[i], i, C, e, l)
      /\ ns[i].kind = s[i].kind /\ ns[i].status = s[i].status /\ ns[i].enabled = s[i].enabled
      /\ i \in S => ns[i].mark # NoTime
      /\ i \notin S => ns[i].mark = s[i].mark
  BY DEF Tagged, SameDomain, Fits
<1>2. i \in C2 => s[i].enabled \/ i \in C
  BY <1>1 DEF Able
<1> QED
  BY <1>1, <1>2 DEF Fit, Throws

LEMMA TaggedMarks ==
  ASSUME NEW ns, NEW s, NEW S, Tagged(ns, s, S),
         NEW C, NEW C2, NEW l, MarksOf(s, C, l), C \union S \subseteq C2
  PROVE  MarksOf(ns, C2, l)
  BY DEF Tagged, SameDomain, MarksOf

LEMMA TaggedTimes ==
  ASSUME NEW ns, NEW s, NEW S, Tagged(ns, s, S)
  PROVE  /\ Planned(s) => Planned(ns)
         /\ Wakes(ns) => Wakes(s)
  BY DEF Tagged, SameDomain, Planned, Wakes, IsOver

(* The results of the jobs in S.                                            *)
Result(v, j) ==
  /\ v.kind = j.kind /\ v.mark = NoTime
  /\ v.enabled => j.enabled /\ j.kind # "at"

Settles(ns, s, S) ==
  /\ DOMAIN ns \subseteq DOMAIN s
  /\ DOMAIN s \subseteq DOMAIN ns \union S
  /\ \A i \in DOMAIN ns : (i \in S => Result(ns[i], s[i])) /\ (i \notin S => ns[i] = s[i])

Over(b, S)        == \A i \in S : b[i].st \in Outcomes /\ b[i].at \in Nat
Sane(s, S)        == S \subseteq DOMAIN s /\ \A i \in S : ~Throws(s[i])
Away(S, C, e, l)  == \A i \in S : e[i] # "rejected" => i \notin C \ l

LEMMA SettledFacts ==
  ASSUME NEW s, IsStore(s), NEW S, Sane(s, S), NEW b, Over(b, S)
  PROVE  IsStore(Settled(s, b, S)) /\ Settles(Settled(s, b, S), s, S)
<1> DEFINE gone == {i \in S : IsDeleted(s[i], b[i].st)}
           ns == Settled(s, b, S)
<1>1. ns = [i \in DOMAIN s \ gone |-> IF i \in S THEN After(s[i], b[i].st, b[i].at) ELSE s[i]]
  BY DEF Settled
<1>2. gone \subseteq S
  OBVIOUS
<1> HIDE DEF ns, gone
<1>3. DOMAIN ns = DOMAIN s \ gone
  BY <1>1
<1>4. \A i \in DOMAIN ns : ns[i] = IF i \in S THEN After(s[i], b[i].st, b[i].at) ELSE s[i]
  BY <1>1
<1>5. \A i \in DOMAIN ns : s[i] \in Job
  BY <1>3, StoreJobs
<1>6. ASSUME NEW i \in DOMAIN ns, i \in S
      PROVE  ns[i] \in Job /\ Result(ns[i], s[i])
  <2> DEFINE v == After(s[i], b[i].st, b[i].at)
  <2>1. s[i] \in Job /\ ~Throws(s[i]) /\ b[i].st \in Outcomes /\ b[i].at \in Nat
    BY <1>5, <1>6 DEF Sane, Over
  <2>2. v \in Job /\ v.kind = s[i].kind /\ v.mark = NoTime
        /\ (v.enabled => s[i].enabled /\ s[i].kind # "at")
    BY <2>1, AfterFacts
  <2>3. ns[i] = v
    BY <1>4, <1>6
  <2> HIDE DEF v
  <2> QED
    BY <2>2, <2>3 DEF Result
<1>7. \A i \in DOMAIN ns : i \notin S => ns[i] = s[i]
  BY <1>4
<1>8. \A i \in DOMAIN ns : ns[i] \in Job
  BY <1>5, <1>6, <1>7
<1>9. IsStore(ns)
  BY <1>1, <1>3, <1>8 DEF IsStore
<1>10. Settles(ns, s, S)
  BY <1>2, <1>3, <1>6, <1>7 DEF Settles
<1> QED
  BY <1>9, <1>10 DEF ns

LEMMA SettlesFits ==
  ASSUME NEW ns, NEW s, NEW S, Settles(ns, s, S),
         NEW C, NEW C2, NEW e, NEW l, Fits(s, C, e, l), C2 \subseteq C, Away(S, C2, e, l)
  PROVE  Fits(ns, C2, e, l)
<1> SUFFICES ASSUME NEW i \in DOMAIN ns
             PROVE  Fit(ns[i], i, C2, e, l)
  BY DEF Fits
<1>1. i \in DOMAIN s /\ Fit(s[i], i, C, e, l)
  BY DEF Settles, Fits
<1>2. CASE i \in S
  <2>1. Result(ns[i], s[i])
    BY <1>2 DEF Settles
  <2>2. e[i] # "rejected" => i \notin C2 \ l
    BY <1>2 DEF Away
  <2> QED
    BY <1>1, <2>1, <2>2 DEF Fit, Result, Throws
<1>3. CASE i \notin S
  <2>1. ns[i] = s[i]
    BY <1>3 DEF Settles
  <2> QED
    BY <1>1, <2>1 DEF Fit
<1> QED
  BY <1>2, <1>3

(* The claims C of the jobs that are left are in C2.                        *)
Leaves(C, S, s, C2) == \A i \in DOMAIN s : i \in C /\ i \notin S => i \in C2

LEMMA SettlesMarks ==
  ASSUME NEW ns, NEW s, NEW S, Settles(ns, s, S),
         NEW C, NEW C2, NEW l, MarksOf(s, C, l), Leaves(C, S, ns, C2)
  PROVE  MarksOf(ns, C2, l)
  BY DEF Settles, MarksOf, Result, Leaves

LEMMA SettlesStuck ==
  ASSUME NEW ns, NEW s, NEW S, Settles(ns, s, S), NEW n
  PROVE  StuckAt(ns, n) \subseteq StuckAt(s, n) \ S
  BY DEF Settles, StuckAt, IsStuck, Result

LEMMA SettlesCalm ==
  ASSUME NEW ns, NEW s, NEW S, Settles(ns, s, S), Calm(s)
  PROVE  Calm(ns)
<1> SUFFICES ASSUME NEW i \in DOMAIN ns
             PROVE  ~Throws(ns[i])
  BY DEF Calm
<1>1. ~Throws(s[i])
  BY DEF Settles, Calm
<1>2. Result(ns[i], s[i]) \/ ns[i] = s[i]
  BY DEF Settles
<1> QED
  BY <1>1, <1>2 DEF Result, Throws

-----------------------------------------------------------------------------
(* Batches *)

Batches(b) ==
  /\ DOMAIN b = Actors
  /\ \A a \in Actors : DOMAIN b[a] \subseteq Ids /\ b[a] \in [DOMAIN b[a] -> Claims]

(* Who is in a batch stays in it.                                           *)
SameClaims(nb, b) ==
  \A a \in Actors : DOMAIN nb[a] = DOMAIN b[a] /\ (nb[a] = NoBatch <=> b[a] = NoBatch)

(* Only the batch of a changes.                                             *)
OnlyBatch(nb, b, a) == \A c \in Actors : c # a => nb[c] = b[c]

LEMMA NoBatchFacts ==
  /\ DOMAIN NoBatch = {}
  /\ IsStore(<<>>)
  /\ NoBatch \in [{} -> Claims]
<1>1. <<>> \in Seq(Claims) /\ <<>> \in Seq(Job) /\ Len(<<>>) = 0
  OBVIOUS
<1>2. DOMAIN <<>> = 1 .. 0 /\ 1 .. 0 = {}
  BY <1>1
<1>3. <<>> \in [1 .. 0 -> Claims] /\ <<>> \in [1 .. 0 -> Job]
  BY <1>1
<1> QED
  BY <1>2, <1>3 DEF NoBatch, IsStore

Put(nb, b, a, c) == nb = [b EXCEPT ![a] = c]

LEMMA ClaimFacts ==
  ASSUME NEW b, Batches(b), NEW a \in Actors, NEW S, S \subseteq Ids, S # {},
         NEW nb, Put(nb, b, a, Claim(S))
  PROVE  /\ Batches(nb) /\ DOMAIN nb[a] = S /\ nb[a] # NoBatch
         /\ OnlyBatch(nb, b, a)
<1>1. Claim(S) \in [S -> Claims] /\ DOMAIN Claim(S) = S
  BY DEF Claim, Claims, NoTime
<1>2. nb[a] = Claim(S) /\ DOMAIN nb = Actors
  BY DEF Batches, Put
<1>3. OnlyBatch(nb, b, a)
  BY DEF OnlyBatch, Batches, Put
<1>4. nb[a] # NoBatch
  BY <1>1, <1>2, NoBatchFacts
<1>5. Batches(nb)
  BY <1>1, <1>2, <1>3 DEF Batches, OnlyBatch
<1> QED
  BY <1>1, <1>2, <1>3, <1>4, <1>5

LEMMA DropFacts ==
  ASSUME NEW b, Batches(b), NEW a \in Actors,
         NEW nb, Put(nb, b, a, NoBatch)
  PROVE  /\ Batches(nb) /\ nb[a] = NoBatch /\ DOMAIN nb[a] = {}
         /\ OnlyBatch(nb, b, a)
<1>2. nb[a] = NoBatch /\ DOMAIN nb = Actors
  BY DEF Batches, Put
<1>3. OnlyBatch(nb, b, a)
  BY DEF OnlyBatch, Batches, Put
<1>4. DOMAIN nb[a] = {} /\ nb[a] \in [{} -> Claims]
  BY <1>2, NoBatchFacts
<1>5. Batches(nb)
  BY <1>2, <1>3, <1>4 DEF Batches, OnlyBatch
<1> QED
  BY <1>2, <1>3, <1>4, <1>5

(* The run of one claimed job starts or ends.                               *)
LEMMA RunFacts ==
  ASSUME NEW b, Batches(b), NEW a \in Actors, NEW i \in DOMAIN b[a], NEW c \in Claims,
         NEW nb, nb = [b EXCEPT ![a] = [b[a] EXCEPT ![i] = c]]
  PROVE  Batches(nb) /\ SameClaims(nb, b)
<1> DEFINE g == [b[a] EXCEPT ![i] = c]
<1>1. b[a] \in [DOMAIN b[a] -> Claims] /\ DOMAIN b[a] \subseteq Ids
  BY DEF Batches
<1>2. g \in [DOMAIN b[a] -> Claims] /\ DOMAIN g = DOMAIN b[a]
  BY <1>1
<1> HIDE DEF g
<1>3. nb = [b EXCEPT ![a] = g]
  BY DEF g
<1>4. nb[a] = g /\ DOMAIN nb = Actors /\ \A d \in Actors : d # a => nb[d] = b[d]
  BY <1>3 DEF Batches
<1>5. Batches(nb)
  BY <1>1, <1>2, <1>4 DEF Batches
<1>6. g # NoBatch /\ b[a] # NoBatch
  BY <1>2, NoBatchFacts
<1>7. SameClaims(nb, b)
  BY <1>2, <1>4, <1>6 DEF SameClaims
<1> QED
  BY <1>5, <1>7

LEMMA BatchedFacts ==
  /\ \A i : i \in Batched <=> \E a \in Actors : i \in DOMAIN batch[a]
  /\ \A i : i \in Batched' <=> \E a \in Actors : i \in DOMAIN batch'[a]
  BY DEF Batched

LEMMA SameBatched ==
  ASSUME SameClaims(batch', batch)
  PROVE  Batched' = Batched
  BY BatchedFacts DEF SameClaims

-----------------------------------------------------------------------------
(* The invariant, once more *)

Known        == DOMAIN mem \union DOMAIN file \union Batched \subseteq used
OffIsStopped == boot = "off" => Stopped
Sound        == Fits(mem, Batched, edit, lost) /\ Fits(file, Batched, edit, lost)
ManualMarked == manual # NoJob => mem[manual].mark # NoTime
Clear        == boot # "off" /\ Untouched =>
                  /\ MarksOf(mem, Batched \union {manual}, lost)
                  /\ MarksOf(file, Batched, lost)
                  /\ Agree
Ready        == boot = "up" /\ Untouched /\ tick # "run" => Planned(mem)

LEMMA Parts ==
  IInv <=> /\ TypeOK /\ Known /\ OffIsStopped /\ OneAtATime /\ Sound /\ ManualMarked
           /\ Clear /\ Ready /\ TimerIsArmed
<1>1. Held(mem, Batched) /\ Spent(mem) <=> Fits(mem, Batched, edit, lost)
  BY DEF Held, Spent, Fits, Fit
<1>2. Held(file, Batched) /\ Spent(file) <=> Fits(file, Batched, edit, lost)
  BY DEF Held, Spent, Fits, Fit
<1>3. boot # "off" /\ Untouched =>
        (Marks(mem, Batched \union {manual}) /\ Marks(file, Batched) <=>
         MarksOf(mem, Batched \union {manual}, lost) /\ MarksOf(file, Batched, lost))
  BY DEF Marks, MarksOf
<1> QED
  BY <1>1, <1>2, <1>3 DEF IInv, Known, OffIsStopped, Sound, ManualMarked, Clear, Ready

LEMMA PartsNext ==
  ASSUME TypeOK', Known', OffIsStopped', OneAtATime', Sound', ManualMarked',
         Clear', Ready', TimerIsArmed'
  PROVE  IInv'
<1>1. (Held(mem, Batched) /\ Spent(mem))'
  BY DEF Held, Spent, Fits, Fit, Sound
<1>2. (Held(file, Batched) /\ Spent(file))'
  BY DEF Held, Spent, Fits, Fit, Sound
<1>3. (boot # "off" /\ Untouched =>
         Marks(mem, Batched \union {manual}) /\ Marks(file, Batched) /\ Agree)'
  BY DEF Marks, MarksOf, Clear
<1> QED
  BY <1>1, <1>2, <1>3 DEF IInv, Known, OffIsStopped, ManualMarked, Ready

LEMMA TypeParts ==
  ASSUME TypeOK
  PROVE  /\ now \in 1 .. MaxTime /\ now \in Nat /\ now # NoTime
         /\ IsStore(mem) /\ IsStore(file)
         /\ Batches(batch)
         /\ tick \in {"idle", "load", "run", "end"}
         /\ boot \in {"off", "missed", "run", "final", "up"}
         /\ interrupted \subseteq Ids /\ lost \subseteq Ids /\ used \subseteq Ids
         /\ (tick = "run" <=> batch["tick"] # NoBatch)
         /\ (boot = "run" <=> batch["boot"] # NoBatch)
         /\ (manual # NoJob => manual \in DOMAIN mem)
         /\ edit \in [Ids -> {"none", "accepted", "rejected"}]
<1>1. now \in Nat /\ now # NoTime
  BY BoundsAssumption DEF TypeOK, NoTime
<1> QED
  BY <1>1 DEF TypeOK, Batches

(* What is claimed by one at a time is so later, if claims only end, and    *)
(* markers are only lost and edits only rejected.                           *)
LEMMA OneKept ==
  ASSUME OneAtATime,
         \A a \in Actors : DOMAIN batch'[a] \subseteq DOMAIN batch[a],
         lost \subseteq lost',
         \A i \in Ids : edit[i] = "rejected" => edit'[i] = "rejected",
         manual' = manual \/ manual' = NoJob
  PROVE  OneAtATime'
<1> SUFFICES ASSUME NEW i \in Ids \ lost', edit'[i] # "rejected"
             PROVE  /\ ~(i \in DOMAIN batch'["tick"] /\ i \in DOMAIN batch'["boot"])
                    /\ manual' = i => \A a \in Actors : i \notin DOMAIN batch'[a]
  BY DEF OneAtATime
<1>1. /\ ~(i \in DOMAIN batch["tick"] /\ i \in DOMAIN batch["boot"])
      /\ manual = i => \A a \in Actors : i \notin DOMAIN batch[a]
  BY DEF OneAtATime
<1>2. manual' = i => manual = i
  BY NoJobAssumption
<1> QED
  BY <1>1, <1>2 DEF Actors

-----------------------------------------------------------------------------
(* The start, and the steps that leave the store alone *)

LEMMA InitFits ==
  ASSUME Init
  PROVE  Fits(Initial, {}, edit, {})
<1> SUFFICES ASSUME NEW i \in DOMAIN Initial
             PROVE  Fit(Initial[i], i, {}, edit, {})
  BY DEF Fits
<1>1. Initial[i] \in Job /\ i \in Ids
  BY InitialAssumption, StoreJobs
<1>2. edit[i] = Earlier(Initial[i])
  BY <1>1 DEF Init
<1> QED
  BY <1>1, <1>2 DEF Fit, Earlier, Throws

LEMMA InitInv == Init => IInv
<1> SUFFICES ASSUME Init
             PROVE  IInv
  OBVIOUS
<1>1. /\ DOMAIN mem = {} /\ IsStore(mem) /\ IsStore(file)
      /\ batch["tick"] = NoBatch /\ batch["boot"] = NoBatch
      /\ DOMAIN batch["tick"] = {} /\ DOMAIN batch["boot"] = {}
  BY NoBatchFacts, InitialAssumption DEF Init, Actors
<1>2. Batched = {}
  BY <1>1, BatchedFacts DEF Actors
<1>3. edit \in [Ids -> {"none", "accepted", "rejected"}]
  <2>1. edit = [i \in Ids |-> IF i \in DOMAIN Initial THEN Earlier(Initial[i]) ELSE "none"]
    BY DEF Init
  <2>2. \A i \in Ids : edit[i] \in {"none", "accepted", "rejected"}
    BY <2>1 DEF Earlier
  <2> QED
    BY <2>1, <2>2
<1>4. now \in 1 .. MaxTime /\ ops \in 0 .. MaxOps /\ crashes \in 0 .. MaxCrashes
  BY BoundsAssumption DEF Init
<1>5. \A a \in Actors : DOMAIN batch[a] \subseteq Ids /\ batch[a] \in [DOMAIN batch[a] -> Claims]
  BY <1>1, NoBatchFacts DEF Actors
<1>6. used = DOMAIN file /\ used \subseteq Ids
  BY <1>1 DEF Init, IsStore
<1>7. TypeOK
  BY <1>1, <1>3, <1>4, <1>5, <1>6 DEF Init, TypeOK
<1>8. Known
  BY <1>1, <1>2, <1>6 DEF Known
<1>9. Sound
  <2>1. Fits(file, Batched, edit, lost)
    BY <1>2, InitFits DEF Init
  <2>2. Fits(mem, Batched, edit, lost)
    BY <1>1 DEF Fits
  <2> QED
    BY <2>1, <2>2 DEF Sound
<1>10. OneAtATime
  BY <1>1, NoJobAssumption DEF Init, OneAtATime
<1>11. OffIsStopped /\ ManualMarked /\ Clear /\ Ready /\ TimerIsArmed
  BY DEF Init, OffIsStopped, Stopped, ManualMarked, Clear, Ready, TimerIsArmed
<1> QED
  BY <1>7, <1>8, <1>9, <1>10, <1>11, Parts

LEMMA SameStores ==
  ASSUME IInv, TypeOK', OffIsStopped', TimerIsArmed',
         mem' = mem, file' = file, lost' = lost, edit' = edit, used' = used,
         manual' = manual, boot' = boot, tick' = tick \/ tick # "run",
         SameClaims(batch', batch)
  PROVE  IInv'
<1>1. /\ TypeOK /\ Known /\ OneAtATime /\ Sound /\ ManualMarked /\ Clear /\ Ready
  BY Parts
<1>2. Batched' = Batched
  BY SameBatched
<1>3. Untouched' = Untouched
  BY DEF Untouched
<1>4. OneAtATime'
  <2>1. \A a \in Actors : DOMAIN batch'[a] \subseteq DOMAIN batch[a]
    BY DEF SameClaims
  <2> QED
    BY <1>1, <2>1, OneKept
<1>5. Known' /\ ManualMarked'
  BY <1>1, <1>2 DEF Known, ManualMarked
<1>6. Sound'
  BY <1>1, <1>2 DEF Sound
<1>7. Agree' <=> Agree
  BY DEF Agree
<1>8. Clear'
  BY <1>1, <1>2, <1>3, <1>7 DEF Clear
<1>9. Ready'
  BY <1>1, <1>3 DEF Ready
<1> QED
  BY <1>4, <1>5, <1>6, <1>8, <1>9, PartsNext

LEMMA SameBatches ==
  ASSUME batch' = batch
  PROVE  SameClaims(batch', batch)
  BY DEF SameClaims

LEMMA TimePassesInv ==
  ASSUME IInv, TimePasses
  PROVE  IInv'
<1>1. TypeOK /\ OffIsStopped /\ TimerIsArmed
  BY Parts
<1>2. now' \in 1 .. MaxTime
  BY <1>1, BoundsAssumption DEF TypeOK, TimePasses
<1>3. TypeOK'
  BY <1>1, <1>2 DEF TypeOK, TimePasses
<1>4. OffIsStopped' /\ TimerIsArmed'
  BY <1>1 DEF TimePasses, OffIsStopped, Stopped, TimerIsArmed, Untouched, Wakes
<1>5. SameClaims(batch', batch)
  BY SameBatches DEF TimePasses
<1> QED
  BY <1>3, <1>4, <1>5, SameStores DEF TimePasses

LEMMA StutterInv ==
  ASSUME IInv, UNCHANGED vars
  PROVE  IInv'
<1>1. TypeOK /\ OffIsStopped /\ TimerIsArmed
  BY Parts
<1>3. TypeOK'
  BY <1>1 DEF TypeOK, vars
<1>4. OffIsStopped' /\ TimerIsArmed'
  BY <1>1 DEF vars, OffIsStopped, Stopped, TimerIsArmed, Untouched, Wakes
<1>5. SameClaims(batch', batch)
  BY SameBatches DEF vars
<1> QED
  BY <1>3, <1>4, <1>5, SameStores DEF vars

LEMMA FireInv ==
  ASSUME IInv, Fire
  PROVE  IInv'
<1>1. TypeOK /\ OffIsStopped /\ TimerIsArmed
  BY Parts
<1>2. batch' = batch /\ tick' = "load" /\ tick = "idle" /\ boot' = boot /\ boot # "off"
  BY <1>1 DEF Fire, OffIsStopped, Stopped
<1>3. TypeOK'
  BY <1>1, <1>2 DEF TypeOK, Fire
<1>4. OffIsStopped' /\ TimerIsArmed'
  BY <1>2 DEF OffIsStopped, TimerIsArmed
<1>5. SameClaims(batch', batch)
  BY SameBatches DEF Fire
<1> QED
  BY <1>2, <1>3, <1>4, <1>5, SameStores DEF Fire

LEMMA TickEndsInv ==
  ASSUME IInv, TickEnds
  PROVE  IInv'
<1>1. TypeOK /\ OffIsStopped /\ TimerIsArmed
  BY Parts
<1>2. batch' = batch /\ tick' = "idle" /\ tick = "end" /\ boot' = boot /\ boot # "off"
  BY <1>1 DEF TickEnds, OffIsStopped, Stopped
<1>3. armed' = Wakes(mem) /\ mem' = mem
  BY DEF TickEnds
<1>4. armed' \in BOOLEAN
  BY <1>3 DEF Wakes
<1>5. TypeOK'
  BY <1>1, <1>2, <1>4 DEF TypeOK, TickEnds
<1>6. OffIsStopped' /\ TimerIsArmed'
  BY <1>2, <1>3 DEF OffIsStopped, TimerIsArmed, Wakes
<1>7. SameClaims(batch', batch)
  BY SameBatches DEF TickEnds
<1> QED
  BY <1>2, <1>5, <1>6, <1>7, SameStores DEF TickEnds

(* A claim is replaced by one of the same job.                              *)
LEMMA ClaimStays ==
  ASSUME TypeOK, NEW a \in Actors, NEW i \in DOMAIN batch[a], NEW c \in Claims,
         batch' = [batch EXCEPT ![a] = [batch[a] EXCEPT ![i] = c]]
  PROVE  /\ Batches(batch') /\ SameClaims(batch', batch)
         /\ tick = "run" <=> batch'["tick"] # NoBatch
         /\ boot = "run" <=> batch'["boot"] # NoBatch
<1>1. Batches(batch') /\ SameClaims(batch', batch)
  BY TypeParts, RunFacts
<1> QED
  BY <1>1, TypeParts DEF SameClaims, Actors

LEMMA RunEndsInv ==
  ASSUME IInv, NEW a \in Actors, NEW i \in Ids, NEW o \in Outcomes, RunEnds(a, i, o)
  PROVE  IInv'
<1>1. TypeOK /\ OffIsStopped /\ TimerIsArmed
  BY Parts
<1> DEFINE c == [st |-> o, at |-> now]
<1>2. c \in Claims
  BY <1>1, TypeParts DEF Claims
<1>3. i \in DOMAIN batch[a] /\ batch' = [batch EXCEPT ![a] = [batch[a] EXCEPT ![i] = c]]
  BY DEF RunEnds
<1> HIDE DEF c
<1>4. /\ Batches(batch') /\ SameClaims(batch', batch)
      /\ tick = "run" <=> batch'["tick"] # NoBatch
      /\ boot = "run" <=> batch'["boot"] # NoBatch
  BY <1>1, <1>2, <1>3, ClaimStays
<1>5. TypeOK'
  BY <1>1, <1>4 DEF TypeOK, Batches, RunEnds
<1>6. OffIsStopped' /\ TimerIsArmed'
  BY <1>1 DEF RunEnds, OffIsStopped, Stopped, TimerIsArmed, Untouched, Wakes
<1> QED
  BY <1>4, <1>5, <1>6, SameStores DEF RunEnds

-----------------------------------------------------------------------------
(* The marks of runs that start *)

LEMMA TaggedAgree ==
  ASSUME NEW S, Tagged(mem', mem, S), file' = file, Agree
  PROVE  Agree'
  BY DEF Tagged, SameDomain, Agree

LEMMA OffMeansNoBatch ==
  ASSUME TypeOK, OffIsStopped, boot = "off"
  PROVE  batch["tick"] = NoBatch /\ batch["boot"] = NoBatch /\ Batched = {}
<1>1. batch["tick"] = NoBatch /\ batch["boot"] = NoBatch
  BY TypeParts DEF OffIsStopped, Stopped
<1> QED
  BY <1>1, NoBatchFacts, BatchedFacts DEF Actors

LEMMA RunStartsInv ==
  ASSUME IInv, NEW a \in Actors, NEW i \in Ids, RunStarts(a, i)
  PROVE  IInv'
<1>1. /\ TypeOK /\ Known /\ OffIsStopped /\ OneAtATime /\ Sound /\ ManualMarked
      /\ Clear /\ Ready /\ TimerIsArmed
  BY Parts
<1>2. /\ IsStore(mem) /\ now \in Nat /\ now # NoTime /\ Batches(batch)
      /\ manual # NoJob => manual \in DOMAIN mem
  BY <1>1, TypeParts
<1>3. i \in DOMAIN batch[a] /\ i \in Batched
  BY BatchedFacts DEF RunStarts
<1>4. boot # "off"
  BY <1>1, <1>3, OffMeansNoBatch
<1> DEFINE c == [batch[a][i] EXCEPT !.st = "busy"]
<1>5. c \in Claims
  <2>1. batch[a] \in [DOMAIN batch[a] -> Claims]
    BY <1>2 DEF Batches
  <2>2. batch[a][i] \in Claims
    BY <1>3, <2>1
  <2> QED
    BY <2>2 DEF Claims
<1>6. batch' = [batch EXCEPT ![a] = [batch[a] EXCEPT ![i] = c]]
  BY DEF RunStarts
<1> HIDE DEF c
<1>7. /\ Batches(batch') /\ SameClaims(batch', batch)
      /\ tick = "run" <=> batch'["tick"] # NoBatch
      /\ boot = "run" <=> batch'["boot"] # NoBatch
  BY <1>1, <1>3, <1>5, <1>6, ClaimStays
<1>8. Batched' = Batched
  BY <1>7, SameBatched
<1>9. /\ file' = file /\ lost' = lost /\ edit' = edit /\ used' = used /\ manual' = manual
      /\ boot' = boot /\ tick' = tick /\ armed' = armed
  BY DEF RunStarts
<1>10. PICK S \in SUBSET {i} : IsStore(mem') /\ Tagged(mem', mem, S)
  <2>1. CASE mem' = Marked(mem, {i})
    BY <1>2, <2>1, MarkedTags
  <2>2. CASE mem' = mem
    <3>1. Tagged(mem', mem, {})
      BY <2>2 DEF Tagged, SameDomain
    <3> QED
      BY <1>2, <2>2, <3>1
  <2> QED
    BY <2>1, <2>2 DEF RunStarts
<1>11. DOMAIN mem' = DOMAIN mem
  BY <1>10 DEF Tagged, SameDomain
<1>12. TypeOK'
  BY <1>1, <1>7, <1>10, <1>11 DEF TypeOK, Batches, RunStarts
<1>13. Known' /\ OffIsStopped'
  BY <1>1, <1>4, <1>8, <1>9, <1>11 DEF Known, OffIsStopped
<1>14. OneAtATime'
  <2>1. \A d \in Actors : DOMAIN batch'[d] \subseteq DOMAIN batch[d]
    BY <1>7 DEF SameClaims
  <2> QED
    BY <1>1, <1>9, <2>1, OneKept
<1>15. Sound'
  <2>1. Able(mem, Batched, Batched)
    BY DEF Able
  <2>2. Batched \subseteq Batched \union S
    OBVIOUS
  <2>3. Fits(mem', Batched, edit, lost)
    BY <1>1, <1>10, <2>1, <2>2, TaggedFits DEF Sound
  <2> QED
    BY <1>1, <1>8, <1>9, <2>3 DEF Sound
<1>16. ManualMarked'
  BY <1>1, <1>2, <1>9, <1>10 DEF ManualMarked, Tagged
<1>17. Clear'
  <2> SUFFICES ASSUME Untouched
               PROVE  /\ MarksOf(mem', Batched \union {manual}, lost)
                      /\ MarksOf(file, Batched, lost)
                      /\ Agree'
    BY <1>8, <1>9 DEF Clear, Untouched
  <2>1. MarksOf(mem, Batched \union {manual}, lost) /\ MarksOf(file, Batched, lost) /\ Agree
    BY <1>1, <1>4 DEF Clear
  <2>2. (Batched \union {manual}) \union S \subseteq Batched \union {manual}
    BY <1>3, <1>10
  <2>3. MarksOf(mem', Batched \union {manual}, lost)
    BY <1>10, <2>1, <2>2, TaggedMarks
  <2>4. Agree'
    BY <1>9, <1>10, <2>1, TaggedAgree
  <2> QED
    BY <2>1, <2>3, <2>4
<1>18. (Planned(mem) => Planned(mem')) /\ (Wakes(mem') => Wakes(mem))
  BY <1>10, TaggedTimes
<1>19. Ready' /\ TimerIsArmed'
  BY <1>1, <1>9, <1>18 DEF Ready, TimerIsArmed, Untouched
<1> QED
  BY <1>12, <1>13, <1>14, <1>15, <1>16, <1>17, <1>19, PartsNext

LEMMA ManualStartInv ==
  ASSUME IInv, NEW i \in Ids, ManualStart(i)
  PROVE  IInv'
<1>1. /\ TypeOK /\ Known /\ OffIsStopped /\ OneAtATime /\ Sound /\ ManualMarked
      /\ Clear /\ Ready /\ TimerIsArmed
  BY Parts
<1>2. IsStore(mem) /\ now \in Nat /\ now # NoTime
  BY <1>1, TypeParts
<1>3. /\ boot # "off" /\ manual = NoJob /\ i \in DOMAIN mem /\ mem[i].mark = NoTime
      /\ manual' = i
  BY DEF ManualStart, Operation, LockFree
<1>4. /\ file' = file /\ lost' = lost /\ edit' = edit /\ used' = used /\ batch' = batch
      /\ boot' = boot /\ tick' = tick /\ armed' = armed
  BY DEF ManualStart
<1>5. Batched' = Batched
  BY <1>4 DEF Batched
<1>6. IsStore(mem') /\ Tagged(mem', mem, {i})
  BY <1>2, MarkedTags DEF ManualStart
<1>7. DOMAIN mem' = DOMAIN mem /\ mem'[i].mark # NoTime
  BY <1>3, <1>6 DEF Tagged, SameDomain
<1>8. ops' \in 0 .. MaxOps
  BY <1>1, BoundsAssumption DEF TypeOK, ManualStart, Operation
<1>9. TypeOK'
  BY <1>1, <1>3, <1>6, <1>7, <1>8 DEF TypeOK, ManualStart
<1>10. Known' /\ OffIsStopped' /\ ManualMarked'
  BY <1>1, <1>3, <1>4, <1>5, <1>7 DEF Known, OffIsStopped, ManualMarked
<1>11. OneAtATime'
  <2>1. Fit(mem[i], i, Batched, edit, lost)
    BY <1>1, <1>3 DEF Sound, Fits
  <2>2. edit[i] # "rejected" /\ i \notin lost => i \notin Batched
    BY <1>3, <2>1 DEF Fit
  <2> SUFFICES ASSUME NEW k \in Ids \ lost, edit[k] # "rejected"
               PROVE  /\ ~(k \in DOMAIN batch["tick"] /\ k \in DOMAIN batch["boot"])
                      /\ i = k => \A a \in Actors : k \notin DOMAIN batch[a]
    BY <1>3, <1>4 DEF OneAtATime
  <2> QED
    BY <1>1, <2>2, BatchedFacts DEF OneAtATime
<1>12. Sound'
  <2>1. Able(mem, Batched, Batched)
    BY DEF Able
  <2>2. Batched \subseteq Batched \union {i}
    OBVIOUS
  <2>3. Fits(mem', Batched, edit, lost)
    BY <1>1, <1>6, <2>1, <2>2, TaggedFits DEF Sound
  <2> QED
    BY <1>1, <1>4, <1>5, <2>3 DEF Sound
<1>13. Clear'
  <2> SUFFICES ASSUME Untouched
               PROVE  /\ MarksOf(mem', Batched \union {i}, lost)
                      /\ MarksOf(file, Batched, lost)
                      /\ Agree'
    BY <1>3, <1>4, <1>5 DEF Clear, Untouched
  <2>1. MarksOf(mem, Batched \union {manual}, lost) /\ MarksOf(file, Batched, lost) /\ Agree
    BY <1>1, <1>3 DEF Clear
  <2>2. MarksOf(mem, Batched \union {i}, lost)
    <3>1. DOMAIN mem \subseteq Ids
      BY <1>2 DEF IsStore
    <3> QED
      BY <1>3, <2>1, <3>1, NoJobAssumption DEF MarksOf
  <2>3. (Batched \union {i}) \union {i} \subseteq Batched \union {i}
    OBVIOUS
  <2>4. MarksOf(mem', Batched \union {i}, lost)
    BY <1>6, <2>2, <2>3, TaggedMarks
  <2>5. Agree'
    BY <1>4, <1>6, <2>1, TaggedAgree
  <2> QED
    BY <2>1, <2>4, <2>5
<1>14. (Planned(mem) => Planned(mem')) /\ (Wakes(mem') => Wakes(mem))
  BY <1>6, TaggedTimes
<1>15. Ready' /\ TimerIsArmed'
  BY <1>1, <1>4, <1>14 DEF Ready, TimerIsArmed, Untouched
<1> QED
  BY <1>9, <1>10, <1>11, <1>12, <1>13, <1>15, PartsNext

-----------------------------------------------------------------------------
(* Loading, claiming, dying *)

LEMMA MarksMore ==
  ASSUME NEW s, NEW C, NEW C2, NEW l, MarksOf(s, C, l), C \subseteq C2
  PROVE  MarksOf(s, C2, l)
  BY DEF MarksOf

LEMMA MarksNoJob ==
  ASSUME NEW s, IsStore(s), NEW C, NEW l, MarksOf(s, C \union {NoJob}, l)
  PROVE  MarksOf(s, C, l)
<1>1. DOMAIN s \subseteq Ids
  BY DEF IsStore
<1> QED
  BY <1>1, NoJobAssumption DEF MarksOf

LEMMA SavedAgrees ==
  ASSUME file' = mem'
  PROVE  Agree'
  BY DEF Agree

(* While no update was thrown out halfway, no schedule is malformed.        *)
LEMMA UntouchedCalm ==
  ASSUME Untouched, NEW s, IsStore(s), NEW C, NEW l, Fits(s, C, edit, l)
  PROVE  Calm(s)
<1>1. DOMAIN s \subseteq Ids
  BY DEF IsStore
<1> QED
  BY <1>1 DEF Untouched, Fits, Fit, Calm

LEMMA BootLoadInv ==
  ASSUME IInv, BootLoad
  PROVE  IInv'
<1>1. TypeOK /\ Known /\ OffIsStopped /\ OneAtATime /\ Sound
  BY Parts
<1>2. IsStore(file)
  BY <1>1, TypeParts
<1>3. /\ boot = "off" /\ boot' = "missed" /\ file' = mem'
      /\ lost' = lost /\ edit' = edit /\ used' = used /\ batch' = batch
      /\ tick' = tick /\ manual' = manual
  BY DEF BootLoad
<1>4. batch["tick"] = NoBatch /\ batch["boot"] = NoBatch /\ Batched = {}
  BY <1>1, <1>3, OffMeansNoBatch
<1>5. manual = NoJob /\ tick = "idle"
  BY <1>1, <1>3 DEF OffIsStopped, Stopped
<1>6. Batched' = {}
  BY <1>3, <1>4 DEF Batched
<1>7. mem' = [i \in DOMAIN file |-> [file[i] EXCEPT !.mark = NoTime]]
  BY DEF BootLoad
<1>8. DOMAIN mem' = DOMAIN file
  BY <1>7
<1>9. ASSUME NEW i \in DOMAIN file
      PROVE  /\ mem'[i] \in Job
             /\ mem'[i].kind = file[i].kind /\ mem'[i].status = file[i].status
             /\ mem'[i].enabled = file[i].enabled /\ mem'[i].mark = NoTime
  <2> DEFINE j == file[i]
             v == [j EXCEPT !.mark = NoTime]
  <2>1. j \in Job
    BY <1>2, StoreJobs
  <2>2. mem'[i] = v
    BY <1>7
  <2> HIDE DEF j
  <2>3. v \in Job
    BY <2>1 DEF Job, NoTime
  <2>4. v.kind = j.kind /\ v.status = j.status /\ v.enabled = j.enabled /\ v.mark = NoTime
    BY <2>1 DEF Job
  <2> HIDE DEF v
  <2> QED
    BY <2>2, <2>3, <2>4 DEF j
<1>10. IsStore(mem')
  BY <1>2, <1>7, <1>8, <1>9 DEF IsStore
<1>11. interrupted' \subseteq Ids
  BY <1>2 DEF BootLoad, IsStore
<1>12. TypeOK'
  BY <1>1, <1>3, <1>4, <1>5, <1>10, <1>11 DEF TypeOK, BootLoad
<1>13. Known' /\ OffIsStopped' /\ ManualMarked' /\ Ready' /\ TimerIsArmed'
  BY <1>1, <1>3, <1>5, <1>6, <1>8 DEF Known, OffIsStopped, ManualMarked, Ready, TimerIsArmed
<1>14. OneAtATime'
  <2>1. \A a \in Actors : DOMAIN batch'[a] \subseteq DOMAIN batch[a]
    BY <1>3
  <2> QED
    BY <1>1, <1>3, <2>1, OneKept
<1>15. Sound'
  <2>1. Fits(mem', {}, edit, lost)
    <3> SUFFICES ASSUME NEW i \in DOMAIN file
                 PROVE  Fit(mem'[i], i, {}, edit, lost)
      BY <1>8 DEF Fits
    <3>1. Fit(file[i], i, Batched, edit, lost)
      BY <1>1 DEF Sound, Fits
    <3> QED
      BY <1>9, <3>1 DEF Fit, Throws
  <2> QED
    BY <1>3, <1>6, <2>1 DEF Sound
<1>16. Clear'
  <2>1. MarksOf(mem', Batched' \union {manual'}, lost') /\ MarksOf(file', Batched', lost')
    BY <1>3, <1>8, <1>9 DEF MarksOf
  <2>2. Agree'
    BY <1>3, SavedAgrees
  <2> QED
    BY <2>1, <2>2 DEF Clear
<1> QED
  BY <1>12, <1>13, <1>14, <1>15, <1>16, PartsNext

(* A tick or the catch-up claims the jobs S of a store and saves it.        *)
LEMMA Claiming ==
  ASSUME TypeOK, OneAtATime, NEW a \in Actors, batch[a] = NoBatch,
         NEW s, IsStore(s), Fits(s, Batched, edit, lost),
         NEW S, S # {}, S \subseteq DOMAIN s, \A i \in S : Runnable(s[i]),
         batch' = [batch EXCEPT ![a] = Claim(S)], mem' = Marked(s, S), file' = mem',
         manual = NoJob, manual' = NoJob, lost' = lost, edit' = edit
  PROVE  /\ IsStore(mem') /\ DOMAIN mem' = DOMAIN s /\ Batches(batch')
         /\ batch'[a] # NoBatch /\ OnlyBatch(batch', batch, a)
         /\ Batched' \subseteq Batched \union S
         /\ OneAtATime' /\ Sound'
         /\ MarksOf(s, Batched, lost) => MarksOf(mem', Batched', lost')
<1>1. now \in Nat /\ now # NoTime /\ Batches(batch)
  BY TypeParts
<1>2. IsStore(mem') /\ Tagged(mem', s, S)
  BY <1>1, MarkedTags
<1>3. DOMAIN mem' = DOMAIN s
  BY <1>2 DEF Tagged, SameDomain
<1>4. S \subseteq Ids
  BY DEF IsStore
<1>5. Batches(batch') /\ DOMAIN batch'[a] = S /\ batch'[a] # NoBatch /\ OnlyBatch(batch', batch, a)
  <2>1. /\ Batches(batch) /\ a \in Actors /\ S \subseteq Ids /\ S # {}
        /\ Put(batch', batch, a, Claim(S))
    BY <1>1, <1>4 DEF Put
  <2> QED
    BY ONLY <2>1, ClaimFacts
<1>6. DOMAIN batch[a] = {}
  BY NoBatchFacts
<1>7. Batched' \subseteq Batched \union S /\ Batched \union S \subseteq Batched'
  BY <1>5, <1>6, BatchedFacts DEF OnlyBatch
<1>8. OneAtATime'
  <2> SUFFICES ASSUME NEW i \in Ids \ lost, edit[i] # "rejected"
               PROVE  ~(i \in DOMAIN batch'["tick"] /\ i \in DOMAIN batch'["boot"])
    BY NoJobAssumption DEF OneAtATime
  <2>1. CASE i \in S
    <3>1. Fit(s[i], i, Batched, edit, lost) /\ s[i].mark = NoTime
      BY <2>1 DEF Fits, Runnable
    <3>2. i \notin Batched
      BY <3>1 DEF Fit
    <3>3. \A c \in Actors : i \notin DOMAIN batch[c]
      BY <3>2, BatchedFacts
    <3> QED
      BY <1>5, <3>3 DEF OnlyBatch, Actors
  <2>2. CASE i \notin S
    <3>1. i \notin DOMAIN batch'[a]
      BY <1>5, <2>2
    <3> QED
      BY <1>5, <3>1 DEF OnlyBatch, Actors
  <2> QED
    BY <2>1, <2>2
<1>9. Sound'
  <2>1. Able(s, Batched, Batched')
    BY <1>7 DEF Able, Runnable
  <2>2. Fits(mem', Batched', edit, lost)
    BY <1>2, <1>7, <2>1, TaggedFits
  <2> QED
    BY <2>2 DEF Sound
<1>10. MarksOf(s, Batched, lost) => MarksOf(mem', Batched', lost')
  BY <1>2, <1>7, TaggedMarks
<1> QED
  BY <1>2, <1>3, <1>5, <1>7, <1>8, <1>9, <1>10

LEMMA TickLoadInv ==
  ASSUME IInv, TickLoad
  PROVE  IInv'
<1>1. /\ TypeOK /\ Known /\ OffIsStopped /\ OneAtATime /\ Sound /\ Clear
  BY Parts
<1>2. /\ IsStore(file) /\ now \in Nat /\ now # NoTime
      /\ batch["tick"] = NoBatch /\ lost \subseteq Ids
      /\ tick = "load"
  BY <1>1, TypeParts DEF TickLoad
<1>3. /\ file' = mem' /\ edit' = edit /\ used' = used /\ boot' = boot
      /\ manual = NoJob /\ manual' = NoJob
  BY DEF TickLoad, LockFree
<1>4. boot # "off"
  BY <1>1, <1>2 DEF OffIsStopped, Stopped
<1>5. Fits(file, Batched, edit, lost)
  BY <1>1 DEF Sound
<1>6. Untouched => MarksOf(file, Batched, lost)
  BY <1>1, <1>4 DEF Clear
<1>7. OffIsStopped' /\ ManualMarked'
  BY <1>3, <1>4 DEF OffIsStopped, ManualMarked
<1> DEFINE due == {i \in DOMAIN file : Runnable(file[i])}
<1>8. CASE due = {}
  <2>1. /\ mem' = Maintain(file, now) /\ lost' = lost \union Stuck(file)
        /\ tick' = "end" /\ batch' = batch
    BY <1>8 DEF TickLoad
  <2>2. IsStore(mem') /\ Kept(mem', file, now)
    BY <1>2, <2>1, MaintainKeeps
  <2>3. DOMAIN mem' = DOMAIN file /\ Batched' = Batched
    BY <2>1, <2>2 DEF Kept, SameDomain, Batched
  <2>4. lost \subseteq lost' /\ StuckAt(file, now) \subseteq lost' /\ lost' \subseteq Ids
    BY <1>2, <2>1 DEF Stuck, StuckAt, IsStore
  <2>5. TypeOK'
    BY <1>1, <1>2, <1>3, <2>1, <2>2, <2>4 DEF TypeOK, TickLoad
  <2>6. Known'
    BY <1>1, <1>3, <2>3 DEF Known
  <2>7. OneAtATime'
    <3>1. \A a \in Actors : DOMAIN batch'[a] \subseteq DOMAIN batch[a]
      BY <2>1
    <3> QED
      BY <1>1, <1>3, <2>4, <3>1, OneKept
  <2>8. Fits(mem', Batched, edit, lost')
    BY <1>5, <2>2, <2>4, KeptFits
  <2>9. Sound'
    BY <1>3, <2>3, <2>8 DEF Sound
  <2>10. Clear'
    <3> SUFFICES ASSUME Untouched
                 PROVE  /\ MarksOf(mem', Batched \union {manual'}, lost')
                        /\ MarksOf(mem', Batched, lost')
                        /\ Agree'
      BY <1>3, <2>3 DEF Clear, Untouched
    <3>1. MarksOf(mem', Batched, lost')
      BY <1>6, <2>2, <2>4, KeptMarks
    <3>2. Batched \subseteq Batched \union {manual'}
      OBVIOUS
    <3> QED
      BY <1>3, <3>1, <3>2, MarksMore, SavedAgrees
  <2>11. Ready' /\ TimerIsArmed'
    <3>1. Untouched => Planned(mem')
      BY <1>2, <1>5, <2>2, UntouchedCalm, KeptPlanned
    <3> QED
      BY <1>3, <2>1, <3>1 DEF Ready, TimerIsArmed, Untouched
  <2> QED
    BY <1>7, <2>5, <2>6, <2>7, <2>9, <2>10, <2>11, PartsNext
<1>9. CASE due # {}
  <2>1. /\ mem' = Marked(file, due) /\ batch' = [batch EXCEPT !["tick"] = Claim(due)]
        /\ tick' = "run" /\ linked' = TRUE /\ lost' = lost
    BY <1>9 DEF TickLoad
  <2>2. due \subseteq DOMAIN file /\ \A i \in due : Runnable(file[i])
    OBVIOUS
  <2> HIDE DEF due
  <2>3. "tick" \in Actors
    BY DEF Actors
  <2>4. /\ IsStore(mem') /\ DOMAIN mem' = DOMAIN file /\ Batches(batch')
        /\ batch'["tick"] # NoBatch /\ OnlyBatch(batch', batch, "tick")
        /\ Batched' \subseteq Batched \union due
        /\ OneAtATime' /\ Sound'
        /\ MarksOf(file, Batched, lost) => MarksOf(mem', Batched', lost')
    BY <1>1, <1>2, <1>3, <1>5, <1>9, <2>1, <2>2, <2>3, Claiming
  <2>5. batch'["boot"] = batch["boot"]
    BY <2>4 DEF OnlyBatch, Actors
  <2>6. TypeOK'
    BY <1>1, <1>3, <2>1, <2>4, <2>5 DEF TypeOK, Batches, TickLoad
  <2>7. Known'
    BY <1>1, <1>3, <2>2, <2>4 DEF Known
  <2>8. Clear'
    <3> SUFFICES ASSUME Untouched
                 PROVE  /\ MarksOf(mem', Batched' \union {manual'}, lost')
                        /\ MarksOf(mem', Batched', lost')
                        /\ Agree'
      BY <1>3 DEF Clear, Untouched
    <3>1. MarksOf(mem', Batched', lost')
      BY <1>6, <2>4
    <3>2. Batched' \subseteq Batched' \union {manual'}
      OBVIOUS
    <3> QED
      BY <1>3, <3>1, <3>2, MarksMore, SavedAgrees
  <2>9. Ready' /\ TimerIsArmed'
    BY <2>1 DEF Ready, TimerIsArmed
  <2> QED
    BY <1>7, <2>4, <2>6, <2>7, <2>8, <2>9, PartsNext
<1> QED
  BY <1>8, <1>9

LEMMA BootMissedInv ==
  ASSUME IInv, BootMissed
  PROVE  IInv'
<1>1. /\ TypeOK /\ Known /\ OffIsStopped /\ OneAtATime /\ Sound /\ ManualMarked /\ Clear
  BY Parts
<1>2. /\ IsStore(mem) /\ boot = "missed" /\ batch["boot"] = NoBatch
  BY <1>1, TypeParts DEF BootMissed
<1>3. /\ lost' = lost /\ edit' = edit /\ used' = used /\ tick' = tick
      /\ manual = NoJob /\ manual' = NoJob
  BY DEF BootMissed, LockFree
<1>4. boot' \in {"final", "run"}
  BY DEF BootMissed
<1>5. Fits(mem, Batched, edit, lost)
  BY <1>1 DEF Sound
<1>6. Untouched => MarksOf(mem, Batched, lost)
  BY <1>1, <1>2, <1>3, MarksNoJob DEF Clear
<1>7. OffIsStopped' /\ ManualMarked' /\ Ready' /\ TimerIsArmed'
  BY <1>3, <1>4 DEF OffIsStopped, ManualMarked, Ready, TimerIsArmed
<1> DEFINE missed == {i \in DOMAIN mem \ interrupted :
                        Runnable(mem[i]) /\ (mem[i].kind = "at" => mem[i].status = "none")}
<1>8. CASE missed = {}
  <2>1. boot' = "final" /\ mem' = mem /\ file' = file /\ batch' = batch
    BY <1>8 DEF BootMissed
  <2>2. TypeOK'
    BY <1>1, <1>2, <1>3, <2>1 DEF TypeOK, BootMissed
  <2>3. Batched' = Batched
    BY <2>1 DEF Batched
  <2>4. Known' /\ Sound'
    BY <1>1, <1>3, <2>1, <2>3 DEF Known, Sound
  <2>5. OneAtATime'
    BY <1>1, <1>3, <2>1 DEF OneAtATime
  <2>6. Clear'
    BY <1>1, <1>2, <1>3, <2>1, <2>3 DEF Clear, Untouched, Agree
  <2> QED
    BY <1>7, <2>2, <2>4, <2>5, <2>6, PartsNext
<1>9. CASE missed # {}
  <2>1. /\ mem' = Marked(mem, missed) /\ file' = mem'
        /\ batch' = [batch EXCEPT !["boot"] = Claim(missed)] /\ boot' = "run"
    BY <1>9 DEF BootMissed
  <2>2. missed \subseteq DOMAIN mem /\ \A i \in missed : Runnable(mem[i])
    OBVIOUS
  <2> HIDE DEF missed
  <2>3. "boot" \in Actors
    BY DEF Actors
  <2>4. /\ IsStore(mem') /\ DOMAIN mem' = DOMAIN mem /\ Batches(batch')
        /\ batch'["boot"] # NoBatch /\ OnlyBatch(batch', batch, "boot")
        /\ Batched' \subseteq Batched \union missed
        /\ OneAtATime' /\ Sound'
        /\ MarksOf(mem, Batched, lost) => MarksOf(mem', Batched', lost')
    BY <1>1, <1>2, <1>3, <1>5, <1>9, <2>1, <2>2, <2>3, Claiming
  <2>5. batch'["tick"] = batch["tick"]
    BY <2>4 DEF OnlyBatch, Actors
  <2>6. TypeOK'
    BY <1>1, <1>3, <2>1, <2>4, <2>5 DEF TypeOK, Batches, BootMissed
  <2>7. Known'
    BY <1>1, <1>3, <2>1, <2>2, <2>4 DEF Known
  <2>8. Clear'
    <3> SUFFICES ASSUME Untouched
                 PROVE  /\ MarksOf(mem', Batched' \union {manual'}, lost')
                        /\ MarksOf(mem', Batched', lost')
                        /\ Agree'
      BY <1>3, <2>1 DEF Clear, Untouched
    <3>1. MarksOf(mem', Batched', lost')
      BY <1>6, <2>4
    <3>2. Batched' \subseteq Batched' \union {manual'}
      OBVIOUS
    <3> QED
      BY <2>1, <3>1, <3>2, MarksMore, SavedAgrees
  <2> QED
    BY <1>7, <2>4, <2>6, <2>7, <2>8, PartsNext
<1> QED
  BY <1>8, <1>9

LEMMA BootFinalInv ==
  ASSUME IInv, BootFinal
  PROVE  IInv'
<1>1. /\ TypeOK /\ Known /\ OffIsStopped /\ OneAtATime /\ Sound /\ Clear
  BY Parts
<1>2. /\ IsStore(file) /\ now \in Nat /\ boot = "final" /\ batch["boot"] = NoBatch
      /\ lost \subseteq Ids
  BY <1>1, TypeParts DEF BootFinal
<1>3. /\ edit' = edit /\ used' = used /\ tick' = tick /\ batch' = batch
      /\ manual = NoJob /\ manual' = NoJob /\ boot' = "up"
      /\ mem' = Recompute(file, now) /\ file' = mem' /\ lost' = lost \union Stuck(file)
      /\ armed' = Wakes(mem') /\ interrupted' = {} /\ linked' = FALSE
  BY DEF BootFinal, LockFree
<1>4. IsStore(mem') /\ Kept(mem', file, now)
  BY <1>2, <1>3, RecomputeKeeps
<1>5. DOMAIN mem' = DOMAIN file /\ Batched' = Batched
  BY <1>3, <1>4 DEF Kept, SameDomain, Batched
<1>6. lost \subseteq lost' /\ StuckAt(file, now) \subseteq lost' /\ lost' \subseteq Ids
  BY <1>2, <1>3 DEF Stuck, StuckAt, IsStore
<1>7. armed' \in BOOLEAN
  BY <1>3 DEF Wakes
<1>8. TypeOK'
  BY <1>1, <1>2, <1>3, <1>4, <1>6, <1>7 DEF TypeOK, BootFinal
<1>9. Known' /\ OffIsStopped' /\ ManualMarked'
  BY <1>1, <1>3, <1>5 DEF Known, OffIsStopped, ManualMarked
<1>10. OneAtATime'
  <2>1. \A a \in Actors : DOMAIN batch'[a] \subseteq DOMAIN batch[a]
    BY <1>3
  <2> QED
    BY <1>1, <1>3, <1>6, <2>1, OneKept
<1>11. Fits(file, Batched, edit, lost)
  BY <1>1 DEF Sound
<1>12. Sound'
  <2>1. Fits(mem', Batched, edit, lost')
    BY <1>4, <1>6, <1>11, KeptFits
  <2> QED
    BY <1>3, <1>5, <2>1 DEF Sound
<1>13. Clear'
  <2> SUFFICES ASSUME Untouched
               PROVE  /\ MarksOf(mem', Batched \union {manual'}, lost')
                      /\ MarksOf(mem', Batched, lost')
                      /\ Agree'
    BY <1>3, <1>5 DEF Clear, Untouched
  <2>1. MarksOf(file, Batched, lost)
    BY <1>1, <1>2 DEF Clear
  <2>2. MarksOf(mem', Batched, lost')
    BY <1>4, <1>6, <2>1, KeptMarks
  <2>3. Batched \subseteq Batched \union {manual'}
    OBVIOUS
  <2> QED
    BY <1>3, <2>2, <2>3, MarksMore, SavedAgrees
<1>14. Ready'
  <2>1. Untouched => Planned(mem')
    BY <1>2, <1>4, <1>11, UntouchedCalm, KeptPlanned
  <2> QED
    BY <1>3, <2>1 DEF Ready, Untouched
<1>15. TimerIsArmed'
  BY <1>3 DEF TimerIsArmed, Wakes
<1> QED
  BY <1>8, <1>9, <1>10, <1>12, <1>13, <1>14, <1>15, PartsNext

LEMMA FitsLess ==
  ASSUME NEW s, NEW C, NEW C2, NEW e, NEW l, NEW l2, Fits(s, C, e, l), C2 \ l2 \subseteq C \ l
  PROVE  Fits(s, C2, e, l2)
<1> SUFFICES ASSUME NEW i \in DOMAIN s
             PROVE  Fit(s[i], i, C2, e, l2)
  BY DEF Fits
<1>1. Fit(s[i], i, C, e, l)
  BY DEF Fits
<1> QED
  BY <1>1 DEF Fit

LEMMA CrashInv ==
  ASSUME IInv, Crash
  PROVE  IInv'
<1>1. TypeOK /\ Known /\ Sound
  BY Parts
<1>2. /\ mem' = <<>> /\ armed' = FALSE /\ tick' = "idle" /\ boot' = "off"
      /\ interrupted' = {} /\ linked' = FALSE /\ manual' = NoJob /\ lost' = {}
      /\ now' = now /\ file' = file /\ edit' = edit /\ used' = used /\ ops' = ops
      /\ batch' = [a \in Actors |-> NoBatch]
  BY DEF Crash
<1>3. DOMAIN mem' = {} /\ IsStore(mem')
  BY <1>2, NoBatchFacts DEF NoBatch
<1>4. /\ DOMAIN batch' = Actors
      /\ \A a \in Actors : batch'[a] = NoBatch
  BY <1>2
<1>5. \A a \in Actors : DOMAIN batch'[a] = {} /\ batch'[a] \in [DOMAIN batch'[a] -> Claims]
  BY <1>4, NoBatchFacts
<1>6. Batched' = {}
  BY <1>5, BatchedFacts
<1>7. crashes' \in 0 .. MaxCrashes
  BY <1>1, BoundsAssumption DEF TypeOK, Crash
<1>8. TypeOK'
  BY <1>1, <1>2, <1>3, <1>4, <1>5, <1>7 DEF TypeOK, Actors
<1>9. Known' /\ OffIsStopped' /\ ManualMarked' /\ Clear' /\ Ready' /\ TimerIsArmed'
  BY <1>1, <1>2, <1>3, <1>6 DEF Known, OffIsStopped, Stopped, ManualMarked, Clear, Ready, TimerIsArmed
<1>10. OneAtATime'
  BY <1>2, <1>5, NoJobAssumption DEF OneAtATime, Actors
<1>11. Sound'
  <2>1. Fits(mem', {}, edit, {})
    BY <1>3 DEF Fits
  <2>2. Fits(file, {}, edit, {})
    BY <1>1, FitsLess DEF Sound
  <2> QED
    BY <1>2, <1>6, <2>1, <2>2 DEF Sound
<1> QED
  BY <1>8, <1>9, <1>10, <1>11, PartsNext

-----------------------------------------------------------------------------
(* The results of a batch *)

(* A next run that is in the file, of a job without a result, is kept.      *)
FileNextKept(b) ==
  \A i \in DOMAIN mem' :
    i \notin DOMAIN b /\ file[i].enabled /\ file[i].next # NoTime => mem'[i].next = file[i].next

LEMMA SettledNextKept ==
  ASSUME NEW b, NEW s, Settles(s, file, DOMAIN b \intersect DOMAIN file), NextsKept(mem', s)
  PROVE  FileNextKept(b)
  BY DEF Settles, NextsKept, NextKept, SameDomain, FileNextKept

LEMMA Applying ==
  ASSUME TypeOK, OneAtATime, Sound, NEW a \in Actors,
         Is(batch[a], Outcomes), ApplyResults(batch[a]), Put(batch', batch, a, NoBatch),
         manual = NoJob, manual' = NoJob, edit' = edit
  PROVE  /\ IsStore(mem') /\ IsStore(file') /\ Batches(batch')
         /\ batch'[a] = NoBatch /\ OnlyBatch(batch', batch, a)
         /\ DOMAIN mem' \subseteq DOMAIN file /\ DOMAIN file' \subseteq DOMAIN file
         /\ Batched' \subseteq Batched /\ lost' \subseteq Ids
         /\ OneAtATime' /\ Sound'
         /\ Untouched /\ MarksOf(file, Batched, lost) => MarksOf(mem', Batched', lost')
         /\ Untouched => file' = mem' /\ Planned(mem') /\ FileNextKept(batch[a])
<1> DEFINE b == batch[a]
           known == DOMAIN b \intersect DOMAIN file
           broken == {i \in known : Throws(file[i])}
<1>1. /\ now \in Nat /\ IsStore(file) /\ Batches(batch) /\ lost \subseteq Ids
  BY TypeParts
<1>2. Batches(batch') /\ batch'[a] = NoBatch /\ DOMAIN batch'[a] = {} /\ OnlyBatch(batch', batch, a)
  BY <1>1, DropFacts
<1>3. \A d \in Actors : DOMAIN batch'[d] \subseteq DOMAIN batch[d]
  BY <1>2 DEF OnlyBatch
<1>4. Batched' \subseteq Batched /\ Batched \ DOMAIN b \subseteq Batched'
  BY <1>2, <1>3, BatchedFacts DEF OnlyBatch
<1>5. Fits(file, Batched, edit, lost)
  BY DEF Sound
<1>6. known \subseteq Ids /\ known \subseteq DOMAIN file /\ known \subseteq DOMAIN b
  BY <1>1 DEF IsStore
<1>7. Away(known, Batched', edit, lost)
  <2> SUFFICES ASSUME NEW i \in known, edit[i] # "rejected", i \notin lost, NEW d \in Actors,
                      i \in DOMAIN batch'[d]
               PROVE  FALSE
    BY BatchedFacts DEF Away
  <2>1. d # a /\ i \in DOMAIN batch[d] /\ i \in DOMAIN batch[a] /\ i \in Ids
    BY <1>2, <1>3, <1>6
  <2> QED
    BY <2>1 DEF OneAtATime, Actors
<1>8. Over(b, known)
  <2>1. b \in [DOMAIN b -> Claims]
    BY <1>1 DEF Batches
  <2>2. \A i \in DOMAIN b : b[i] \in Claims /\ b[i].st \in Outcomes
    BY <2>1 DEF Is
  <2> QED
    BY <1>6, <2>2 DEF Over, Claims
<1>9. CASE broken = {}
  <2> DEFINE s == Settled(file, b, known)
  <2>1. mem' = Maintain(s, now) /\ file' = mem' /\ lost' = lost \union (Stuck(file) \ known)
    BY <1>9 DEF ApplyResults
  <2>2. Sane(file, known)
    BY <1>6, <1>9 DEF Sane
  <2> HIDE DEF b, known, broken
  <2>3. IsStore(s) /\ Settles(s, file, known)
    BY <1>1, <1>8, <2>2, SettledFacts
  <2> HIDE DEF s
  <2>4. IsStore(mem') /\ Kept(mem', s, now) /\ NextsKept(mem', s)
    BY <1>1, <2>1, <2>3, MaintainKeeps
  <2>5. DOMAIN mem' \subseteq DOMAIN file
    BY <2>3, <2>4 DEF Kept, SameDomain, Settles
  <2>6. StuckAt(s, now) \subseteq StuckAt(file, now) \ known
    BY <2>3, SettlesStuck
  <2>7. lost \subseteq lost' /\ StuckAt(s, now) \subseteq lost' /\ lost' \subseteq Ids
    BY <1>1, <2>1, <2>6 DEF Stuck, StuckAt, IsStore
  <2>8. Fits(s, Batched', edit, lost)
    BY <1>4, <1>5, <1>7, <2>3, SettlesFits
  <2>9. Fits(mem', Batched', edit, lost')
    BY <2>4, <2>7, <2>8, KeptFits
  <2>10. Sound'
    BY <2>1, <2>9 DEF Sound
  <2>11. OneAtATime'
    BY <1>3, <2>7, OneKept
  <2>12. MarksOf(file, Batched, lost) => MarksOf(mem', Batched', lost')
    <3>1. DOMAIN s \subseteq DOMAIN file
      BY <2>3 DEF Settles
    <3>2. Leaves(Batched, known, s, Batched')
      BY <1>4, <3>1 DEF known, Leaves
    <3>3. MarksOf(file, Batched, lost) => MarksOf(s, Batched', lost)
      BY <2>3, <3>2, SettlesMarks
    <3> QED
      BY <2>4, <2>7, <3>3, KeptMarks
  <2>13. Untouched => Planned(mem')
    BY <2>3, <2>4, <2>8, UntouchedCalm, KeptPlanned
  <2>14. FileNextKept(b)
    BY <2>3, <2>4, SettledNextKept DEF known
  <2> QED
    BY <1>2, <1>4, <2>1, <2>4, <2>5, <2>7, <2>10, <2>11, <2>12, <2>13, <2>14 DEF b
<1>10. CASE broken # {}
  <2>1. PICK i \in broken, S \in SUBSET (known \ broken) :
          mem' = [Settled(file, b, S) EXCEPT ![i] = Noted(@, b[i].st)]
    BY <1>10 DEF ApplyResults
  <2>2. file' = file /\ lost' = lost
    BY <1>10 DEF ApplyResults
  <2> DEFINE s == Settled(file, b, S)
             o == b[i].st
  <2>3. i \in known /\ Throws(file[i]) /\ S \subseteq known /\ i \notin S /\ o \in Outcomes
    BY <1>8, <2>1 DEF Over
  <2>4. Sane(file, S)
    BY <1>6, <2>1 DEF Sane
  <2>5. Over(b, S)
    BY <1>8, <2>3 DEF Over
  <2>6. mem' = [s EXCEPT ![i] = Noted(s[i], o)]
    BY <2>1
  <2> HIDE DEF b, known, broken, o
  <2>7. IsStore(s) /\ Settles(s, file, S)
    BY <1>1, <2>4, <2>5, SettledFacts
  <2> HIDE DEF s
  <2>8. i \in DOMAIN s /\ i \in Ids /\ edit[i] = "rejected"
    <3>1. i \in DOMAIN file /\ Fit(file[i], i, Batched, edit, lost)
      BY <1>5, <1>6, <2>3 DEF Fits
    <3>2. i \in DOMAIN s
      BY <2>3, <2>7, <3>1 DEF Settles
    <3> QED
      BY <1>6, <2>3, <3>1, <3>2 DEF Fit
  <2>9. ~Untouched
    BY <2>8 DEF Untouched
  <2>10. Noted(s[i], o) \in Job
    <3>1. s[i] \in Job
      BY <2>7, <2>8, StoreJobs
    <3> QED
      BY <2>3, <3>1, NotedFacts
  <2> DEFINE v == Noted(s[i], o)
  <2> HIDE DEF v
  <2>11. mem' = [s EXCEPT ![i] = v] /\ v \in Job
    BY <2>6, <2>10 DEF v
  <2>12. DOMAIN mem' = DOMAIN s /\ \A k \in DOMAIN s : k # i => mem'[k] = s[k]
    BY <2>11
  <2>13. IsStore(mem')
    BY <2>7, <2>11 DEF IsStore
  <2>14. DOMAIN mem' \subseteq DOMAIN file
    BY <2>7, <2>12 DEF Settles
  <2>15. Fits(mem', Batched', edit, lost)
    <3>1. Away(S, Batched', edit, lost)
      BY <1>7, <2>3 DEF Away
    <3>2. Fits(s, Batched', edit, lost)
      BY <1>4, <1>5, <2>7, <3>1, SettlesFits
    <3>3. ASSUME NEW k \in DOMAIN mem'
          PROVE  Fit(mem'[k], k, Batched', edit, lost)
      <4>1. CASE k = i
        BY <2>8, <4>1 DEF Fit
      <4>2. CASE k # i
        BY <2>12, <3>2, <4>2 DEF Fits
      <4> QED
        BY <4>1, <4>2
    <3> QED
      BY <3>3 DEF Fits
  <2>16. Fits(file, Batched', edit, lost)
    BY <1>4, <1>5, FitsLess
  <2>17. Sound'
    BY <2>2, <2>15, <2>16 DEF Sound
  <2>18. OneAtATime'
    BY <1>3, <2>2, OneKept
  <2> QED
    BY <1>1, <1>2, <1>4, <2>2, <2>9, <2>13, <2>14, <2>17, <2>18
<1> QED
  BY <1>9, <1>10

LEMMA ApplyAfterwards ==
  ASSUME Clear, boot # "off", edit' = edit,
         Untouched /\ MarksOf(file, Batched, lost) => MarksOf(mem', Batched', lost'),
         Untouched => file' = mem'
  PROVE  Clear'
<1> SUFFICES ASSUME Untouched
             PROVE  /\ MarksOf(mem', Batched' \union {manual'}, lost')
                    /\ MarksOf(file', Batched', lost')
                    /\ Agree'
  BY DEF Clear, Untouched
<1>1. MarksOf(file, Batched, lost)
  BY DEF Clear
<1>2. MarksOf(mem', Batched', lost') /\ file' = mem'
  BY <1>1
<1>3. Batched' \subseteq Batched' \union {manual'}
  OBVIOUS
<1> QED
  BY <1>2, <1>3, MarksMore, SavedAgrees

LEMMA TickApplyInv ==
  ASSUME IInv, TickApply
  PROVE  IInv'
<1>1. /\ TypeOK /\ Known /\ OffIsStopped /\ OneAtATime /\ Sound /\ Clear
  BY Parts
<1>2. /\ tick = "run" /\ tick' = "end" /\ manual = NoJob /\ manual' = NoJob
      /\ Is(batch["tick"], Outcomes) /\ ApplyResults(batch["tick"])
      /\ edit' = edit /\ used' = used /\ boot' = boot /\ "tick" \in Actors
  BY DEF TickApply, LockFree, Actors
<1>3. Put(batch', batch, "tick", NoBatch)
  BY DEF TickApply, Put
<1>4. boot # "off"
  BY <1>1, <1>2 DEF OffIsStopped, Stopped
<1>5. /\ IsStore(mem') /\ IsStore(file') /\ Batches(batch')
      /\ batch'["tick"] = NoBatch /\ OnlyBatch(batch', batch, "tick")
      /\ DOMAIN mem' \subseteq DOMAIN file /\ DOMAIN file' \subseteq DOMAIN file
      /\ Batched' \subseteq Batched /\ lost' \subseteq Ids
      /\ OneAtATime' /\ Sound'
      /\ Untouched /\ MarksOf(file, Batched, lost) => MarksOf(mem', Batched', lost')
      /\ Untouched => file' = mem' /\ Planned(mem')
  BY <1>1, <1>2, <1>3, Applying
<1>6. batch'["boot"] = batch["boot"]
  BY <1>5 DEF OnlyBatch, Actors
<1>7. TypeOK'
  BY <1>1, <1>2, <1>5, <1>6 DEF TypeOK, Batches, TickApply
<1>8. Known' /\ OffIsStopped' /\ ManualMarked'
  BY <1>1, <1>2, <1>4, <1>5 DEF Known, OffIsStopped, ManualMarked
<1>9. Clear'
  BY <1>1, <1>2, <1>4, <1>5, ApplyAfterwards
<1>10. Ready' /\ TimerIsArmed'
  BY <1>2, <1>5 DEF Ready, TimerIsArmed, Untouched
<1> QED
  BY <1>5, <1>7, <1>8, <1>9, <1>10, PartsNext

LEMMA BootApplyInv ==
  ASSUME IInv, BootApply
  PROVE  IInv'
<1>1. /\ TypeOK /\ Known /\ OffIsStopped /\ OneAtATime /\ Sound /\ Clear
  BY Parts
<1>2. /\ boot = "run" /\ manual = NoJob /\ manual' = NoJob
      /\ Is(batch["boot"], Outcomes) /\ ApplyResults(batch["boot"])
      /\ edit' = edit /\ used' = used /\ tick' = tick /\ "boot" \in Actors
  BY DEF BootApply, LockFree, Actors
<1>3. Put(batch', batch, "boot", NoBatch)
  BY DEF BootApply, Put
<1>4. /\ IsStore(mem') /\ IsStore(file') /\ Batches(batch')
      /\ batch'["boot"] = NoBatch /\ OnlyBatch(batch', batch, "boot")
      /\ DOMAIN mem' \subseteq DOMAIN file /\ DOMAIN file' \subseteq DOMAIN file
      /\ Batched' \subseteq Batched /\ lost' \subseteq Ids
      /\ OneAtATime' /\ Sound'
      /\ Untouched /\ MarksOf(file, Batched, lost) => MarksOf(mem', Batched', lost')
      /\ Untouched => file' = mem' /\ Planned(mem')
  BY <1>1, <1>2, <1>3, Applying
<1>5. batch'["tick"] = batch["tick"]
  BY <1>4 DEF OnlyBatch, Actors
<1>6. boot' \in {"up", "final"}
  BY DEF BootApply
<1>7. TypeOK'
  BY <1>1, <1>2, <1>4, <1>5, <1>6 DEF TypeOK, Batches, BootApply
<1>8. Known' /\ OffIsStopped' /\ ManualMarked'
  BY <1>1, <1>2, <1>4, <1>6 DEF Known, OffIsStopped, ManualMarked
<1>9. Clear'
  BY <1>1, <1>2, <1>4, ApplyAfterwards
<1>10. Untouched => boot' = "final"
  <2>1. Untouched => Calm(file)
    BY <1>1, TypeParts, UntouchedCalm DEF Sound
  <2> QED
    BY <2>1 DEF BootApply, Calm
<1>11. Ready' /\ TimerIsArmed'
  BY <1>2, <1>10 DEF Ready, TimerIsArmed, Untouched
<1> QED
  BY <1>4, <1>7, <1>8, <1>9, <1>11, PartsNext

-----------------------------------------------------------------------------
(* Operations *)

(* What an operation that saves the store has to show.                      *)
LEMMA Saving ==
  ASSUME IInv, TypeOK', boot # "off", boot' = boot, tick' = tick, batch' = batch,
         manual' = NoJob, file' = mem', armed' = Wakes(mem'),
         lost \subseteq lost', used \subseteq used', DOMAIN mem' \subseteq used',
         \A i \in Ids : edit[i] = "rejected" => edit'[i] = "rejected",
         Fits(mem', Batched, edit', lost'),
         Untouched => MarksOf(mem', Batched, lost'),
         Untouched /\ Ready => (boot = "up" /\ tick # "run" => Planned(mem'))
  PROVE  IInv'
<1>1. /\ Known /\ OneAtATime /\ Ready
  BY Parts
<1>2. Batched' = Batched
  BY DEF Batched
<1>3. Untouched' => Untouched
  BY DEF Untouched
<1>4. Known' /\ OffIsStopped' /\ ManualMarked'
  BY <1>1, <1>2 DEF Known, OffIsStopped, ManualMarked
<1>5. OneAtATime'
  BY <1>1, OneKept
<1>6. Sound'
  BY <1>2 DEF Sound
<1>7. Clear'
  <2> SUFFICES ASSUME Untouched
               PROVE  /\ MarksOf(mem', Batched \union {manual'}, lost')
                      /\ MarksOf(mem', Batched, lost')
                      /\ Agree'
    BY <1>2, <1>3 DEF Clear
  <2>1. Batched \subseteq Batched \union {manual'}
    OBVIOUS
  <2> QED
    BY <2>1, MarksMore, SavedAgrees
<1>8. Ready' /\ TimerIsArmed'
  BY <1>1, <1>3 DEF Ready, TimerIsArmed, Wakes
<1> QED
  BY <1>4, <1>5, <1>6, <1>7, <1>8, PartsNext

(* One job of a store changes, and what happened to it.                     *)
SameElse(ns, s, i) == SameDomain(ns, s) /\ \A k \in DOMAIN s : k # i => ns[k] = s[k]

LEMMA FitsPut ==
  ASSUME NEW ns, NEW s, NEW i, SameElse(ns, s, i),
         NEW C, NEW e, NEW e2, NEW l, NEW l2, Fits(s, C, e, l), l \subseteq l2,
         \A k \in DOMAIN s : k # i => e2[k] = e[k],
         i \in DOMAIN s => Fit(ns[i], i, C, e2, l2)
  PROVE  Fits(ns, C, e2, l2)
<1> SUFFICES ASSUME NEW k \in DOMAIN ns
             PROVE  Fit(ns[k], k, C, e2, l2)
  BY DEF Fits
<1>1. k \in DOMAIN s
  BY DEF SameElse, SameDomain
<1>2. CASE k = i
  BY <1>1, <1>2
<1>3. CASE k # i
  <2>1. ns[k] = s[k] /\ e2[k] = e[k] /\ Fit(s[k], k, C, e, l)
    BY <1>1, <1>3 DEF SameElse, Fits
  <2> QED
    BY <2>1 DEF Fit
<1> QED
  BY <1>2, <1>3

LEMMA RejectedFits ==
  ASSUME NEW j, NEW i, NEW C, NEW e, e[i] = "rejected", NEW l
  PROVE  Fit(j, i, C, e, l)
  BY DEF Fit

LEMMA ReadInv ==
  ASSUME IInv, Read
  PROVE  IInv'
<1>1. /\ TypeOK /\ Known /\ OffIsStopped /\ OneAtATime /\ Sound /\ Clear /\ Ready /\ TimerIsArmed
  BY Parts
<1>2. /\ IsStore(mem) /\ IsStore(file) /\ now \in Nat /\ lost \subseteq Ids
  BY <1>1, TypeParts
<1>3. /\ boot # "off" /\ manual = NoJob /\ manual' = NoJob /\ armed' = armed
      /\ boot' = boot /\ tick' = tick /\ batch' = batch /\ edit' = edit /\ used' = used
      /\ mem' = Maintain(mem, now) /\ lost' = lost \union Stuck(mem)
  BY DEF Read, Operation, LockFree
<1>4. file' = mem' \/ (file' = file /\ mem' = mem)
  BY DEF Read
<1>5. IsStore(mem') /\ Kept(mem', mem, now) /\ NextsKept(mem', mem)
  BY <1>2, <1>3, MaintainKeeps
<1>6. lost \subseteq lost' /\ StuckAt(mem, now) \subseteq lost' /\ lost' \subseteq Ids
  BY <1>2, <1>3 DEF Stuck, StuckAt, IsStore
<1>7. DOMAIN mem' = DOMAIN mem /\ Batched' = Batched
  BY <1>3, <1>5 DEF Kept, SameDomain, Batched
<1>8. ops' \in 0 .. MaxOps
  BY <1>1, BoundsAssumption DEF TypeOK, Read, Operation
<1>9. IsStore(file')
  BY <1>2, <1>4, <1>5
<1>10. TypeOK'
  BY <1>1, <1>3, <1>5, <1>6, <1>8, <1>9 DEF TypeOK, Read
<1>11. Known' /\ OffIsStopped' /\ ManualMarked'
  BY <1>1, <1>3, <1>4, <1>7 DEF Known, OffIsStopped, ManualMarked
<1>12. OneAtATime'
  <2>1. \A a \in Actors : DOMAIN batch'[a] \subseteq DOMAIN batch[a]
    BY <1>3
  <2> QED
    BY <1>1, <1>3, <1>6, <2>1, OneKept
<1>13. Sound'
  <2>1. Fits(mem, Batched, edit, lost) /\ Fits(file, Batched, edit, lost)
    BY <1>1 DEF Sound
  <2>2. Fits(mem', Batched, edit, lost')
    BY <1>5, <1>6, <2>1, KeptFits
  <2>3. Batched \ lost' \subseteq Batched \ lost
    BY <1>6
  <2>4. Fits(file, Batched, edit, lost')
    BY <2>1, <2>3, FitsLess
  <2> QED
    BY <1>3, <1>4, <1>7, <2>2, <2>4 DEF Sound
<1>14. Clear'
  <2> SUFFICES ASSUME Untouched
               PROVE  /\ MarksOf(mem', Batched \union {manual'}, lost')
                      /\ MarksOf(file', Batched, lost')
                      /\ Agree'
    BY <1>3, <1>7 DEF Clear, Untouched
  <2>1. MarksOf(mem, Batched \union {manual}, lost) /\ MarksOf(file, Batched, lost) /\ Agree
    BY <1>1, <1>3 DEF Clear
  <2>2. MarksOf(mem', Batched \union {NoJob}, lost')
    BY <1>3, <1>5, <1>6, <2>1, KeptMarks
  <2>3. MarksOf(mem', Batched, lost')
    BY <1>5, <2>2, MarksNoJob
  <2>4. MarksOf(file, Batched, lost')
    BY <1>6, <2>1 DEF MarksOf
  <2>5. MarksOf(file', Batched, lost')
    BY <1>4, <2>3, <2>4
  <2>6. Agree'
    BY <1>4, <2>1 DEF Agree
  <2> QED
    BY <1>3, <2>2, <2>5, <2>6
<1>15. Untouched => Calm(mem)
  BY <1>1, <1>2, UntouchedCalm DEF Sound
<1>16. Ready'
  <2>1. Untouched => Planned(mem')
    BY <1>5, <1>15, KeptPlanned
  <2> QED
    BY <1>3, <2>1 DEF Ready, Untouched
<1>17. TimerIsArmed'
  <2> SUFFICES ASSUME boot = "up", Untouched, Wakes(mem'), tick = "idle"
               PROVE  armed
    BY <1>3 DEF TimerIsArmed, Untouched, Wakes
  <2>1. Planned(mem)
    BY <1>1 DEF Ready
  <2>2. Wakes(mem)
    BY <1>5, <1>15, <2>1, KeptWakes
  <2> QED
    BY <1>1, <2>2 DEF TimerIsArmed
<1> QED
  BY <1>10, <1>11, <1>12, <1>13, <1>14, <1>16, <1>17, PartsNext

LEMMA RemoveInv ==
  ASSUME IInv, NEW i \in Ids, Remove(i)
  PROVE  IInv'
<1>1. /\ TypeOK /\ Known /\ Sound /\ Clear
  BY Parts
<1>2. /\ IsStore(mem) /\ lost \subseteq Ids
  BY <1>1, TypeParts
<1>3. /\ boot # "off" /\ manual = NoJob /\ manual' = NoJob
      /\ boot' = boot /\ tick' = tick /\ batch' = batch /\ edit' = edit /\ used' = used
      /\ lost' = lost /\ file' = mem' /\ armed' = Wakes(mem')
  BY DEF Remove, Operation, LockFree, Save
<1>4. mem' = [k \in DOMAIN mem \ {i} |-> mem[k]]
  BY DEF Remove, Save, Restrict
<1>5. DOMAIN mem' = DOMAIN mem \ {i} /\ \A k \in DOMAIN mem' : mem'[k] = mem[k]
  BY <1>4
<1>6. IsStore(mem')
  BY <1>2, <1>4, <1>5, StoreJobs DEF IsStore
<1>7. ops' \in 0 .. MaxOps
  BY <1>1, BoundsAssumption DEF TypeOK, Remove, Operation
<1>8. armed' \in BOOLEAN
  BY <1>3 DEF Wakes
<1>9. TypeOK'
  BY <1>1, <1>3, <1>6, <1>7, <1>8 DEF TypeOK, Remove
<1>10. Fits(mem', Batched, edit, lost)
  BY <1>1, <1>5 DEF Sound, Fits
<1>11. Untouched => MarksOf(mem', Batched, lost)
  <2>1. Untouched => MarksOf(mem, Batched, lost)
    BY <1>1, <1>2, <1>3, MarksNoJob DEF Clear
  <2> QED
    BY <1>5, <2>1 DEF MarksOf
<1>12. boot = "up" /\ Untouched /\ tick # "run" /\ Planned(mem) => Planned(mem')
  BY <1>5 DEF Planned
<1>13. DOMAIN mem' \subseteq used'
  BY <1>1, <1>3, <1>5 DEF Known
<1>14. Untouched /\ Ready => (boot = "up" /\ tick # "run" => Planned(mem'))
  BY <1>12 DEF Ready
<1> QED
  BY <1>3, <1>9, <1>10, <1>11, <1>13, <1>14, Saving

LEMMA AddInv ==
  ASSUME IInv, NEW i \in Ids, NEW d \in Drafts, Add(i, d)
  PROVE  IInv'
<1>1. /\ TypeOK /\ Known /\ Sound /\ Clear
  BY Parts
<1>2. /\ IsStore(mem) /\ now \in Nat /\ lost \subseteq Ids /\ used \subseteq Ids
  BY <1>1, TypeParts
<1>3. d.kind \in Kinds /\ d.t \in Nat /\ d.keep \in BOOLEAN
  BY DraftsAssumption
<1> DEFINE j == [kind |-> d.kind, t |-> d.t, keep |-> d.keep, enabled |-> TRUE, next |-> NoTime,
                 mark |-> NoTime, status |-> "none", errs |-> 0, bad |-> 0]
           x == NextRun(j, now)
           v == [j EXCEPT !.next = x]
           s == [k \in DOMAIN mem \union {i} |-> IF k = i THEN v ELSE mem[k]]
<1>4. /\ boot # "off" /\ manual = NoJob /\ manual' = NoJob /\ i \notin used /\ d.kind # "broken"
      /\ boot' = boot /\ tick' = tick /\ batch' = batch /\ edit' = edit
      /\ used' = used \union {i} /\ lost' = lost \union Stuck(mem)
      /\ mem' = Recompute(s, now) /\ file' = mem' /\ armed' = Wakes(mem')
  BY DEF Add, Operation, LockFree, Save
<1>5. j \in Job
  BY <1>3, Constants DEF Job, NoTime, Status
<1>6. j.kind = d.kind /\ j.mark = NoTime /\ j.status = "none"
  OBVIOUS
<1> HIDE DEF j
<1>7. ~Throws(j)
  BY <1>4, <1>6 DEF Throws
<1>8. x \in Nat
  BY <1>2, <1>5, <1>7, NextRunFacts
<1> HIDE DEF x
<1>9. v \in Job
  BY <1>5, <1>8 DEF Job
<1>10. v.kind = d.kind /\ v.mark = NoTime /\ v.status = "none"
  BY <1>5, <1>6 DEF Job
<1> HIDE DEF v
<1>11. DOMAIN s = DOMAIN mem \union {i} /\ s[i] = v /\ \A k \in DOMAIN mem : k # i => s[k] = mem[k]
  OBVIOUS
<1>12. i \notin DOMAIN mem /\ i \notin Batched
  BY <1>1, <1>4 DEF Known
<1>13. IsStore(s)
  <2>1. DOMAIN s \subseteq Ids
    BY <1>2, <1>11 DEF IsStore
  <2>2. \A k \in DOMAIN s : s[k] \in Job
    BY <1>2, <1>9, <1>11, StoreJobs
  <2>3. s = [k \in DOMAIN s |-> s[k]]
    BY <1>11
  <2> HIDE DEF s
  <2> QED
    BY <2>1, <2>2, <2>3 DEF IsStore
<1> HIDE DEF s
<1>14. Fits(s, Batched, edit, lost)
  <2>1. Fits(mem, Batched, edit, lost)
    BY <1>1 DEF Sound
  <2>2. Fit(v, i, Batched, edit, lost)
    BY <1>4, <1>10, <1>12 DEF Fit, Throws
  <2> QED
    BY <1>11, <1>12, <2>1, <2>2 DEF Fits
<1>15. IsStore(mem') /\ Kept(mem', s, now)
  BY <1>2, <1>4, <1>13, RecomputeKeeps
<1>16. lost \subseteq lost' /\ StuckAt(s, now) \subseteq lost' /\ lost' \subseteq Ids
  <2>1. StuckAt(s, now) \subseteq StuckAt(mem, now)
    BY <1>10, <1>11 DEF StuckAt, IsStuck
  <2> QED
    BY <1>2, <1>4, <2>1 DEF Stuck, StuckAt, IsStore
<1>17. Fits(mem', Batched, edit, lost')
  BY <1>14, <1>15, <1>16, KeptFits
<1>18. Untouched => MarksOf(mem', Batched, lost')
  <2>1. Untouched => MarksOf(mem, Batched, lost)
    BY <1>1, <1>2, <1>4, MarksNoJob DEF Clear
  <2>2. Untouched => MarksOf(s, Batched, lost)
    BY <1>10, <1>11, <2>1 DEF MarksOf
  <2> QED
    BY <1>15, <1>16, <2>2, KeptMarks
<1>19. Untouched => Planned(mem')
  BY <1>13, <1>14, <1>15, UntouchedCalm, KeptPlanned
<1>20. ops' \in 0 .. MaxOps
  BY <1>1, BoundsAssumption DEF TypeOK, Add, Operation
<1>21. armed' \in BOOLEAN
  BY <1>4 DEF Wakes
<1>22. TypeOK'
  <2>1. used' \subseteq Ids
    BY <1>2, <1>4
  <2> QED
    BY <1>1, <1>4, <1>15, <1>16, <1>20, <1>21, <2>1 DEF TypeOK, Add
<1>23. DOMAIN mem' \subseteq used'
  BY <1>1, <1>4, <1>11, <1>15 DEF Known, Kept, SameDomain
<1>24. used \subseteq used'
  BY <1>4
<1> QED
  BY <1>4, <1>16, <1>17, <1>18, <1>19, <1>22, <1>23, <1>24, Saving

(* What an update makes of a job, if it does not throw.                     *)
Computes(j, p) == p.what # "name" \/ (Patched(j, p).enabled /\ Patched(j, p).next = NoTime)

Updated(j, p, n) ==
  IF ~Computes(j, p) THEN Patched(j, p)
  ELSE IF Patched(j, p).enabled THEN [Patched(j, p) EXCEPT !.next = NextRun(Patched(j, p), n)]
  ELSE [Patched(j, p) EXCEPT !.next = NoTime, !.mark = NoTime]

LEMMA PatchedFacts ==
  ASSUME NEW j \in Job, NEW p \in Patches
  PROVE  /\ Patched(j, p) \in Job
         /\ Patched(j, p).mark = j.mark
         /\ p.what = "name" => Patched(j, p) = j
<1>1. p.what \in {"on", "off", "name", "schedule"}
  BY PatchesAssumption
<1>2. p.what = "schedule" => p.kind \in Kinds /\ p.t \in Nat
  BY PatchesAssumption
<1>3. CASE p.what = "on"
  <2> DEFINE v == [j EXCEPT !.enabled = TRUE]
  <2>1. v \in Job
    BY DEF Job
  <2>2. v.mark = j.mark
    BY DEF Job
  <2>3. Patched(j, p) = v
    BY <1>3 DEF Patched
  <2> HIDE DEF v
  <2> QED
    BY <1>3, <2>1, <2>2, <2>3
<1>4. CASE p.what = "off"
  <2> DEFINE v == [j EXCEPT !.enabled = FALSE]
  <2>1. v \in Job
    BY DEF Job
  <2>2. v.mark = j.mark
    BY DEF Job
  <2>3. Patched(j, p) = v
    BY <1>4 DEF Patched
  <2> HIDE DEF v
  <2> QED
    BY <1>4, <2>1, <2>2, <2>3
<1>5. CASE p.what = "schedule"
  <2> DEFINE k == p.kind
             t == p.t
             v == [j EXCEPT !.kind = k, !.t = t]
  <2>1. k \in Kinds /\ t \in Nat
    BY <1>2, <1>5
  <2>2. Patched(j, p) = v
    BY <1>5 DEF Patched
  <2> HIDE DEF k, t
  <2>3. v \in Job
    BY <2>1 DEF Job
  <2>4. v.mark = j.mark
    BY DEF Job
  <2> HIDE DEF v
  <2> QED
    BY <1>5, <2>2, <2>3, <2>4
<1>6. CASE p.what = "name"
  BY <1>6 DEF Patched
<1> QED
  BY <1>1, <1>3, <1>4, <1>5, <1>6

LEMMA UpdatedFacts ==
  ASSUME NEW j \in Job, NEW p \in Patches, NEW n \in Nat,
         ~(Computes(j, p) /\ Throws(Patched(j, p)))
  PROVE  /\ Updated(j, p, n) \in Job
         /\ Updated(j, p, n).mark # NoTime => Updated(j, p, n).mark = j.mark
         /\ Computes(j, p) /\ Patched(j, p).enabled =>
              Updated(j, p, n).enabled /\ Updated(j, p, n).mark = j.mark
         /\ Computes(j, p) => ~Throws(Updated(j, p, n))
         /\ ~Computes(j, p) => Updated(j, p, n) = j
         /\ Updated(j, p, n).enabled /\ Updated(j, p, n).next = NoTime => IsOver(Updated(j, p, n))
<1> DEFINE q == Patched(j, p)
<1>1. q \in Job /\ q.mark = j.mark /\ (p.what = "name" => q = j)
  BY PatchedFacts
<1>2. CASE ~Computes(j, p)
  <2>1. q = j /\ ~(q.enabled /\ q.next = NoTime)
    BY <1>1, <1>2 DEF Computes
  <2>2. Updated(j, p, n) = j
    BY <1>2, <2>1 DEF Updated
  <2> HIDE DEF q
  <2> QED
    BY <1>2, <2>1, <2>2
<1>3. CASE Computes(j, p) /\ q.enabled
  <2> DEFINE x == NextRun(q, n)
             v == [q EXCEPT !.next = x]
  <2>1. Updated(j, p, n) = v
    BY <1>3 DEF Updated
  <2>2. ~Throws(q)
    BY <1>3
  <2> HIDE DEF q
  <2>3. x \in Nat /\ (x = NoTime => IsOver(q))
    BY <1>1, <1>3, <2>2, NextRunFacts
  <2> HIDE DEF x
  <2>4. v \in Job
    BY <1>1, <2>3 DEF Job
  <2>5. /\ v.next = x /\ v.mark = q.mark /\ v.enabled = q.enabled
        /\ v.kind = q.kind /\ v.t = q.t /\ v.status = q.status
    BY <1>1 DEF Job
  <2> HIDE DEF v
  <2>6. ~Throws(v) /\ (IsOver(q) => IsOver(v))
    BY <2>2, <2>5 DEF Throws, IsOver
  <2> QED
    BY <1>1, <1>3, <2>1, <2>3, <2>4, <2>5, <2>6 DEF q
<1>4. CASE Computes(j, p) /\ ~q.enabled
  <2> DEFINE v == [q EXCEPT !.next = NoTime, !.mark = NoTime]
  <2>1. Updated(j, p, n) = v
    BY <1>4 DEF Updated
  <2> HIDE DEF q
  <2>2. v \in Job
    BY <1>1 DEF Job, NoTime
  <2>3. v.mark = NoTime /\ v.enabled = q.enabled
    BY <1>1 DEF Job
  <2> HIDE DEF v
  <2>4. ~Throws(v)
    BY <1>4, <2>3 DEF Throws
  <2> QED
    BY <1>4, <2>1, <2>2, <2>3, <2>4 DEF q
<1> QED
  BY <1>2, <1>3, <1>4

LEMMA UpdateInv ==
  ASSUME IInv, NEW i \in Ids, NEW p \in Patches, Update(i, p)
  PROVE  IInv'
<1>1. /\ TypeOK /\ Known /\ Sound /\ Clear
  BY Parts
<1>2. /\ IsStore(mem) /\ now \in Nat /\ lost \subseteq Ids
      /\ edit \in [Ids -> {"none", "accepted", "rejected"}]
  BY <1>1, TypeParts
<1> DEFINE j == mem[i]
           v == Updated(j, p, now)
           e == IF edit[i] = "none" THEN "accepted" ELSE edit[i]
<1>3. /\ boot # "off" /\ manual = NoJob /\ manual' = NoJob /\ i \in DOMAIN mem
      /\ boot' = boot /\ tick' = tick /\ batch' = batch /\ used' = used
      /\ file' = mem' /\ armed' = Wakes(mem')
      /\ ~(Computes(j, p) /\ Throws(Patched(j, p)))
      /\ lost' = IF Computes(j, p) /\ ~Patched(j, p).enabled THEN lost \union {i} ELSE lost
  BY DEF Update, Operation, LockFree, Save, Computes
<1>4. mem' = [mem EXCEPT ![i] = v]
  BY DEF Update, Save, Computes, Updated
<1>5. edit' = [edit EXCEPT ![i] = e]
  BY DEF Update
<1>6. j \in Job
  BY <1>2, <1>3, StoreJobs
<1>7. /\ v \in Job
      /\ v.mark # NoTime => v.mark = j.mark
      /\ Computes(j, p) /\ Patched(j, p).enabled => v.enabled /\ v.mark = j.mark
      /\ Computes(j, p) => ~Throws(v)
      /\ ~Computes(j, p) => v = j
      /\ v.enabled /\ v.next = NoTime => IsOver(v)
  BY <1>2, <1>3, <1>6, UpdatedFacts
<1> HIDE DEF v
<1>8. DOMAIN mem' = DOMAIN mem /\ mem'[i] = v /\ \A k \in DOMAIN mem : k # i => mem'[k] = mem[k]
  BY <1>3, <1>4
<1>9. /\ edit' \in [Ids -> {"none", "accepted", "rejected"}]
      /\ \A k \in Ids : k # i => edit'[k] = edit[k]
      /\ edit'[i] # "none" /\ (edit'[i] = "rejected" <=> edit[i] = "rejected")
  <2>1. e \in {"none", "accepted", "rejected"} /\ e # "none" /\ (e = "rejected" <=> edit[i] = "rejected")
    BY <1>2
  <2> HIDE DEF e
  <2> QED
    BY <1>2, <1>5, <2>1
<1>10. IsStore(mem')
  BY <1>2, <1>4, <1>7, <1>8 DEF IsStore
<1>11. lost \subseteq lost' /\ lost' \subseteq Ids
  BY <1>2, <1>3
<1>12. Fits(mem, Batched, edit, lost)
  BY <1>1 DEF Sound
<1>13. Fits(mem', Batched, edit', lost')
  <2>1. SameElse(mem', mem, i)
    BY <1>8 DEF SameElse, SameDomain
  <2>2. \A k \in DOMAIN mem : k # i => edit'[k] = edit[k]
    BY <1>2, <1>9 DEF IsStore
  <2>3. Fit(j, i, Batched, edit, lost)
    BY <1>3, <1>12 DEF Fits
  <2>4. Fit(v, i, Batched, edit', lost')
    <3>1. edit'[i] # "rejected" => ~Throws(v)
      BY <1>7, <1>9, <2>3 DEF Fit
    <3>2. edit'[i] # "rejected" /\ i \in Batched \ lost' => v.mark # NoTime /\ v.enabled
      BY <1>3, <1>7, <1>9, <2>3 DEF Fit
    <3> QED
      BY <1>9, <3>1, <3>2 DEF Fit
  <2>5. Fit(mem'[i], i, Batched, edit', lost')
    BY <1>8, <2>4
  <2> QED
    BY <1>11, <1>12, <2>1, <2>2, <2>5, FitsPut
<1>14. Untouched => MarksOf(mem', Batched, lost')
  <2>1. Untouched => MarksOf(mem, Batched, lost)
    BY <1>1, <1>2, <1>3, MarksNoJob DEF Clear
  <2> QED
    BY <1>3, <1>7, <1>8, <1>11, <2>1 DEF MarksOf
<1>15. Untouched /\ Ready => (boot = "up" /\ tick # "run" => Planned(mem'))
  <2>1. Planned(mem) => Planned(mem')
    BY <1>7, <1>8 DEF Planned
  <2> QED
    BY <2>1 DEF Ready
<1>16. ops' \in 0 .. MaxOps
  BY <1>1, BoundsAssumption DEF TypeOK, Update, Operation
<1>17. armed' \in BOOLEAN
  BY <1>3 DEF Wakes
<1>18. TypeOK'
  BY <1>1, <1>3, <1>9, <1>10, <1>11, <1>16, <1>17 DEF TypeOK, Update
<1>19. DOMAIN mem' \subseteq used'
  BY <1>1, <1>3, <1>8 DEF Known
<1>20. \A k \in Ids : edit[k] = "rejected" => edit'[k] = "rejected"
  BY <1>9
<1> QED
  BY <1>3, <1>11, <1>13, <1>14, <1>15, <1>18, <1>19, <1>20, Saving

(* A job whose update or whose schedule went wrong: nothing is promised of  *)
(* it afterwards, nor of markers, next runs and the timer.                  *)
LEMMA Damaged ==
  ASSUME IInv, TypeOK', boot # "off", boot' = boot,
         file' = file, lost' = lost, used' = used, batch' = batch,
         manual' = NoJob, NEW i \in Ids, SameElse(mem', mem, i), edit'[i] = "rejected",
         \A k \in Ids : k # i => edit'[k] = edit[k]
  PROVE  IInv'
<1>1. /\ TypeOK /\ Known /\ OneAtATime /\ Sound
  BY Parts
<1>2. Batched' = Batched
  BY DEF Batched
<1>3. ~Untouched'
  BY DEF Untouched
<1>4. DOMAIN mem' = DOMAIN mem
  BY DEF SameElse, SameDomain
<1>5. Known' /\ OffIsStopped' /\ ManualMarked' /\ Clear' /\ Ready' /\ TimerIsArmed'
  BY <1>1, <1>2, <1>3, <1>4 DEF Known, OffIsStopped, ManualMarked, Clear, Ready, TimerIsArmed
<1>6. OneAtATime'
  <2>1. \A a \in Actors : DOMAIN batch'[a] \subseteq DOMAIN batch[a]
    OBVIOUS
  <2>2. \A k \in Ids : edit[k] = "rejected" => edit'[k] = "rejected"
    OBVIOUS
  <2> QED
    BY <1>1, <2>1, <2>2, OneKept
<1>7. Sound'
  <2>1. Fits(mem, Batched, edit, lost) /\ Fits(file, Batched, edit, lost)
    BY <1>1 DEF Sound
  <2>2. DOMAIN mem \subseteq Ids /\ DOMAIN file \subseteq Ids
    BY <1>1, TypeParts DEF IsStore
  <2>3. /\ \A k \in DOMAIN mem : k # i => edit'[k] = edit[k]
        /\ \A k \in DOMAIN file : k # i => edit'[k] = edit[k]
    BY <2>2
  <2>4. Fit(mem'[i], i, Batched, edit', lost) /\ Fit(file[i], i, Batched, edit', lost)
    BY RejectedFits
  <2>5. SameElse(file, file, i) /\ lost \subseteq lost
    BY DEF SameElse, SameDomain
  <2>6. Fits(mem', Batched, edit', lost)
    BY <2>1, <2>3, <2>4, <2>5, FitsPut
  <2>7. Fits(file, Batched, edit', lost)
    BY <2>1, <2>3, <2>4, <2>5, FitsPut
  <2> QED
    BY <1>2, <2>6, <2>7 DEF Sound
<1> QED
  BY <1>5, <1>6, <1>7, PartsNext

LEMMA UpdateRejectedInv ==
  ASSUME IInv, NEW i \in Ids, NEW p \in Patches, UpdateRejected(i, p)
  PROVE  IInv'
<1>1. TypeOK
  BY Parts
<1>2. /\ IsStore(mem) /\ edit \in [Ids -> {"none", "accepted", "rejected"}]
  BY <1>1, TypeParts
<1>3. /\ boot # "off" /\ manual = NoJob /\ manual' = NoJob /\ i \in DOMAIN mem
      /\ boot' = boot /\ batch' = batch /\ used' = used /\ file' = file /\ lost' = lost
      /\ edit' = [edit EXCEPT ![i] = "rejected"]
  BY DEF UpdateRejected, Operation, LockFree
<1> DEFINE v == Patched(mem[i], p)
<1>4. v \in Job
  BY <1>2, <1>3, StoreJobs, PatchedFacts
<1>5. mem' = [mem EXCEPT ![i] = v]
  BY DEF UpdateRejected
<1> HIDE DEF v
<1>6. DOMAIN mem' = DOMAIN mem /\ \A k \in DOMAIN mem : k # i => mem'[k] = mem[k]
  BY <1>3, <1>5
<1>7. IsStore(mem')
  BY <1>2, <1>4, <1>5, <1>6 DEF IsStore
<1>8. SameElse(mem', mem, i)
  BY <1>6 DEF SameElse, SameDomain
<1>9. ops' \in 0 .. MaxOps
  BY <1>1, BoundsAssumption DEF TypeOK, UpdateRejected, Operation
<1>10. /\ edit' \in [Ids -> {"none", "accepted", "rejected"}]
       /\ edit'[i] = "rejected" /\ \A k \in Ids : k # i => edit'[k] = edit[k]
  BY <1>2, <1>3
<1>11. TypeOK'
  BY <1>1, <1>3, <1>7, <1>9, <1>10 DEF TypeOK, UpdateRejected
<1> QED
  BY <1>3, <1>8, <1>10, <1>11, Damaged

LEMMA ManualEndsInv ==
  ASSUME IInv, NEW o \in Outcomes, ManualEnds(o)
  PROVE  IInv'
<1>1. /\ TypeOK /\ Known /\ OffIsStopped /\ OneAtATime /\ Sound /\ Clear
  BY Parts
<1>2. /\ IsStore(mem) /\ now \in Nat /\ lost \subseteq Ids
  BY <1>1, TypeParts
<1> DEFINE m == manual
<1>3. /\ m # NoJob /\ m \in DOMAIN mem /\ m \in Ids /\ manual' = NoJob
      /\ boot' = boot /\ tick' = tick /\ batch' = batch /\ edit' = edit /\ used' = used
  BY <1>1, <1>2, TypeParts DEF ManualEnds, IsStore
<1>4. boot # "off"
  BY <1>1, <1>3 DEF OffIsStopped, Stopped
<1>5. mem[m] \in Job
  BY <1>2, <1>3, StoreJobs
<1>6. Fits(mem, Batched, edit, lost)
  BY <1>1 DEF Sound
<1>7. CASE Throws(mem[m])
  <2> DEFINE v == Noted(mem[m], o)
  <2>1. v \in Job
    BY <1>5, NotedFacts
  <2>2. mem' = [mem EXCEPT ![m] = v] /\ file' = file /\ armed' = armed /\ lost' = lost
    BY <1>7 DEF ManualEnds
  <2> HIDE DEF v
  <2>3. DOMAIN mem' = DOMAIN mem /\ \A k \in DOMAIN mem : k # m => mem'[k] = mem[k]
    BY <1>3, <2>2
  <2>4. IsStore(mem')
    BY <1>2, <2>1, <2>2, <2>3 DEF IsStore
  <2>5. SameElse(mem', mem, m)
    BY <2>3 DEF SameElse, SameDomain
  <2>6. edit[m] = "rejected"
    BY <1>3, <1>6, <1>7 DEF Fits, Fit
  <2>7. TypeOK'
    BY <1>1, <1>3, <2>2, <2>4 DEF TypeOK, ManualEnds
  <2> QED
    BY <1>3, <1>4, <2>2, <2>5, <2>6, <2>7, Damaged
<1>8. CASE ~Throws(mem[m])
  <2> DEFINE b == [i \in {m} |-> [st |-> o, at |-> now]]
             s == Settled(mem, b, {m})
  <2>1. mem' = Recompute(s, now) /\ file' = mem' /\ armed' = Wakes(mem') /\ lost' = lost \union Stuck(s)
    BY <1>8 DEF ManualEnds, Save
  <2>2. b[m] = [st |-> o, at |-> now]
    OBVIOUS
  <2>3. Over(b, {m})
    BY <1>2, <2>2 DEF Over
  <2>4. Sane(mem, {m})
    BY <1>3, <1>8 DEF Sane
  <2> HIDE DEF b
  <2>5. IsStore(s) /\ Settles(s, mem, {m})
    BY <1>2, <2>3, <2>4, SettledFacts
  <2> HIDE DEF s
  <2>6. IsStore(mem') /\ Kept(mem', s, now)
    BY <1>2, <2>1, <2>5, RecomputeKeeps
  <2>7. DOMAIN mem' \subseteq DOMAIN mem
    BY <2>5, <2>6 DEF Kept, SameDomain, Settles
  <2>8. lost \subseteq lost' /\ StuckAt(s, now) \subseteq lost' /\ lost' \subseteq Ids
    BY <1>2, <2>1, <2>5 DEF Stuck, StuckAt, IsStore
  <2>9. Away({m}, Batched, edit, lost)
    <3>1. edit[m] # "rejected" /\ m \notin lost => m \notin Batched
      BY <1>1, <1>3, BatchedFacts DEF OneAtATime
    <3> QED
      BY <3>1 DEF Away
  <2>10. Batched \subseteq Batched
    OBVIOUS
  <2>11. Fits(s, Batched, edit, lost)
    BY <1>6, <2>5, <2>9, <2>10, SettlesFits
  <2>12. Fits(mem', Batched, edit, lost')
    BY <2>6, <2>8, <2>11, KeptFits
  <2>13. Untouched => MarksOf(mem', Batched, lost')
    <3>1. Untouched => MarksOf(mem, Batched \union {m}, lost)
      BY <1>1, <1>4 DEF Clear
    <3>2. Leaves(Batched \union {m}, {m}, s, Batched)
      BY DEF Leaves
    <3>3. Untouched => MarksOf(s, Batched, lost)
      BY <2>5, <3>1, <3>2, SettlesMarks
    <3> QED
      BY <2>6, <2>8, <3>3, KeptMarks
  <2>14. Untouched => Planned(mem')
    BY <2>5, <2>6, <2>11, UntouchedCalm, KeptPlanned
  <2>15. armed' \in BOOLEAN
    BY <2>1 DEF Wakes
  <2>16. TypeOK'
    BY <1>1, <1>3, <2>1, <2>6, <2>8, <2>15 DEF TypeOK, ManualEnds
  <2>17. DOMAIN mem' \subseteq used' /\ used \subseteq used'
    BY <1>1, <1>3, <2>7 DEF Known
  <2> QED
    BY <1>3, <1>4, <2>1, <2>8, <2>12, <2>13, <2>14, <2>16, <2>17, Saving
<1> QED
  BY <1>7, <1>8

-----------------------------------------------------------------------------
(* The theorems *)

LEMMA NextInv == IInv /\ [Next]_vars => IInv'
<1> SUFFICES ASSUME IInv, [Next]_vars
             PROVE  IInv'
  OBVIOUS
<1>1. CASE TimePasses
  BY <1>1, TimePassesInv
<1>2. CASE TickStep
  <2>1. CASE Fire
    BY <2>1, FireInv
  <2>2. CASE TickLoad
    BY <2>2, TickLoadInv
  <2>3. CASE TickApply
    BY <2>3, TickApplyInv
  <2>4. CASE TickEnds
    BY <2>4, TickEndsInv
  <2>5. ASSUME NEW i \in Ids, RunStarts("tick", i)
        PROVE  IInv'
    BY <2>5, RunStartsInv DEF Actors
  <2>6. ASSUME NEW i \in Ids, NEW o \in Outcomes, RunEnds("tick", i, o)
        PROVE  IInv'
    BY <2>6, RunEndsInv DEF Actors
  <2> QED
    BY <1>2, <2>1, <2>2, <2>3, <2>4, <2>5, <2>6 DEF TickStep
<1>3. CASE BootStep
  <2>1. CASE BootLoad
    BY <2>1, BootLoadInv
  <2>2. CASE BootMissed
    BY <2>2, BootMissedInv
  <2>3. CASE BootApply
    BY <2>3, BootApplyInv
  <2>4. CASE BootFinal
    BY <2>4, BootFinalInv
  <2>5. ASSUME NEW i \in Ids, RunStarts("boot", i)
        PROVE  IInv'
    BY <2>5, RunStartsInv DEF Actors
  <2>6. ASSUME NEW i \in Ids, NEW o \in Outcomes, RunEnds("boot", i, o)
        PROVE  IInv'
    BY <2>6, RunEndsInv DEF Actors
  <2> QED
    BY <1>3, <2>1, <2>2, <2>3, <2>4, <2>5, <2>6 DEF BootStep
<1>4. CASE RunEndsLocked
  BY <1>4, ManualEndsInv DEF RunEndsLocked
<1>5. CASE Read
  BY <1>5, ReadInv
<1>6. ASSUME NEW i \in Ids, NEW d \in Drafts, Add(i, d)
      PROVE  IInv'
  BY <1>6, AddInv
<1>7. ASSUME NEW i \in Ids, NEW p \in Patches, Update(i, p)
      PROVE  IInv'
  BY <1>7, UpdateInv
<1>8. ASSUME NEW i \in Ids, NEW p \in Patches, UpdateRejected(i, p)
      PROVE  IInv'
  BY <1>8, UpdateRejectedInv
<1>9. ASSUME NEW i \in Ids, Remove(i)
      PROVE  IInv'
  BY <1>9, RemoveInv
<1>10. ASSUME NEW i \in Ids, ManualStart(i)
       PROVE  IInv'
  BY <1>10, ManualStartInv
<1>11. CASE Crash
  BY <1>11, CrashInv
<1>12. CASE UNCHANGED vars
  BY <1>12, StutterInv
<1> QED
  BY <1>1, <1>2, <1>3, <1>4, <1>5, <1>6, <1>7, <1>8, <1>9, <1>10, <1>11, <1>12 DEF Next

(* The inductive invariant holds in every state of the cron service: of     *)
(* timer.ts, ops.ts, jobs.ts and store.ts, with crashes.                    *)
THEOREM Invariance == Spec => []IInv
<1>1. Init => IInv
  BY InitInv
<1>2. IInv /\ [Next]_vars => IInv'
  BY NextInv
<1> QED
  BY <1>1, <1>2, PTL DEF Spec

(* The service, its store and its file hold jobs, claims and times of their *)
(* types.                                                                   *)
THEOREM Typing == Spec => []TypeOK
<1>1. IInv => TypeOK
  BY Parts
<1> QED
  BY <1>1, Invariance, PTL

(* A job is run by one of tick, start and run() at a time (timer.ts, the    *)
(* marker runningAtMs), unless its marker was taken or its update failed.   *)
THEOREM NoDoubleRuns == Spec => []OneAtATime
<1>1. IInv => OneAtATime
  BY Parts
<1> QED
  BY <1>1, Invariance, PTL

(* A marker runningAtMs means that someone has claimed the job, and who has *)
(* claimed it has marked it, whatever reloads and crashes came between.     *)
THEOREM MarkersAreClaims == Spec => []MarkerMeansClaim
<1>1. IInv => MarkerMeansClaim
  <2> SUFFICES ASSUME IInv, boot # "off", Untouched, NEW i \in DOMAIN mem \ lost
               PROVE  mem[i].mark # NoTime <=> Claimed(i)
    BY DEF MarkerMeansClaim
  <2>1. TypeOK /\ Sound /\ ManualMarked /\ Clear
    BY Parts
  <2>2. IsStore(mem)
    BY <2>1, TypeParts
  <2>3. i \in Ids /\ i # NoJob
    BY <2>2, NoJobAssumption DEF IsStore
  <2>4. Claimed(i) <=> i \in Batched \union {manual}
    BY BatchedFacts DEF Claimed
  <2>5. mem[i].mark # NoTime => i \in Batched \union {manual}
    BY <2>1 DEF Clear, MarksOf
  <2>6. i \in Batched => mem[i].mark # NoTime
    BY <2>1, <2>3 DEF Sound, Fits, Fit, Untouched
  <2>7. i = manual => mem[i].mark # NoTime
    BY <2>1, <2>3 DEF ManualMarked
  <2> QED
    BY <2>4, <2>5, <2>6, <2>7
<1> QED
  BY <1>1, Invariance, PTL

(* While a job has a next run, the timer is set or a tick is at work that   *)
(* will set it (timer.ts, armTimer).                                        *)
THEOREM SchedulerLives == Spec => []TimerIsArmed
<1>1. IInv => TimerIsArmed
  BY Parts
<1> QED
  BY <1>1, Invariance, PTL

-----------------------------------------------------------------------------
(* What a step may never do *)

LEMMA RunStartsClaims ==
  ASSUME TypeOK, NEW a \in Actors, NEW i \in Ids, RunStarts(a, i)
  PROVE  SameClaims(batch', batch)
<1> DEFINE c == [batch[a][i] EXCEPT !.st = "busy"]
<1>1. i \in DOMAIN batch[a] /\ Batches(batch)
  BY TypeParts DEF RunStarts
<1>2. c \in Claims
  <2>1. batch[a] \in [DOMAIN batch[a] -> Claims]
    BY <1>1 DEF Batches
  <2>2. batch[a][i] \in Claims
    BY <1>1, <2>1
  <2> QED
    BY <2>2 DEF Claims
<1>3. batch' = [batch EXCEPT ![a] = [batch[a] EXCEPT ![i] = c]]
  BY DEF RunStarts
<1> HIDE DEF c
<1> QED
  BY <1>1, <1>2, <1>3, ClaimStays

LEMMA RunEndsClaims ==
  ASSUME TypeOK, NEW a \in Actors, NEW i \in Ids, NEW o \in Outcomes, RunEnds(a, i, o)
  PROVE  SameClaims(batch', batch)
<1> DEFINE c == [st |-> o, at |-> now]
<1>1. i \in DOMAIN batch[a] /\ now \in Nat
  BY TypeParts DEF RunEnds
<1>2. c \in Claims
  BY <1>1 DEF Claims
<1>3. batch' = [batch EXCEPT ![a] = [batch[a] EXCEPT ![i] = c]]
  BY DEF RunEnds
<1> HIDE DEF c
<1> QED
  BY <1>1, <1>2, <1>3, ClaimStays

(* Ticks and start claim jobs; nothing else does.                           *)
NoClaims == \A a \in Actors : DOMAIN batch'[a] \subseteq DOMAIN batch[a]

LEMMA Dropping ==
  ASSUME TypeOK, NEW a \in Actors, Put(batch', batch, a, NoBatch)
  PROVE  NoClaims
<1>1. DOMAIN batch'[a] = {} /\ OnlyBatch(batch', batch, a)
  BY TypeParts, DropFacts
<1> QED
  BY <1>1 DEF OnlyBatch, NoClaims

LEMMA WhoClaims ==
  ASSUME TypeOK, [Next]_vars, ~TickLoad, ~BootMissed
  PROVE  NoClaims
<1>1. CASE batch' = batch
  BY <1>1 DEF NoClaims
<1>2. CASE TickApply
  <2>1. Put(batch', batch, "tick", NoBatch) /\ "tick" \in Actors
    BY <1>2 DEF TickApply, Put, Actors
  <2> QED
    BY <2>1, Dropping
<1>3. CASE BootApply
  <2>1. Put(batch', batch, "boot", NoBatch) /\ "boot" \in Actors
    BY <1>3 DEF BootApply, Put, Actors
  <2> QED
    BY <2>1, Dropping
<1>4. CASE Crash
  <2>1. \A a \in Actors : batch'[a] = NoBatch
    BY <1>4 DEF Crash
  <2> QED
    BY <2>1, NoBatchFacts DEF NoClaims
<1>5. ASSUME NEW a \in Actors, NEW i \in Ids, RunStarts(a, i)
      PROVE  NoClaims
  BY <1>5, RunStartsClaims DEF SameClaims, NoClaims
<1>6. ASSUME NEW a \in Actors, NEW i \in Ids, NEW o \in Outcomes, RunEnds(a, i, o)
      PROVE  NoClaims
  BY <1>6, RunEndsClaims DEF SameClaims, NoClaims
<1>7. CASE TickStep
  <2>1. CASE Fire \/ TickEnds
    BY <1>1, <2>1 DEF Fire, TickEnds
  <2> QED
    BY <1>2, <1>5, <1>6, <1>7, <2>1 DEF TickStep, Actors
<1>8. CASE BootStep
  <2>1. CASE BootLoad \/ BootFinal
    BY <1>1, <2>1 DEF BootLoad, BootFinal
  <2> QED
    BY <1>3, <1>5, <1>6, <1>8, <2>1 DEF BootStep, Actors
<1>9. CASE TimePasses \/ RunEndsLocked \/ Read \/ UNCHANGED vars
  BY <1>1, <1>9 DEF TimePasses, RunEndsLocked, ManualEnds, Read, vars
<1>10. ASSUME NEW i \in Ids, \/ \E d \in Drafts : Add(i, d)
                             \/ \E p \in Patches : Update(i, p) \/ UpdateRejected(i, p)
                             \/ Remove(i) \/ ManualStart(i)
       PROVE  NoClaims
  <2>1. batch' = batch
    BY <1>10 DEF Add, Update, UpdateRejected, Remove, ManualStart
  <2> QED
    BY <1>1, <2>1
<1> QED
  BY <1>4, <1>7, <1>8, <1>9, <1>10 DEF Next

(* Each job that a tick or start claims is taken from a store s where it is *)
(* runnable, and marked.                                                    *)
LEMMA ClaimedOnce ==
  ASSUME NEW s, IsStore(s), Fits(s, Batched, edit, lost), now \in Nat, now # NoTime,
         NEW S, S \subseteq DOMAIN s, \A k \in S : Runnable(s[k]), mem' = Marked(s, S),
         NEW i \in S, edit[i] = "none", mem'[i].kind = "at"
  PROVE  mem'[i].status = "none"
<1>1. Tagged(mem', s, S)
  BY MarkedTags
<1>2. mem'[i].kind = s[i].kind /\ mem'[i].status = s[i].status
  BY <1>1 DEF Tagged
<1>3. s[i].enabled /\ Fit(s[i], i, Batched, edit, lost)
  BY DEF Runnable, Fits
<1> QED
  BY <1>2, <1>3 DEF Fit

ClaimsAreFirstRuns ==
  \A a \in Actors : \A i \in DOMAIN batch'[a] \ DOMAIN batch[a] :
    mem'[i].kind = "at" /\ edit[i] = "none" => mem'[i].status = "none"

LEMMA TickClaimsFirstRuns ==
  ASSUME IInv, TickLoad
  PROVE  ClaimsAreFirstRuns
<1>1. TypeOK /\ Sound
  BY Parts
<1>2. IsStore(file) /\ now \in Nat /\ now # NoTime /\ Batches(batch) /\ "tick" \in Actors
  BY <1>1, TypeParts DEF Actors
<1> DEFINE due == {i \in DOMAIN file : Runnable(file[i])}
<1>3. CASE due = {}
  BY <1>3 DEF TickLoad, ClaimsAreFirstRuns
<1>4. CASE due # {}
  <2>1. mem' = Marked(file, due) /\ Put(batch', batch, "tick", Claim(due))
    BY <1>4 DEF TickLoad, Put
  <2>2. due \subseteq DOMAIN file /\ \A k \in due : Runnable(file[k])
    OBVIOUS
  <2> HIDE DEF due
  <2>3. due \subseteq Ids
    BY <1>2, <2>2 DEF IsStore
  <2>4. DOMAIN batch'["tick"] = due /\ OnlyBatch(batch', batch, "tick")
    BY <1>2, <1>4, <2>1, <2>3, ClaimFacts
  <2> SUFFICES ASSUME NEW i \in due, edit[i] = "none", mem'[i].kind = "at"
               PROVE  mem'[i].status = "none"
    BY <2>4 DEF ClaimsAreFirstRuns, OnlyBatch
  <2> QED
    BY <1>1, <1>2, <2>1, <2>2, ClaimedOnce DEF Sound
<1> QED
  BY <1>3, <1>4

LEMMA BootClaimsFirstRuns ==
  ASSUME IInv, BootMissed
  PROVE  ClaimsAreFirstRuns
<1>1. TypeOK /\ Sound
  BY Parts
<1>2. IsStore(mem) /\ now \in Nat /\ now # NoTime /\ Batches(batch) /\ "boot" \in Actors
  BY <1>1, TypeParts DEF Actors
<1> DEFINE missed == {i \in DOMAIN mem \ interrupted :
                        Runnable(mem[i]) /\ (mem[i].kind = "at" => mem[i].status = "none")}
<1>3. CASE missed = {}
  BY <1>3 DEF BootMissed, ClaimsAreFirstRuns
<1>4. CASE missed # {}
  <2>1. mem' = Marked(mem, missed) /\ Put(batch', batch, "boot", Claim(missed))
    BY <1>4 DEF BootMissed, Put
  <2>2. missed \subseteq DOMAIN mem /\ \A k \in missed : Runnable(mem[k])
    OBVIOUS
  <2> HIDE DEF missed
  <2>3. missed \subseteq Ids
    BY <1>2, <2>2 DEF IsStore
  <2>4. DOMAIN batch'["boot"] = missed /\ OnlyBatch(batch', batch, "boot")
    BY <1>2, <1>4, <2>1, <2>3, ClaimFacts
  <2> SUFFICES ASSUME NEW i \in missed, edit[i] = "none", mem'[i].kind = "at"
               PROVE  mem'[i].status = "none"
    BY <2>4 DEF ClaimsAreFirstRuns, OnlyBatch
  <2> QED
    BY <1>1, <1>2, <2>1, <2>2, ClaimedOnce DEF Sound
<1> QED
  BY <1>3, <1>4

(* A one-shot job that has run is not claimed again until it is edited      *)
(* (timer.ts, applyJobResult and runMissedJobs).                            *)
THEOREM OneShotsStayDone == Spec => OneShotsRunOnce
<1>1. IInv /\ [Next]_vars => ClaimsAreFirstRuns
  <2> SUFFICES ASSUME IInv, [Next]_vars
               PROVE  ClaimsAreFirstRuns
    OBVIOUS
  <2>1. TypeOK
    BY Parts
  <2>2. NoClaims => ClaimsAreFirstRuns
    BY DEF NoClaims, ClaimsAreFirstRuns
  <2> QED
    BY <2>1, <2>2, WhoClaims, TickClaimsFirstRuns, BootClaimsFirstRuns
<1>2. IInv /\ [Next]_vars =>
        [\A a \in Actors : \A i \in DOMAIN batch'[a] \ DOMAIN batch[a] :
           mem'[i].kind = "at" /\ edit[i] = "none" => mem'[i].status = "none"]_vars
  BY <1>1 DEF ClaimsAreFirstRuns
<1> QED
  BY <1>2, Invariance, PTL DEF Spec, OneShotsRunOnce

(* The next runs of due jobs are kept by a step.                            *)
DueKept ==
  \A i \in DOMAIN mem \intersect DOMAIN mem' :
    edit'[i] = "none" /\ Runnable(mem[i]) /\ ~Claimed(i) => mem'[i].next = mem[i].next

LEMMA SameMemory ==
  ASSUME mem' = mem
  PROVE  DueKept
  BY DEF DueKept

LEMMA TaggedDue ==
  ASSUME NEW S, Tagged(mem', mem, S)
  PROVE  DueKept
  BY DEF Tagged, DueKept

LEMMA TickLoadKeepsDue ==
  ASSUME IInv, TickLoad, Untouched
  PROVE  DueKept
<1>1. TypeOK /\ Clear /\ OffIsStopped
  BY Parts
<1>2. IsStore(file) /\ now \in Nat /\ now # NoTime
  BY <1>1, TypeParts
<1>3. boot # "off"
  BY <1>1 DEF TickLoad, OffIsStopped, Stopped
<1>4. Agree
  BY <1>1, <1>3 DEF Clear
<1> DEFINE due == {i \in DOMAIN file : Runnable(file[i])}
<1>5. CASE due = {}
  <2>1. mem' = Maintain(file, now)
    BY <1>5 DEF TickLoad
  <2>2. NextsKept(mem', file)
    BY <1>2, <2>1, MaintainKeeps
  <2> QED
    BY <1>4, <2>2 DEF NextsKept, NextKept, SameDomain, Agree, DueKept, Runnable
<1>6. CASE due # {}
  <2>1. mem' = Marked(file, due)
    BY <1>6 DEF TickLoad
  <2> HIDE DEF due
  <2>2. Tagged(mem', file, due)
    BY <1>2, <2>1, MarkedTags
  <2> QED
    BY <1>4, <2>2 DEF Tagged, SameDomain, Agree, DueKept
<1> QED
  BY <1>5, <1>6

LEMMA ApplyKeepsDue ==
  ASSUME Agree, NEW a \in Actors, FileNextKept(batch[a]), DOMAIN mem' \subseteq DOMAIN file
  PROVE  DueKept
<1> SUFFICES ASSUME NEW i \in DOMAIN mem \intersect DOMAIN mem', Runnable(mem[i]), ~Claimed(i)
             PROVE  mem'[i].next = mem[i].next
  BY DEF DueKept
<1>1. i \notin DOMAIN batch[a]
  BY DEF Claimed
<1>2. mem[i].next = file[i].next /\ mem[i].enabled = file[i].enabled
  BY DEF Agree
<1>3. file[i].enabled /\ file[i].next # NoTime
  BY <1>2 DEF Runnable
<1> QED
  BY <1>1, <1>2, <1>3 DEF FileNextKept

LEMMA ReadKeepsDue ==
  ASSUME IInv, Read
  PROVE  DueKept
<1>1. IsStore(mem) /\ now \in Nat
  BY Parts, TypeParts
<1>2. NextsKept(mem', mem)
  BY <1>1, MaintainKeeps DEF Read
<1> QED
  BY <1>2 DEF NextsKept, NextKept, SameDomain, DueKept, Runnable

LEMMA EditKeepsDue ==
  ASSUME IInv, NEW i \in Ids, NEW p \in Patches, Update(i, p) \/ UpdateRejected(i, p)
  PROVE  DueKept
<1>1. IsStore(mem) /\ edit \in [Ids -> {"none", "accepted", "rejected"}]
  BY Parts, TypeParts
<1>2. edit'[i] # "none"
  <2>1. CASE Update(i, p)
    <3>1. edit' = [edit EXCEPT ![i] = IF edit[i] = "none" THEN "accepted" ELSE edit[i]]
      BY <2>1 DEF Update
    <3> QED
      BY <1>1, <3>1
  <2>2. CASE UpdateRejected(i, p)
    <3>1. edit' = [edit EXCEPT ![i] = "rejected"]
      BY <2>2 DEF UpdateRejected
    <3> QED
      BY <1>1, <3>1
  <2> QED
    BY <2>1, <2>2
<1>3. PICK v : mem' = [mem EXCEPT ![i] = v]
  BY DEF Update, UpdateRejected, Save
<1>4. \A k \in DOMAIN mem : k # i => mem'[k] = mem[k]
  BY <1>3
<1> QED
  BY <1>2, <1>4 DEF DueKept

LEMMA StartsKeepDue ==
  ASSUME IInv, \/ BootMissed
               \/ \E a \in Actors, i \in Ids : RunStarts(a, i)
  PROVE  DueKept
<1>1. IsStore(mem) /\ now \in Nat /\ now # NoTime
  BY Parts, TypeParts
<1>2. mem' = mem \/ \E S : mem' = Marked(mem, S)
  BY DEF BootMissed, RunStarts
<1>3. ASSUME NEW S, mem' = Marked(mem, S)
      PROVE  DueKept
  <2>1. Tagged(mem', mem, S)
    BY <1>1, <1>3, MarkedTags
  <2> QED
    BY <2>1, TaggedDue
<1> QED
  BY <1>2, <1>3, SameMemory

LEMMA AppliesKeepDue ==
  ASSUME IInv, Untouched, TickApply \/ BootApply
  PROVE  DueKept
<1>1. /\ TypeOK /\ OneAtATime /\ Sound /\ Clear /\ OffIsStopped
  BY Parts
<1>2. boot # "off"
  BY <1>1 DEF TickApply, BootApply, OffIsStopped, Stopped
<1>3. Agree
  BY <1>1, <1>2 DEF Clear
<1>4. PICK a \in Actors : /\ Is(batch[a], Outcomes) /\ ApplyResults(batch[a])
                          /\ Put(batch', batch, a, NoBatch)
  BY DEF TickApply, BootApply, Put, Actors
<1>5. manual = NoJob /\ manual' = NoJob /\ edit' = edit
  BY DEF TickApply, BootApply, LockFree
<1>6. FileNextKept(batch[a]) /\ DOMAIN mem' \subseteq DOMAIN file
  BY <1>1, <1>4, <1>5, Applying
<1> QED
  BY <1>3, <1>6, ApplyKeepsDue

LEMMA StepKeepsDue ==
  ASSUME IInv, [Next]_vars, used' = used, manual' = manual,
         ~(boot = "final" /\ boot' = "up"), Untouched
  PROVE  DueKept
<1>1. TypeOK /\ OffIsStopped /\ Known
  BY Parts
<1>2. CASE TimePasses \/ UNCHANGED vars
  BY <1>2, SameMemory DEF TimePasses, vars
<1>3. CASE TickStep
  <2>1. CASE Fire \/ TickEnds \/ \E i \in Ids, o \in Outcomes : RunEnds("tick", i, o)
    BY <2>1, SameMemory DEF Fire, TickEnds, RunEnds
  <2>2. CASE TickLoad
    BY <2>2, TickLoadKeepsDue
  <2>3. CASE TickApply
    BY <2>3, AppliesKeepDue
  <2>4. CASE \E i \in Ids : RunStarts("tick", i)
    BY <2>4, StartsKeepDue DEF Actors
  <2> QED
    BY <1>3, <2>1, <2>2, <2>3, <2>4 DEF TickStep
<1>4. CASE BootStep
  <2>1. CASE BootLoad
    <3>1. DOMAIN mem = {}
      BY <1>1, <2>1, NoBatchFacts DEF BootLoad, OffIsStopped, Stopped, NoBatch
    <3> QED
      BY <3>1 DEF DueKept
  <2>2. CASE \E i \in Ids, o \in Outcomes : RunEnds("boot", i, o)
    BY <2>2, SameMemory DEF RunEnds
  <2>3. CASE BootMissed
    BY <2>3, StartsKeepDue
  <2>4. CASE BootApply
    BY <2>4, AppliesKeepDue
  <2>5. CASE BootFinal
    BY <2>5 DEF BootFinal
  <2>6. CASE \E i \in Ids : RunStarts("boot", i)
    BY <2>6, StartsKeepDue DEF Actors
  <2> QED
    BY <1>4, <2>1, <2>2, <2>3, <2>4, <2>5, <2>6 DEF BootStep
<1>5. CASE RunEndsLocked
  BY <1>5 DEF RunEndsLocked, ManualEnds
<1>6. CASE Read
  BY <1>6, ReadKeepsDue
<1>7. CASE \E i \in Ids, d \in Drafts : Add(i, d)
  BY <1>7 DEF Add
<1>8. CASE \E i \in Ids, p \in Patches : Update(i, p) \/ UpdateRejected(i, p)
  BY <1>8, EditKeepsDue
<1>9. CASE \E i \in Ids : Remove(i)
  <2>1. PICK i \in Ids : mem' = [k \in DOMAIN mem \ {i} |-> mem[k]]
    BY <1>9 DEF Remove, Save, Restrict
  <2> QED
    BY <2>1 DEF DueKept
<1>10. CASE \E i \in Ids : ManualStart(i)
  BY <1>10, NoJobAssumption DEF ManualStart, Operation, LockFree
<1>11. CASE Crash
  <2>1. DOMAIN mem' = {}
    BY <1>11, NoBatchFacts DEF Crash, NoBatch
  <2> QED
    BY <2>1 DEF DueKept
<1> QED
  BY <1>2, <1>3, <1>4, <1>5, <1>6, <1>7, <1>8, <1>9, <1>10, <1>11 DEF Next

(* A run that is due stays due until someone claims it: ticks, reads,       *)
(* results, the catch-up and the edits of other jobs keep its time (jobs.ts,*)
(* recomputeNextRunsForMaintenance; #13992).                                *)
THEOREM DueRunsStay == Spec => DueRunsAreKept
<1>1. IInv /\ [Next]_vars =>
        [used' = used /\ manual' = manual /\ ~(boot = "final" /\ boot' = "up") /\ Untouched =>
           \A i \in DOMAIN mem \intersect DOMAIN mem' :
             edit'[i] = "none" /\ Runnable(mem[i]) /\ ~Claimed(i) => mem'[i].next = mem[i].next]_vars
  BY StepKeepsDue DEF DueKept
<1> QED
  BY <1>1, Invariance, PTL DEF Spec, DueRunsAreKept
=============================================================================
