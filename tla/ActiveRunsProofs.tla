------------------------- MODULE ActiveRunsProofs --------------------------
(***************************************************************************)
(* Proofs about ActiveRuns, for any set of subagents and any bounds.       *)
(*                                                                         *)
(* A handler is a composition of a few operations on the runs, the         *)
(* children, the map and the log: a child is told to stop or closes, a run *)
(* changes but for its links, a run gets a new subscription, a new run     *)
(* begins, an event is read.  Each operation keeps Consistent, and so does *)
(* every handler.  The second half shows the same of what an active run    *)
(* needs to come to an end (ProgressInv): of the child or timer that it    *)
(* has, of the event that it waits for, and of the gateway's turns.        *)
(***************************************************************************)
EXTENDS ActiveRuns, FiniteSetTheorems, SequenceTheorems, TLAPS

Updated(p, q, i, v) == p = [q EXCEPT ![i] = v]
Appended(p, q, v)   == p = Append(q, v)

LEMMA SeqFacts ==
  ASSUME NEW S, NEW q \in Seq(S)
  PROVE  /\ Len(q) \in Nat /\ DOMAIN q = 1 .. Len(q)
         /\ \A i \in DOMAIN q : q[i] \in S /\ i \in Nat /\ i # 0
  BY LenProperties, ElementOfSeq

LEMMA SeqUpdate ==
  ASSUME NEW S, NEW q \in Seq(S), NEW i \in DOMAIN q, NEW v \in S,
         NEW p, Updated(p, q, i, v)
  PROVE  /\ p \in Seq(S) /\ Len(p) = Len(q) /\ DOMAIN p = DOMAIN q
         /\ \A j \in DOMAIN q : p[j] = IF j = i THEN v ELSE q[j]
<1>1. p = [q EXCEPT ![i] = v]
  BY DEF Updated
<1>2. i \in 1 .. Len(q)
  BY LenProperties
<1>3. p \in Seq(S) /\ Len(p) = Len(q)
  BY <1>1, <1>2, ExceptSeq
<1> QED
  BY <1>1, <1>3

LEMMA SeqAppend ==
  ASSUME NEW S, NEW q \in Seq(S), NEW v \in S, NEW p, Appended(p, q, v)
  PROVE  /\ p \in Seq(S) /\ Len(p) = Len(q) + 1
         /\ DOMAIN p = DOMAIN q \union {Len(q) + 1} /\ Len(q) + 1 \notin DOMAIN q
<1>1. p = Append(q, v)
  BY DEF Appended
<1>2. Len(q) \in Nat /\ DOMAIN q = 1 .. Len(q)
  BY LenProperties
<1>3. p \in Seq(S) /\ Len(p) = Len(q) + 1
  BY <1>1, AppendProperties
<1>4. DOMAIN p = 1 .. (Len(q) + 1)
  BY <1>3, LenProperties
<1> QED
  BY <1>2, <1>3, <1>4

LEMMA SeqAppendAt ==
  ASSUME NEW S, NEW q \in Seq(S), NEW v \in S, NEW p, Appended(p, q, v)
  PROVE  /\ \A j \in DOMAIN q : p[j] = q[j]
         /\ p[Len(q) + 1] = v
<1>1. p = Append(q, v)
  BY DEF Appended
<1>2. DOMAIN q = 1 .. Len(q)
  BY LenProperties
<1> QED
  BY <1>1, <1>2, AppendProperties

-----------------------------------------------------------------------------
(* The operators on runs *)

LEMMA FlushedType ==
  ASSUME NEW u \in Run
  PROVE  Flushed(u) \in Run
<1> DEFINE b == IF u.parts THEN IsActive(u) ELSE u.streaming
           c == u.silenced /\ ~u.parts
<1>1. b \in BOOLEAN
  <2>1. IsActive(u) \in BOOLEAN
    BY DEF IsActive
  <2>2. u.streaming \in BOOLEAN
    BY DEF Run
  <2> QED
    BY <2>1, <2>2
<1>2. c \in BOOLEAN
  OBVIOUS
<1> HIDE DEF b, c
<1>3. [u EXCEPT !.persists = FALSE, !.streaming = b, !.silenced = c] \in Run
  BY <1>1, <1>2 DEF Run
<1> QED
  BY <1>3 DEF Flushed, b, c

LEMMA RunOperators ==
  ASSUME NEW u \in Run, NEW status \in {"completed", "error"}, NEW k
  PROVE  /\ Emitted(u) \in Run
         /\ TextClosed(u, k) \in Run
         /\ Flushed(u) \in Run
         /\ Finished(u, status) \in Run
         /\ Unlinked(u, k) \in Run
<1>1. None \in 0 .. MaxChildren /\ MaxChildren \in Nat
  BY BoundsAssumption DEF None
<1>2. Emitted(u) \in Run
  BY <1>1 DEF Run, Emitted
<1>3. Flushed(u) \in Run
  BY FlushedType
<1>6. TextClosed(u, k) \in Run
  <2>1. [u EXCEPT !.parts = FALSE, !.silent = None, !.silenced = TRUE, !.persists = TRUE] \in Run
    BY <1>1 DEF Run
  <2> QED
    BY <2>1 DEF TextClosed
<1>4. Finished(u, status) \in Run
  <2> DEFINE v == [u EXCEPT !.status = status]
  <2>1. v \in Run
    BY DEF Run
  <2>2. Flushed(v) \in Run
    BY <2>1, FlushedType
  <2> DEFINE w == Flushed(v)
  <2>4. w \in Run
    BY <2>2
  <2> HIDE DEF v, w
  <2>3. [w EXCEPT !.sub = None, !.cleanups = @ + 1] \in Run
    <3> DEFINE c == w.cleanups + 1
    <3>1. c \in Nat
      BY <2>4 DEF Run
    <3> HIDE DEF c
    <3>2. [w EXCEPT !.sub = None, !.cleanups = c] \in Run
      BY <1>1, <2>4, <3>1 DEF Run
    <3> QED
      BY <3>2 DEF c
  <2> QED
    BY <2>3 DEF Finished, v, w
<1>5. Unlinked(u, k) \in Run
  BY <1>1 DEF Run, Unlinked
<1> QED
  BY <1>2, <1>3, <1>4, <1>5, <1>6

(* What is added to the message, or taken out of it or saved, leaves the    *)
(* run where it is.                                                         *)
LEMMA MessageOperators ==
  ASSUME NEW u \in Run, NEW k, NEW v \in {Emitted(u), TextClosed(u, k), Flushed(u)}
  PROVE  /\ v \in Run
         /\ v.s = u.s /\ v.status = u.status /\ v.child = u.child /\ v.sub = u.sub
         /\ v.seq = u.seq /\ v.finalizes = u.finalizes
<1>1. v \in Run
  <2>1. "error" \in {"completed", "error"}
    OBVIOUS
  <2> QED
    BY <2>1, RunOperators
<1>2. CASE v = Emitted(u)
  BY <1>1, <1>2 DEF Run, Emitted
<1>3. CASE v = TextClosed(u, k)
  BY <1>1, <1>3 DEF Run, TextClosed
<1>4. CASE v = Flushed(u)
  BY <1>1, <1>4 DEF Run, Flushed
<1> QED
  BY <1>2, <1>3, <1>4, <1>1

(* A change of a run that leaves the events it has seen and its place alone *)
(* and gives it no new child or life.                                       *)
Keeps(v, u) ==
  /\ v.s = u.s /\ v.child = u.child /\ v.seq = u.seq /\ v.seen = u.seen
  /\ v.revived = u.revived

IsOver(v) == v.status \in {"completed", "error"}

Milder(v, u) ==
  /\ v \in Run /\ Keeps(v, u)
  /\ v.kills \in {None, u.kills, u.child}
  /\ v.sub \in {None, u.sub}
  /\ v.status = u.status \/ (IsOver(v) /\ v.sub = None)
  /\ v.cleanups <= u.cleanups \/ IsOver(v)
  /\ Saved(u) => Saved(v)

LEMMA MilderTrans ==
  ASSUME NEW u \in Run, NEW v, NEW w, Milder(v, u), Milder(w, v)
  PROVE  Milder(w, u)
<1>1. u.cleanups \in Nat /\ v.cleanups \in Nat /\ w.cleanups \in Nat
  BY DEF Milder, Run
<1> QED
  BY <1>1 DEF Milder, Keeps, IsOver

LEMMA MilderOperators ==
  ASSUME NEW u \in Run, NEW status \in {"completed", "error"}, NEW k
  PROVE  /\ Milder(Emitted(u), u)
         /\ Milder(TextClosed(u, k), u)
         /\ Milder(Flushed(u), u)
         /\ Milder(Finished(u, status), u)
         /\ Milder(Unlinked(u, k), u)
         /\ Milder([u EXCEPT !.finalizes = FALSE], u)
         /\ Milder([u EXCEPT !.kills = None], u)
         /\ Milder([u EXCEPT !.cleanups = @ - 1], u) \/ u.cleanups = 0
<1>1. u.cleanups \in Nat /\ None \in 0 .. MaxChildren
  BY BoundsAssumption DEF Run, None
<1>2. Milder(Emitted(u), u)
  <2>1. Emitted(u) \in Run
    BY RunOperators
  <2> QED
    BY <1>1, <2>1 DEF Run, Milder, Keeps, IsOver, Emitted, Saved, IsActive
<1>9. Milder(TextClosed(u, k), u)
  <2>1. TextClosed(u, k) \in Run
    BY RunOperators
  <2> QED
    BY <1>1, <2>1 DEF Run, Milder, Keeps, IsOver, TextClosed, Saved, IsActive
<1>3. Milder(Flushed(u), u)
  <2>1. Flushed(u) \in Run
    BY RunOperators
  <2> QED
    BY <1>1, <2>1 DEF Run, Milder, Keeps, IsOver, Flushed, Saved, IsActive
<1>4. Milder(Finished(u, status), u)
  <2>1. Finished(u, status) \in Run
    BY RunOperators
  <2> QED
    BY <1>1, <2>1 DEF Run, Milder, Keeps, IsOver, Finished, Flushed, Saved, IsActive
<1>5. Milder(Unlinked(u, k), u)
  <2>1. Unlinked(u, k) \in Run
    BY RunOperators
  <2> QED
    BY <1>1, <2>1 DEF Run, Milder, Keeps, IsOver, Unlinked, Saved, IsActive
<1>6. Milder([u EXCEPT !.finalizes = FALSE], u)
  <2>1. [u EXCEPT !.finalizes = FALSE] \in Run
    BY DEF Run
  <2> QED
    BY <1>1, <2>1 DEF Run, Milder, Keeps, IsOver, Saved, IsActive
<1>7. Milder([u EXCEPT !.kills = None], u)
  BY <1>1 DEF Run, Milder, Keeps, IsOver, Saved, IsActive
<1>8. CASE u.cleanups # 0
  <2> DEFINE c == u.cleanups - 1
  <2>1. c \in Nat /\ c <= u.cleanups
    BY <1>1, <1>8
  <2> HIDE DEF c
  <2>2. Milder([u EXCEPT !.cleanups = c], u)
    BY <2>1 DEF Run, Milder, Keeps, IsOver, Saved, IsActive
  <2> QED
    BY <1>2, <1>3, <1>4, <1>5, <1>6, <1>7, <1>9, <2>2 DEF c
<1> QED
  BY <1>2, <1>3, <1>4, <1>5, <1>6, <1>7, <1>8, <1>9

-----------------------------------------------------------------------------
(* Operations that keep Consistent *)

(* What the parts of Linked say of the sequences.                           *)
LEMMA LinkedFacts ==
  ASSUME NEW rs, NEW cs, NEW en, Linked(rs, cs, en)
  PROVE  /\ rs \in Seq(Run) /\ cs \in Seq(Child) /\ en \in [Sessions -> Nat]
         /\ Len(rs) \in Nat /\ Len(cs) \in Nat
         /\ DOMAIN rs = 1 .. Len(rs) /\ DOMAIN cs = 1 .. Len(cs)
         /\ \A r \in DOMAIN rs : rs[r] \in Run /\ RunLinks(r, rs, cs)
         /\ \A k \in DOMAIN cs : cs[k] \in Child /\ ChildLinks(k, rs, cs)
         /\ \A s \in Sessions : EntryLinks(s, rs, en)
  BY SeqFacts DEF Linked, Shaped

(* Children are told to stop, or close.                                     *)
Fainter(ds, cs) ==
  /\ ds \in Seq(Child) /\ DOMAIN ds = DOMAIN cs
  /\ \A k \in DOMAIN cs :
       /\ ds[k].run = cs[k].run /\ ds[k].cli = cs[k].cli
       /\ ds[k].state = "up" => cs[k].state = "up"
       /\ cs[k].state = "closed" => ds[k].state = "closed"
       /\ ds[k].state # "closed" => ds[k].pos = cs[k].pos

LEMMA FainterLinks ==
  ASSUME NEW rs, NEW cs, NEW en, Linked(rs, cs, en), NEW ds, Fainter(ds, cs)
  PROVE  Linked(rs, ds, en)
<1>1. Len(ds) = Len(cs)
  BY LinkedFacts, SeqFacts DEF Fainter
<1>2. ASSUME NEW r \in DOMAIN rs
      PROVE  RunLinks(r, rs, ds)
  <2>1. RunLinks(r, rs, cs)
    BY LinkedFacts
  <2> QED
    BY <2>1 DEF Fainter, RunLinks
<1>3. ASSUME NEW k \in DOMAIN ds
      PROVE  ChildLinks(k, rs, ds)
  <2>1. /\ k \in DOMAIN cs /\ ChildLinks(k, rs, cs)
        /\ \A r \in DOMAIN rs : RunLinks(r, rs, cs)
    BY LinkedFacts DEF Fainter
  <2>2. cs[k].run \in DOMAIN rs /\ rs[cs[k].run].child \in DOMAIN cs
    BY <2>1 DEF ChildLinks, RunLinks
  <2> QED
    BY <2>1, <2>2 DEF Fainter, ChildLinks
<1> QED
  BY <1>1, <1>2, <1>3, LinkedFacts DEF Linked, Shaped, Fainter

LEMMA FainterKeeps ==
  ASSUME NEW rs, NEW cs, NEW en, NEW lg, Consistent(rs, cs, en, lg),
         NEW ds, Fainter(ds, cs)
  PROVE  Consistent(rs, ds, en, lg)
<1>1. Linked(rs, cs, en) /\ Linked(rs, ds, en)
  BY FainterLinks DEF Consistent
<1>2. ASSUME NEW k \in DOMAIN ds
      PROVE  Reads(k, rs, ds, lg)
  <2>1. k \in DOMAIN cs /\ Reads(k, rs, cs, lg)
    BY DEF Fainter, Consistent
  <2> QED
    BY <2>1 DEF Fainter, Reads
<1> QED
  BY <1>1, <1>2 DEF Consistent

LEMMA KilledFainter ==
  ASSUME NEW cs \in Seq(Child), NEW k \in DOMAIN cs \union {None}
  PROVE  Fainter(Killed(cs, k), cs)
<1>1. /\ DOMAIN cs = 1 .. Len(cs) /\ Len(cs) \in Nat
      /\ \A j \in DOMAIN cs : cs[j] \in Child
  BY SeqFacts
<1>2. CASE k # None /\ cs[k].state = "up"
  <2> DEFINE c == [cs[k] EXCEPT !.state = "killed"]
  <2>1. k \in DOMAIN cs /\ cs[k] \in Child
    BY <1>1, <1>2
  <2>2. /\ c \in Child /\ c.run = cs[k].run /\ c.cli = cs[k].cli /\ c.pos = cs[k].pos
        /\ c.state = "killed"
    BY <2>1 DEF Child
  <2>3. Killed(cs, k) = [cs EXCEPT ![k] = c]
    BY <1>2 DEF Killed
  <2> HIDE DEF c
  <2> DEFINE ds == Killed(cs, k)
  <2>4. Updated(ds, cs, k, c)
    BY <2>3 DEF Updated
  <2> HIDE DEF ds
  <2>5. /\ ds \in Seq(Child) /\ DOMAIN ds = DOMAIN cs
        /\ \A j \in DOMAIN cs : ds[j] = IF j = k THEN c ELSE cs[j]
    BY <2>1, <2>2, <2>4, SeqUpdate
  <2>6. Fainter(ds, cs)
    BY <1>2, <2>2, <2>5 DEF Fainter
  <2> QED
    BY <2>6 DEF ds
<1>3. CASE ~(k # None /\ cs[k].state = "up")
  <2>1. Killed(cs, k) = cs
    BY <1>3 DEF Killed
  <2> QED
    BY <2>1 DEF Fainter
<1> QED
  BY <1>2, <1>3

LEMMA ClosedFainter ==
  ASSUME NEW cs \in Seq(Child), NEW k \in DOMAIN cs
  PROVE  /\ Fainter(Closed(cs, k), cs)
         /\ Closed(cs, k)[k].state = "closed"
         /\ Len(Closed(cs, k)) = Len(cs)
<1> DEFINE c  == [cs[k] EXCEPT !.state = "closed", !.pos = 0, !.until = 0]
           ds == Closed(cs, k)
<1>1. cs[k] \in Child
  BY SeqFacts
<1>2. 0 \in 0 .. MaxEvents /\ 0 \in Nat
  BY BoundsAssumption
<1>3. c \in Child /\ c.run = cs[k].run /\ c.cli = cs[k].cli /\ c.state = "closed"
  BY <1>1, <1>2 DEF Child
<1>4. Updated(ds, cs, k, c)
  BY DEF Updated, Closed
<1> HIDE DEF ds, c
<1>5. /\ ds \in Seq(Child) /\ DOMAIN ds = DOMAIN cs /\ Len(ds) = Len(cs)
      /\ \A j \in DOMAIN cs : ds[j] = IF j = k THEN c ELSE cs[j]
  BY <1>1, <1>3, <1>4, SeqUpdate
<1>6. Fainter(ds, cs) /\ ds[k].state = "closed"
  BY <1>3, <1>5 DEF Fainter
<1> QED
  BY <1>5, <1>6 DEF ds

LEMMA FainterTrans ==
  ASSUME NEW cs, NEW ds, NEW es, Fainter(ds, cs), Fainter(es, ds)
  PROVE  Fainter(es, cs)
  BY DEF Fainter

(* Run r has no subscription at work. *)
NoSub(r, cs) ==
  \A k \in DOMAIN cs : cs[k].run = r /\ ~cs[k].cli => cs[k].state # "up"

(* A run changes, and keeps its subscription unless that one has stopped.   *)
LEMMA MilderKeeps ==
  ASSUME NEW rs, NEW cs, NEW en, NEW lg, Consistent(rs, cs, en, lg),
         NEW r \in DOMAIN rs, NEW v, Milder(v, rs[r]),
         v.sub = rs[r].sub \/ NoSub(r, cs),
         NEW ps, Updated(ps, rs, r, v)
  PROVE  Consistent(ps, cs, en, lg)
<1>1. Linked(rs, cs, en)
  BY DEF Consistent
<1>2. rs \in Seq(Run) /\ rs[r] \in Run /\ v \in Run /\ Keeps(v, rs[r])
  BY <1>1, LinkedFacts DEF Milder
<1>3. /\ ps \in Seq(Run) /\ Len(ps) = Len(rs) /\ DOMAIN ps = DOMAIN rs
      /\ \A q \in DOMAIN rs : ps[q] = IF q = r THEN v ELSE rs[q]
  BY <1>2, SeqUpdate
<1>4. \A q \in DOMAIN rs : Keeps(ps[q], rs[q])
  BY <1>2, <1>3 DEF Keeps
<1>5. ASSUME NEW q \in DOMAIN ps
      PROVE  RunLinks(q, ps, cs)
  <2>1. RunLinks(q, rs, cs) /\ q \in DOMAIN rs
    BY <1>1, <1>3, LinkedFacts
  <2>2. CASE q # r
    BY <1>3, <2>1, <2>2 DEF RunLinks
  <2>3. CASE q = r
    BY <1>3, <2>1, <2>3 DEF RunLinks, Milder, Keeps, IsOver, IsActive
  <2> QED
    BY <2>2, <2>3
<1>6. ASSUME NEW k \in DOMAIN cs
      PROVE  ChildLinks(k, ps, cs)
  <2>1. ChildLinks(k, rs, cs) /\ cs[k].run \in DOMAIN rs
    BY <1>1, LinkedFacts DEF ChildLinks
  <2>2. Keeps(ps[cs[k].run], rs[cs[k].run])
    BY <1>4, <2>1
  <2>3. ~cs[k].cli /\ cs[k].state = "up" => ps[cs[k].run].sub = k
    BY <1>3, <2>1 DEF ChildLinks, NoSub
  <2> QED
    BY <1>3, <2>1, <2>2, <2>3 DEF ChildLinks, Keeps
<1>7. ASSUME NEW s \in Sessions
      PROVE  EntryLinks(s, ps, en)
  BY <1>1, <1>3, <1>4, LinkedFacts DEF EntryLinks, Keeps
<1>8. Linked(ps, cs, en)
  BY <1>1, <1>3, <1>5, <1>6, <1>7 DEF Linked, Shaped
<1>9. ASSUME NEW q \in DOMAIN ps
      PROVE  Saved(ps[q]) /\ Found(q, ps, en) /\ Cursor(ps[q], lg)
  <2>1. q \in DOMAIN rs /\ Saved(rs[q]) /\ Found(q, rs, en) /\ Cursor(rs[q], lg)
    BY <1>3 DEF Consistent
  <2>2. CASE q # r
    BY <1>3, <2>1, <2>2 DEF Found
  <2>3. CASE q = r
    <3>1. Saved(v)
      BY <2>1, <2>3 DEF Milder
    <3>2. Cursor(v, lg)
      BY <1>2, <2>1, <2>3 DEF Cursor, Gapless, Keeps
    <3>3. Found(q, ps, en)
      <4>1. v.cleanups \in Nat /\ rs[r].cleanups \in Nat
        BY <1>2 DEF Run
      <4> QED
        BY <1>2, <1>3, <2>1, <2>3, <4>1 DEF Found, Milder, Keeps, IsOver, IsActive
    <3> QED
      BY <1>3, <2>3, <3>1, <3>2, <3>3
  <2> QED
    BY <2>2, <2>3
<1>10. ASSUME NEW k \in DOMAIN cs
       PROVE  Reads(k, ps, cs, lg)
  <2>1. cs[k].run \in DOMAIN rs /\ Reads(k, rs, cs, lg)
    BY <1>1, LinkedFacts DEF ChildLinks, Consistent
  <2>2. ps[cs[k].run].seq = rs[cs[k].run].seq
    BY <1>4, <2>1 DEF Keeps
  <2> QED
    BY <2>1, <2>2 DEF Reads
<1> QED
  BY <1>8, <1>9, <1>10 DEF Consistent

(* A run u becomes v when it is given a new subscription, child k.          *)
Resubscribed(v, u, k, cs) ==
  /\ v \in Run /\ v.s = u.s /\ v.seq = u.seq /\ v.seen = u.seen
  /\ v.kills \in {None, u.kills}
  /\ u.sub = None /\ v.sub = k
  /\ v.child = u.child \/ (v.s # Web /\ v.child = k)
  /\ v.s = Web => cs[u.child].state = "closed"
  /\ IsActive(v) /\ Saved(v)
  /\ v.revived \/ (IsActive(u) /\ v.cleanups = u.cleanups /\ v.revived = u.revived)

IsSubscription(c, r, pos) == c = NewChild(r, FALSE, pos, 0)

LEMMA SubscribeKeeps ==
  ASSUME NEW rs, NEW cs, NEW en, NEW lg, Consistent(rs, cs, en, lg),
         NEW r \in DOMAIN rs, NEW v, Resubscribed(v, rs[r], Len(cs) + 1, cs),
         Len(cs) + 1 <= MaxChildren,
         NEW ps, Updated(ps, rs, r, v),
         NEW c, IsSubscription(c, r, rs[r].seq),
         NEW ds, Appended(ds, cs, c)
  PROVE  Consistent(ps, ds, en, lg)
<1> DEFINE k == Len(cs) + 1
<1> HIDE DEF k
<1>1. Linked(rs, cs, en)
  BY DEF Consistent
<1>2. rs \in Seq(Run) /\ rs[r] \in Run /\ v \in Run /\ cs \in Seq(Child)
  BY <1>1, LinkedFacts DEF Resubscribed
<1>3. /\ ps \in Seq(Run) /\ Len(ps) = Len(rs) /\ DOMAIN ps = DOMAIN rs
      /\ \A q \in DOMAIN rs : ps[q] = IF q = r THEN v ELSE rs[q]
  BY <1>2, SeqUpdate
<1>4. /\ c \in Child /\ c.run = r /\ ~c.cli /\ c.pos = rs[r].seq /\ c.state = "up"
  <2>1. r \in 1 .. MaxRuns /\ rs[r].seq \in 0 .. MaxEvents
    <3>1. Len(rs) <= MaxRuns /\ Len(rs) \in Nat /\ r \in 1 .. Len(rs)
      BY <1>1, LinkedFacts DEF Linked, Shaped
    <3>2. rs[r].seq \in 0 .. MaxEvents
      BY <1>2 DEF Run
    <3>3. MaxRuns \in Nat
      BY BoundsAssumption
    <3> QED
      BY <3>1, <3>2, <3>3
  <2> QED
    BY <2>1 DEF IsSubscription, NewChild, Child
<1>6. /\ ds \in Seq(Child) /\ Len(ds) = Len(cs) + 1
      /\ DOMAIN ds = DOMAIN cs \union {k} /\ k \notin DOMAIN cs
      /\ \A j \in DOMAIN cs : ds[j] = cs[j]
      /\ ds[k] = c
  <2>1. /\ ds \in Seq(Child) /\ Len(ds) = Len(cs) + 1
        /\ DOMAIN ds = DOMAIN cs \union {Len(cs) + 1} /\ Len(cs) + 1 \notin DOMAIN cs
    BY <1>2, <1>4, SeqAppend
  <2>2. \A j \in DOMAIN cs : ds[j] = cs[j]
    BY <1>2, <1>4, SeqAppendAt
  <2>3. ds[Len(cs) + 1] = c
    BY <1>2, <1>4, SeqAppendAt
  <2> QED
    BY <2>1, <2>2, <2>3 DEF k
<1>7. k # None
  BY <1>1, LinkedFacts DEF None, k
<1>8. Resubscribed(v, rs[r], k, cs)
  BY DEF k
<1>9. ASSUME NEW q \in DOMAIN ps
      PROVE  RunLinks(q, ps, ds)
  <2>1. RunLinks(q, rs, cs) /\ q \in DOMAIN rs
    BY <1>1, <1>3, LinkedFacts
  <2>2. CASE q # r
    BY <1>3, <1>6, <2>1, <2>2 DEF RunLinks
  <2>3. CASE q = r
    BY <1>3, <1>4, <1>6, <1>7, <1>8, <2>1, <2>3 DEF RunLinks, Resubscribed
  <2> QED
    BY <2>2, <2>3
<1>10. ASSUME NEW j \in DOMAIN ds
       PROVE  ChildLinks(j, ps, ds)
  <2>1. RunLinks(r, rs, cs) /\ rs[r].child \in DOMAIN cs
    BY <1>1, LinkedFacts DEF RunLinks
  <2>2. CASE j = k
    <3>1. ps[r] = v /\ ds[j] = c /\ c.run = r
      BY <1>3, <1>4, <1>6, <2>2
    <3>2. v.s = Web => ds[v.child].state = "closed"
      BY <1>6, <1>8, <2>1 DEF Resubscribed
    <3>3. r \in DOMAIN ps
      BY <1>3
    <3> QED
      BY <1>4, <1>8, <2>2, <3>1, <3>2, <3>3 DEF ChildLinks, Resubscribed
  <2>3. CASE j # k
    <3>1. j \in DOMAIN cs /\ ds[j] = cs[j]
      BY <1>6, <2>3
    <3>2. ChildLinks(j, rs, cs) /\ cs[j].run \in DOMAIN rs
      BY <1>1, <3>1, LinkedFacts DEF ChildLinks
    <3>3. CASE cs[j].run # r
      <4>1. ps[cs[j].run] = rs[cs[j].run]
        BY <1>3, <3>2, <3>3
      <4>2. rs[cs[j].run].child \in DOMAIN cs
        BY <1>1, <3>2, LinkedFacts DEF RunLinks
      <4> QED
        BY <1>3, <1>6, <3>1, <3>2, <4>1, <4>2 DEF ChildLinks
    <3>4. CASE cs[j].run = r
      <4>1. /\ ps[r] = v /\ v.s = rs[r].s
            /\ cs[j].cli => v.s = Web /\ rs[r].child = j /\ v.child = rs[r].child
        BY <1>3, <1>8, <3>2, <3>4 DEF ChildLinks, Resubscribed
      <4>2. ~cs[j].cli => cs[j].state # "up"
        <5>1. rs[r].sub = None
          BY <1>8 DEF Resubscribed
        <5>2. j # None
          BY <1>2, <3>1, SeqFacts DEF None
        <5> QED
          BY <3>2, <3>4, <5>1, <5>2 DEF ChildLinks
      <4>3. v.s = Web => ds[v.child].state = "closed"
        BY <1>6, <1>8, <2>1 DEF Resubscribed
      <4> QED
        BY <1>3, <3>1, <3>2, <3>4, <4>1, <4>2, <4>3 DEF ChildLinks
    <3> QED
      BY <3>3, <3>4
  <2> QED
    BY <2>2, <2>3
<1>11. ASSUME NEW s \in Sessions
       PROVE  EntryLinks(s, ps, en)
  <2>1. \A q \in DOMAIN rs : ps[q].s = rs[q].s
    BY <1>3, <1>8 DEF Resubscribed
  <2> QED
    BY <1>1, <1>3, <2>1, LinkedFacts DEF EntryLinks
<1>12. Linked(ps, ds, en)
  BY <1>1, <1>3, <1>6, <1>9, <1>10, <1>11 DEF Linked, Shaped
<1>13. ASSUME NEW q \in DOMAIN ps
       PROVE  Saved(ps[q]) /\ Found(q, ps, en) /\ Cursor(ps[q], lg)
  <2>1. q \in DOMAIN rs /\ Saved(rs[q]) /\ Found(q, rs, en) /\ Cursor(rs[q], lg)
    BY <1>3 DEF Consistent
  <2>2. CASE q # r
    BY <1>3, <2>1, <2>2 DEF Found
  <2>3. CASE q = r
    <3>1. Saved(v)
      BY <1>8 DEF Resubscribed
    <3>2. Cursor(v, lg)
      BY <1>8, <2>1, <2>3 DEF Cursor, Gapless, Resubscribed
    <3>3. Found(q, ps, en)
      BY <1>3, <1>8, <2>1, <2>3 DEF Found, Resubscribed
    <3> QED
      BY <1>3, <2>3, <3>1, <3>2, <3>3
  <2> QED
    BY <2>2, <2>3
<1>14. ASSUME NEW j \in DOMAIN ds
       PROVE  Reads(j, ps, ds, lg)
  <2>1. \A q \in DOMAIN rs : ps[q].seq = rs[q].seq
    BY <1>3, <1>8 DEF Resubscribed
  <2>2. CASE j = k
    <3>1. Cursor(rs[r], lg) /\ rs[r].seq \in Nat
      BY <1>2, BoundsAssumption DEF Consistent, Run
    <3> QED
      BY <1>4, <1>6, <2>1, <2>2, <3>1 DEF Reads, Cursor
  <2>3. CASE j # k
    <3>1. j \in DOMAIN cs /\ ds[j] = cs[j] /\ Reads(j, rs, cs, lg)
      BY <1>6, <2>3 DEF Consistent
    <3>2. cs[j].run \in DOMAIN rs
      BY <1>1, <3>1, LinkedFacts DEF ChildLinks
    <3> QED
      BY <2>1, <3>1, <3>2 DEF Reads
  <2> QED
    BY <2>2, <2>3
<1> QED
  BY <1>12, <1>13, <1>14 DEF Consistent

(* Run v, the r-th, begins for session s with child c, the k-th.            *)
Begins(v, c, s, r, k, lg) ==
  /\ v \in Run /\ v.s = s /\ v.status = "running" /\ v.child = k /\ v.seq = 0
  /\ v.kills = None /\ v.cleanups = 0 /\ ~v.streaming /\ v.seen = <<>> /\ ~v.revived
  /\ c \in Child /\ c.run = r /\ c.state = "up"
  /\ \/ c.cli /\ s = Web /\ v.sub = None /\ c.pos <= Len(lg)
     \/ ~c.cli /\ s # Web /\ v.sub = k /\ c.pos = 0

LEMMA BeginKeeps ==
  ASSUME NEW rs, NEW cs, NEW en, NEW lg, Consistent(rs, cs, en, lg),
         NEW s \in Sessions, en[s] = None \/ ~IsActive(rs[en[s]]),
         NEW v, NEW c, Begins(v, c, s, Len(rs) + 1, Len(cs) + 1, lg),
         Len(rs) + 1 <= MaxRuns, Len(cs) + 1 <= MaxChildren,
         NEW ps, Appended(ps, rs, v),
         NEW ds, Appended(ds, cs, c),
         NEW em, Updated(em, en, s, Len(rs) + 1)
  PROVE  Consistent(ps, ds, em, lg)
<1> DEFINE r == Len(rs) + 1
           k == Len(cs) + 1
<1> HIDE DEF r, k
<1>1. Linked(rs, cs, en)
  BY DEF Consistent
<1>2. /\ rs \in Seq(Run) /\ cs \in Seq(Child) /\ en \in [Sessions -> Nat]
      /\ v \in Run /\ c \in Child
  BY <1>1, LinkedFacts DEF Begins
<1>3. Begins(v, c, s, r, k, lg)
  BY DEF r, k
<1>4. /\ ps \in Seq(Run) /\ Len(ps) = Len(rs) + 1
      /\ DOMAIN ps = DOMAIN rs \union {r} /\ r \notin DOMAIN rs
      /\ \A q \in DOMAIN rs : ps[q] = rs[q]
      /\ ps[r] = v
  <2>1. /\ ps \in Seq(Run) /\ Len(ps) = Len(rs) + 1
        /\ DOMAIN ps = DOMAIN rs \union {Len(rs) + 1} /\ Len(rs) + 1 \notin DOMAIN rs
    BY <1>2, SeqAppend
  <2>2. \A q \in DOMAIN rs : ps[q] = rs[q]
    BY <1>2, SeqAppendAt
  <2>3. ps[Len(rs) + 1] = v
    BY <1>2, SeqAppendAt
  <2> QED
    BY <2>1, <2>2, <2>3 DEF r
<1>5. /\ ds \in Seq(Child) /\ Len(ds) = Len(cs) + 1
      /\ DOMAIN ds = DOMAIN cs \union {k} /\ k \notin DOMAIN cs
      /\ \A j \in DOMAIN cs : ds[j] = cs[j]
      /\ ds[k] = c
  <2>1. /\ ds \in Seq(Child) /\ Len(ds) = Len(cs) + 1
        /\ DOMAIN ds = DOMAIN cs \union {Len(cs) + 1} /\ Len(cs) + 1 \notin DOMAIN cs
    BY <1>2, SeqAppend
  <2>2. \A j \in DOMAIN cs : ds[j] = cs[j]
    BY <1>2, SeqAppendAt
  <2>3. ds[Len(cs) + 1] = c
    BY <1>2, SeqAppendAt
  <2> QED
    BY <2>1, <2>2, <2>3 DEF k
<1>6. /\ em \in [Sessions -> Nat] /\ em[s] = r
      /\ \A t \in Sessions : t # s => em[t] = en[t]
  <2>1. r \in Nat
    BY <1>1, LinkedFacts DEF r
  <2>2. em = [en EXCEPT ![s] = r]
    BY DEF Updated, r
  <2> QED
    BY <1>2, <2>1, <2>2
<1>7. r # None /\ k # None
  BY <1>1, LinkedFacts DEF None, r, k
<1>8. ASSUME NEW q \in DOMAIN ps
      PROVE  RunLinks(q, ps, ds)
  <2>1. CASE q = r
    BY <1>3, <1>4, <1>5, <1>7, <2>1 DEF RunLinks, Begins, IsActive
  <2>2. CASE q # r
    <3>1. q \in DOMAIN rs /\ ps[q] = rs[q] /\ RunLinks(q, rs, cs)
      BY <1>1, <1>4, <2>2, LinkedFacts
    <3> QED
      BY <1>5, <3>1 DEF RunLinks
  <2> QED
    BY <2>1, <2>2
<1>9. ASSUME NEW j \in DOMAIN ds
      PROVE  ChildLinks(j, ps, ds)
  <2>1. CASE j = k
    BY <1>3, <1>4, <1>5, <2>1 DEF ChildLinks, Begins
  <2>2. CASE j # k
    <3>1. j \in DOMAIN cs /\ ds[j] = cs[j] /\ ChildLinks(j, rs, cs)
      BY <1>1, <1>5, <2>2, LinkedFacts
    <3>2. cs[j].run \in DOMAIN rs
      BY <3>1 DEF ChildLinks
    <3>3. ps[cs[j].run] = rs[cs[j].run] /\ rs[cs[j].run].child \in DOMAIN cs
      BY <1>1, <1>4, <3>2, LinkedFacts DEF RunLinks
    <3> QED
      BY <1>4, <1>5, <3>1, <3>2, <3>3 DEF ChildLinks
  <2> QED
    BY <2>1, <2>2
<1>10. ASSUME NEW t \in Sessions
       PROVE  EntryLinks(t, ps, em)
  <2>1. CASE t = s
    BY <1>3, <1>4, <1>6, <2>1 DEF EntryLinks, Begins
  <2>2. CASE t # s
    BY <1>1, <1>4, <1>6, <2>2, LinkedFacts DEF EntryLinks
  <2> QED
    BY <2>1, <2>2
<1>11. Linked(ps, ds, em)
  BY <1>4, <1>5, <1>6, <1>8, <1>9, <1>10 DEF Linked, Shaped
<1>12. ASSUME NEW q \in DOMAIN ps
       PROVE  Saved(ps[q]) /\ Found(q, ps, em) /\ Cursor(ps[q], lg)
  <2>1. Len(lg) \in Nat
    BY SeqFacts DEF Consistent
  <2>2. CASE q = r
    <3>1. Saved(v) /\ Found(q, ps, em)
      BY <1>3, <1>4, <1>6, <2>2 DEF Saved, Found, Begins
    <3>2. Cursor(v, lg)
      <4>1. Len(<<>>) = 0 /\ <<>> \in Seq(1 .. Len(lg))
        OBVIOUS
      <4>2. v.seen = <<>> /\ v.seq = 0
        BY <1>3 DEF Begins
      <4>3. Gapless(v, lg)
        BY <4>1, <4>2 DEF Gapless
      <4> QED
        BY <2>1, <4>1, <4>2, <4>3 DEF Cursor
    <3> QED
      BY <1>4, <2>2, <3>1, <3>2
  <2>3. CASE q # r
    <3>1. /\ q \in DOMAIN rs /\ ps[q] = rs[q]
          /\ Saved(rs[q]) /\ Found(q, rs, en) /\ Cursor(rs[q], lg)
      BY <1>4, <2>3 DEF Consistent
    <3>2. rs[q].s \in Sessions /\ q # None
      <4>1. rs[q] \in Run /\ q \in 1 .. Len(rs)
        BY <1>1, <3>1, LinkedFacts
      <4> QED
        BY <4>1 DEF Run, None
    <3>3. Found(q, ps, em)
      BY <1>6, <3>1, <3>2 DEF Found
    <3> QED
      BY <3>1, <3>3
  <2> QED
    BY <2>2, <2>3
<1>13. ASSUME NEW j \in DOMAIN ds
       PROVE  Reads(j, ps, ds, lg)
  <2>1. CASE j = k
    <3>1. c.pos \in Nat
      BY <1>2, BoundsAssumption DEF Child
    <3>2. Len(lg) \in Nat
      BY SeqFacts DEF Consistent
    <3> QED
      BY <1>3, <1>4, <1>5, <2>1, <3>1, <3>2 DEF Reads, Begins
  <2>2. CASE j # k
    <3>1. j \in DOMAIN cs /\ ds[j] = cs[j] /\ Reads(j, rs, cs, lg)
      BY <1>5, <2>2 DEF Consistent
    <3>2. cs[j].run \in DOMAIN rs
      BY <1>1, <3>1, LinkedFacts DEF ChildLinks
    <3> QED
      BY <1>4, <3>1, <3>2 DEF Reads
  <2> QED
    BY <2>1, <2>2
<1> QED
  BY <1>11, <1>12, <1>13 DEF Consistent

(* The entry of a session is removed.                                       *)
LEMMA ForgetKeeps ==
  ASSUME NEW rs, NEW cs, NEW en, NEW lg, Consistent(rs, cs, en, lg),
         NEW s \in Sessions,
         en[s] # None => rs[en[s]].revived \/ ~IsActive(rs[en[s]]),
         NEW em, Updated(em, en, s, None)
  PROVE  Consistent(rs, cs, em, lg)
<1>1. Linked(rs, cs, en)
  BY DEF Consistent
<1>2. /\ em \in [Sessions -> Nat] /\ em[s] = None
      /\ \A t \in Sessions : t # s => em[t] = en[t]
  BY <1>1, LinkedFacts DEF Updated, None
<1>3. Linked(rs, cs, em)
  <2>1. ASSUME NEW t \in Sessions
        PROVE  EntryLinks(t, rs, em)
    BY <1>1, <1>2, LinkedFacts DEF EntryLinks
  <2> QED
    BY <1>1, <1>2, <2>1 DEF Linked, Shaped
<1>4. ASSUME NEW q \in DOMAIN rs
      PROVE  Found(q, rs, em)
  <2>1. rs[q] \in Run /\ q \in 1 .. Len(rs)
    BY <1>1, LinkedFacts
  <2>2. rs[q].s \in Sessions /\ q # None
    BY <2>1 DEF Run, None
  <2>3. Found(q, rs, en)
    BY DEF Consistent
  <2> QED
    BY <1>2, <2>2, <2>3 DEF Found
<1> QED
  BY <1>3, <1>4 DEF Consistent

(* The gateway emits an event.                                              *)
LEMMA EventKeeps ==
  ASSUME NEW rs, NEW cs, NEW en, NEW lg, Consistent(rs, cs, en, lg),
         Len(lg) + 1 <= MaxEvents,
         NEW e \in [s : Sessions, what : What],
         NEW lm, Appended(lm, lg, e)
  PROVE  Consistent(rs, cs, en, lm)
<1> DEFINE E == [s : Sessions, what : What]
<1> HIDE DEF E
<1>1. lg \in Seq(E) /\ e \in E
  BY DEF E, Consistent
<1>2. lm \in Seq(E) /\ Len(lm) = Len(lg) + 1
  BY <1>1, SeqAppend
<1>3. \A j \in DOMAIN lg : lm[j] = lg[j]
  BY <1>1, SeqAppendAt
<1>4. Len(lg) \in Nat /\ DOMAIN lg = 1 .. Len(lg)
  BY <1>1, SeqFacts
<1>5. Linked(rs, cs, en)
  BY DEF Consistent
<1>6. ASSUME NEW q \in DOMAIN rs
      PROVE  Cursor(rs[q], lm)
  <2> DEFINE u == rs[q]
             f == u.seen
  <2>1. Cursor(u, lg) /\ u \in Run
    BY <1>5, LinkedFacts DEF Consistent
  <2> HIDE DEF u
  <2>2. f \in Seq(1 .. Len(lg)) /\ u.seq <= Len(lg) /\ u.seq \in Nat
    BY <2>1, BoundsAssumption DEF Cursor, Run
  <2> HIDE DEF f
  <2>3. f \in Seq(1 .. Len(lm))
    <3>1. 1 .. Len(lg) \subseteq 1 .. Len(lm)
      BY <1>2, <1>4
    <3> QED
      BY <2>2, <3>1, SeqMonotonic
  <2>4. Len(f) \in Nat /\ \A n \in 1 .. Len(f) : f[n] \in 1 .. Len(lg)
    BY <2>2, LenProperties, ElementOfSeq
  <2>5. ASSUME NEW n \in 1 .. Len(f) - 1,
               f[n] < f[n + 1],
               \A i \in f[n] + 1 .. f[n + 1] - 1 : lg[i].s # u.s,
               NEW i \in f[n] + 1 .. f[n + 1] - 1
        PROVE  lm[i].s # u.s
    <3>1. f[n] \in 1 .. Len(lg) /\ f[n + 1] \in 1 .. Len(lg)
      BY <2>4
    <3>2. i \in DOMAIN lg
      BY <1>4, <3>1
    <3> QED
      BY <1>3, <2>5, <3>2
  <2>6. Gapless(u, lm)
    BY <2>1, <2>5 DEF Cursor, Gapless, f
  <2> QED
    BY <1>2, <1>4, <2>1, <2>2, <2>3, <2>6 DEF Cursor, f, u
<1>7. ASSUME NEW j \in DOMAIN cs
      PROVE  Reads(j, rs, cs, lm)
  <2>1. Reads(j, rs, cs, lg) /\ cs[j] \in Child
    BY <1>5, LinkedFacts DEF Consistent
  <2>2. cs[j].pos \in Nat
    BY <2>1, BoundsAssumption DEF Child
  <2> QED
    BY <1>2, <1>4, <2>1, <2>2 DEF Reads
<1> QED
  BY <1>2, <1>5, <1>6, <1>7 DEF Consistent, E

(* Event i is the next one of its session that child k prints.              *)
Prints(k, i, rs, cs, lg) ==
  /\ k \in DOMAIN cs /\ cs[k].state # "closed"
  /\ i \in DOMAIN lg /\ i > cs[k].pos
  /\ \A j \in DOMAIN lg : j > cs[k].pos /\ lg[j].s = rs[cs[k].run].s => i <= j

Advanced(d, c, i) == d = [c EXCEPT !.pos = i]

LEMMA PrintsFacts ==
  ASSUME NEW rs, NEW cs, NEW en, NEW lg, Consistent(rs, cs, en, lg),
         NEW k, NEW i, Prints(k, i, rs, cs, lg),
         NEW d, Advanced(d, cs[k], i),
         NEW ds, Updated(ds, cs, k, d)
  PROVE  /\ ds \in Seq(Child) /\ Len(ds) = Len(cs) /\ DOMAIN ds = DOMAIN cs
         /\ i \in 1 .. Len(lg) /\ i \in 1 .. MaxEvents
         /\ \A j \in DOMAIN cs : /\ ds[j].run = cs[j].run /\ ds[j].cli = cs[j].cli
                                 /\ ds[j].state = cs[j].state
                                 /\ j = k => ds[j].pos = i
                                 /\ j # k => ds[j].pos = cs[j].pos
<1>1. k \in DOMAIN cs /\ cs \in Seq(Child) /\ cs[k] \in Child
  BY LinkedFacts DEF Prints, Consistent
<1>2. i \in 1 .. Len(lg) /\ Len(lg) \in Nat
  BY SeqFacts DEF Prints, Consistent
<1>3. i \in 1 .. MaxEvents
  <2>1. Len(lg) <= MaxEvents /\ MaxEvents \in Nat
    BY BoundsAssumption DEF Consistent
  <2> QED
    BY <1>2, <2>1
<1>4. d \in Child
  <2>1. i \in 0 .. MaxEvents
    BY <1>3
  <2> QED
    BY <1>1, <2>1 DEF Advanced, Child
<1>5. /\ ds \in Seq(Child) /\ Len(ds) = Len(cs) /\ DOMAIN ds = DOMAIN cs
      /\ \A j \in DOMAIN cs : ds[j] = IF j = k THEN d ELSE cs[j]
  BY <1>1, <1>4, SeqUpdate
<1>6. d.run = cs[k].run /\ d.cli = cs[k].cli /\ d.state = cs[k].state /\ d.pos = i
  BY <1>1 DEF Advanced, Child
<1> QED
  BY <1>2, <1>3, <1>5, <1>6

(* A child prints on, and the run keeps its links.                          *)
LEMMA PrintLinks ==
  ASSUME NEW rs, NEW cs, NEW en, NEW lg, Consistent(rs, cs, en, lg),
         NEW k, NEW i, Prints(k, i, rs, cs, lg),
         NEW d, Advanced(d, cs[k], i),
         NEW ds, Updated(ds, cs, k, d)
  PROVE  Linked(rs, ds, en)
<1>1. Linked(rs, cs, en)
  BY DEF Consistent
<1>2. /\ ds \in Seq(Child) /\ Len(ds) = Len(cs) /\ DOMAIN ds = DOMAIN cs
      /\ \A j \in DOMAIN cs : /\ ds[j].run = cs[j].run /\ ds[j].cli = cs[j].cli
                              /\ ds[j].state = cs[j].state
  BY PrintsFacts
<1>3. ASSUME NEW r \in DOMAIN rs
      PROVE  RunLinks(r, rs, ds)
  <2>1. RunLinks(r, rs, cs)
    BY <1>1, LinkedFacts
  <2> QED
    BY <1>2, <2>1 DEF RunLinks
<1>4. ASSUME NEW j \in DOMAIN ds
      PROVE  ChildLinks(j, rs, ds)
  <2>1. j \in DOMAIN cs /\ ChildLinks(j, rs, cs)
    BY <1>1, <1>2, LinkedFacts
  <2>2. cs[j].run \in DOMAIN rs
    BY <2>1 DEF ChildLinks
  <2>3. rs[cs[j].run].child \in DOMAIN cs
    BY <1>1, <2>2, LinkedFacts DEF RunLinks
  <2> QED
    BY <1>2, <2>1, <2>2, <2>3 DEF ChildLinks
<1> QED
  BY <1>1, <1>2, <1>3, <1>4 DEF Linked, Shaped

(* The event is not new, and its run does not look at it.                   *)
LEMMA SkipKeeps ==
  ASSUME NEW rs, NEW cs, NEW en, NEW lg, Consistent(rs, cs, en, lg),
         NEW k, NEW i, Prints(k, i, rs, cs, lg),
         ~cs[k].cli, ~IsNew(rs[cs[k].run], i),
         NEW d, Advanced(d, cs[k], i),
         NEW ds, Updated(ds, cs, k, d)
  PROVE  Consistent(rs, ds, en, lg)
<1>1. Linked(rs, cs, en) /\ Linked(rs, ds, en)
  BY PrintLinks DEF Consistent
<1>2. /\ DOMAIN ds = DOMAIN cs /\ i \in 1 .. Len(lg)
      /\ \A j \in DOMAIN cs : /\ ds[j].run = cs[j].run /\ ds[j].cli = cs[j].cli
                              /\ ds[j].state = cs[j].state
                              /\ j = k => ds[j].pos = i
                              /\ j # k => ds[j].pos = cs[j].pos
  BY PrintsFacts
<1>3. ASSUME NEW j \in DOMAIN ds
      PROVE  Reads(j, rs, ds, lg)
  <2>1. j \in DOMAIN cs /\ Reads(j, rs, cs, lg) /\ cs[j].run \in DOMAIN rs
    BY <1>1, <1>2, LinkedFacts DEF ChildLinks, Consistent
  <2>2. CASE j # k
    BY <1>2, <2>1, <2>2 DEF Reads
  <2>3. CASE j = k
    <3>1. rs[cs[k].run] \in Run /\ Len(lg) \in Nat
      BY <1>1, <2>1, <2>3, LinkedFacts, SeqFacts DEF Consistent
    <3>2. rs[cs[k].run].seq \in Nat
      BY <3>1, BoundsAssumption DEF Run
    <3>3. i <= rs[cs[k].run].seq /\ i <= Len(lg)
      BY <1>2, <3>1, <3>2 DEF IsNew
    <3> QED
      BY <1>2, <2>1, <2>3, <3>3 DEF Reads
  <2> QED
    BY <2>2, <2>3
<1> QED
  BY <1>1, <1>3 DEF Consistent

(* A run u looks at event i and becomes v.                                  *)
Reading(v, u, i) ==
  /\ v \in Run
  /\ v.s = u.s /\ v.child = u.child /\ v.sub = u.sub /\ v.kills = u.kills
  /\ v.status = u.status /\ v.cleanups = u.cleanups /\ v.revived = u.revived
  /\ v.seq = i /\ v.seen = Append(u.seen, i)
  /\ Saved(u) => Saved(v)

LEMMA ReadingLinks ==
  ASSUME NEW rs, NEW cs, NEW en, Linked(rs, cs, en),
         NEW r \in DOMAIN rs, NEW i, NEW v, Reading(v, rs[r], i),
         NEW ps, Updated(ps, rs, r, v)
  PROVE  Linked(ps, cs, en)
<1>1. rs \in Seq(Run) /\ v \in Run
  BY LinkedFacts DEF Reading
<1>2. ps \in Seq(Run) /\ Len(ps) = Len(rs) /\ DOMAIN ps = DOMAIN rs
  BY <1>1, SeqUpdate
<1>3. \A q \in DOMAIN rs : ps[q] = IF q = r THEN v ELSE rs[q]
  BY <1>1, SeqUpdate
<1>4. \A q \in DOMAIN rs :
        /\ ps[q].s = rs[q].s /\ ps[q].child = rs[q].child /\ ps[q].sub = rs[q].sub
        /\ ps[q].kills = rs[q].kills /\ ps[q].status = rs[q].status
  BY <1>3 DEF Reading
<1>5. ASSUME NEW q \in DOMAIN ps
      PROVE  RunLinks(q, ps, cs)
  <2>1. q \in DOMAIN rs /\ RunLinks(q, rs, cs)
    BY <1>2, LinkedFacts
  <2> QED
    BY <1>4, <2>1 DEF RunLinks, IsActive
<1>6. ASSUME NEW k \in DOMAIN cs
      PROVE  ChildLinks(k, ps, cs)
  <2>1. ChildLinks(k, rs, cs)
    BY LinkedFacts
  <2> QED
    BY <1>2, <1>4, <2>1 DEF ChildLinks
<1>7. ASSUME NEW s \in Sessions
      PROVE  EntryLinks(s, ps, en)
  <2>1. EntryLinks(s, rs, en)
    BY LinkedFacts
  <2> QED
    BY <1>2, <1>4, <2>1 DEF EntryLinks
<1> QED
  BY <1>2, <1>5, <1>6, <1>7, LinkedFacts DEF Linked, Shaped

(* The sequence of the events seen stays without a gap.                     *)
LEMMA ReadingCursor ==
  ASSUME NEW rs, NEW cs, NEW en, NEW lg, Consistent(rs, cs, en, lg),
         NEW k, NEW i, Prints(k, i, rs, cs, lg), IsNew(rs[cs[k].run], i),
         NEW v, Reading(v, rs[cs[k].run], i)
  PROVE  Cursor(v, lg)
<1> DEFINE u == rs[cs[k].run]
           e == u.seen
           f == v.seen
<1>1. cs[k].run \in DOMAIN rs /\ k \in DOMAIN cs /\ u \in Run /\ cs[k] \in Child
  BY LinkedFacts DEF Prints, Consistent, ChildLinks
<1>2. Cursor(u, lg) /\ Reads(k, rs, cs, lg)
  BY <1>1 DEF Consistent
<1>3. u.seq \in Nat /\ cs[k].pos \in Nat
  BY <1>1, BoundsAssumption DEF Run, Child
<1>4. /\ i \in 1 .. Len(lg) /\ Len(lg) \in Nat /\ DOMAIN lg = 1 .. Len(lg)
      /\ i > cs[k].pos /\ cs[k].state # "closed" /\ i > u.seq
      /\ \A j \in DOMAIN lg : j > cs[k].pos /\ lg[j].s = u.s => i <= j
  <2>1. Len(lg) \in Nat /\ DOMAIN lg = 1 .. Len(lg)
    BY SeqFacts DEF Consistent
  <2> QED
    BY <2>1 DEF Prints, IsNew
<1>5. u.seq = cs[k].pos \/ u.seq = 0 \/ cs[k].pos <= u.seq
  BY <1>2, <1>4 DEF Reads
<1> HIDE DEF u
<1>6. v.s = u.s /\ v.seq = i /\ v.seen = Append(u.seen, i)
  BY DEF Reading, u
<1>7. e \in Seq(1 .. Len(lg)) /\ u.seq = IF e = <<>> THEN 0 ELSE e[Len(e)]
  BY <1>2 DEF Cursor
<1>8. Gapless(u, lg)
  BY <1>2 DEF Cursor
<1> HIDE DEF e, f
<1>9. f = Append(e, i)
  BY <1>6 DEF e, f
<1>10. /\ Len(e) \in Nat
       /\ \A n \in 1 .. Len(e) : e[n] \in 1 .. Len(lg)
  BY <1>7, LenProperties, ElementOfSeq
<1>11. f \in Seq(1 .. Len(lg)) /\ Len(f) = Len(e) + 1
  BY <1>4, <1>7, <1>9, AppendProperties
<1>12. \A n \in 1 .. Len(e) : f[n] = e[n]
  BY <1>4, <1>7, <1>9, AppendProperties
<1>13. f[Len(e) + 1] = i
  BY <1>4, <1>7, <1>9, AppendProperties
<1>14. ASSUME NEW n \in 1 .. Len(f) - 1
       PROVE  f[n] < f[n + 1] /\ \A j \in f[n] + 1 .. f[n + 1] - 1 : lg[j].s # v.s
  <2>1. CASE n = Len(e)
    <3>1. e # <<>>
      BY <1>10, <1>11, <2>1, EmptySeq
    <3>2. f[n] = u.seq /\ u.seq # 0 /\ f[n + 1] = i
      BY <1>7, <1>10, <1>11, <1>12, <1>13, <2>1, <3>1
    <3>3. ASSUME NEW j \in u.seq + 1 .. i - 1
          PROVE  lg[j].s # u.s
      <4>1. j \in DOMAIN lg /\ j > cs[k].pos /\ ~(i <= j)
        BY <1>3, <1>4, <1>5, <3>2
      <4> QED
        BY <1>4, <4>1
    <3> QED
      BY <1>3, <1>4, <1>6, <3>2, <3>3
  <2>2. CASE n # Len(e)
    <3>1. n \in 1 .. Len(e) - 1 /\ n \in 1 .. Len(e) /\ n + 1 \in 1 .. Len(e)
      BY <1>10, <1>11, <2>2
    <3>2. f[n] = e[n] /\ f[n + 1] = e[n + 1]
      BY <1>12, <3>1
    <3>3. e[n] < e[n + 1] /\ \A j \in e[n] + 1 .. e[n + 1] - 1 : lg[j].s # u.s
      BY <1>8, <3>1 DEF Gapless, e
    <3> QED
      BY <1>6, <3>2, <3>3
  <2> QED
    BY <2>1, <2>2
<1>15. Gapless(v, lg)
  BY <1>14 DEF Gapless, f
<1>16. f # <<>> /\ f[Len(f)] = i
  <2>1. Len(f) # 0
    BY <1>10, <1>11
  <2> QED
    BY <1>11, <1>13, <2>1, EmptySeq
<1> QED
  BY <1>4, <1>6, <1>11, <1>15, <1>16 DEF Cursor, f

(* A child prints an event that is new, and its run looks at it.            *)
LEMMA ReadKeeps ==
  ASSUME NEW rs, NEW cs, NEW en, NEW lg, Consistent(rs, cs, en, lg),
         NEW k, NEW i, Prints(k, i, rs, cs, lg), IsNew(rs[cs[k].run], i),
         NEW v, Reading(v, rs[cs[k].run], i),
         NEW ps, Updated(ps, rs, cs[k].run, v),
         NEW d, Advanced(d, cs[k], i),
         NEW ds, Updated(ds, cs, k, d)
  PROVE  Consistent(ps, ds, en, lg)
<1> DEFINE r == cs[k].run
<1>1. Linked(rs, cs, en) /\ Linked(rs, ds, en)
  BY PrintLinks DEF Consistent
<1>2. k \in DOMAIN cs /\ r \in DOMAIN rs /\ cs[k].state # "closed" /\ ChildLinks(k, rs, cs)
  BY <1>1, LinkedFacts DEF Prints, ChildLinks
<1>3. /\ DOMAIN ds = DOMAIN cs /\ i \in 1 .. Len(lg)
      /\ \A j \in DOMAIN cs : /\ ds[j].run = cs[j].run /\ ds[j].cli = cs[j].cli
                              /\ ds[j].state = cs[j].state
                              /\ j = k => ds[j].pos = i
                              /\ j # k => ds[j].pos = cs[j].pos
  BY PrintsFacts
<1>4. Reading(v, rs[r], i) /\ Updated(ps, rs, r, v) /\ IsNew(rs[r], i)
  OBVIOUS
<1>5. Cursor(v, lg)
  BY ReadingCursor
<1> HIDE DEF r
<1>6. Linked(ps, ds, en)
  BY <1>1, <1>2, <1>4, ReadingLinks
<1>7. rs \in Seq(Run) /\ v \in Run
  BY <1>1, <1>4, LinkedFacts DEF Reading
<1>8. DOMAIN ps = DOMAIN rs /\ \A q \in DOMAIN rs : ps[q] = IF q = r THEN v ELSE rs[q]
  BY <1>2, <1>4, <1>7, SeqUpdate
<1>9. ASSUME NEW q \in DOMAIN ps
      PROVE  Saved(ps[q]) /\ Found(q, ps, en) /\ Cursor(ps[q], lg)
  <2>1. q \in DOMAIN rs /\ Saved(rs[q]) /\ Found(q, rs, en) /\ Cursor(rs[q], lg)
    BY <1>8 DEF Consistent
  <2>2. CASE q # r
    BY <1>8, <2>1, <2>2 DEF Found
  <2>3. CASE q = r
    BY <1>4, <1>5, <1>8, <2>1, <2>3 DEF Reading, Found, IsActive
  <2> QED
    BY <2>2, <2>3
<1>10. ASSUME NEW j \in DOMAIN ds
       PROVE  Reads(j, ps, ds, lg)
  <2>1. j \in DOMAIN cs /\ Reads(j, rs, cs, lg) /\ ChildLinks(j, rs, cs)
    BY <1>1, <1>3, LinkedFacts DEF Consistent
  <2>2. cs[j].run \in DOMAIN rs
    BY <2>1 DEF ChildLinks
  <2>3. Len(lg) \in Nat
    BY SeqFacts DEF Consistent
  <2>4. CASE cs[j].run # r
    <3>1. ps[cs[j].run] = rs[cs[j].run] /\ j # k
      BY <1>8, <2>2, <2>4 DEF r
    <3> QED
      BY <1>3, <2>1, <2>2, <3>1 DEF Reads
  <2>5. CASE cs[j].run = r /\ j = k
    <3>1. ps[r].seq = i
      BY <1>2, <1>4, <1>8 DEF Reading
    <3> QED
      BY <1>3, <2>1, <2>3, <2>5, <3>1 DEF Reads
  <2>6. CASE cs[j].run = r /\ j # k
    <3>1. ps[r].seq = i
      BY <1>2, <1>4, <1>8 DEF Reading
    <3>2. cs[j].state # "closed" => ~cs[j].cli
      BY <1>2, <2>1, <2>6 DEF ChildLinks, r
    <3>3. rs[r] \in Run /\ cs[j] \in Child
      BY <1>1, <1>2, <2>1, LinkedFacts
    <3>4. rs[r].seq \in Nat /\ cs[j].pos \in Nat
      BY <3>3, BoundsAssumption DEF Run, Child
    <3>5. i > rs[r].seq
      BY <1>4 DEF IsNew
    <3>6. /\ ds[j].state = cs[j].state /\ ds[j].cli = cs[j].cli /\ ds[j].pos = cs[j].pos
          /\ ds[j].run = r
      BY <1>3, <2>1, <2>6
    <3> QED
      BY <1>3, <2>1, <2>6, <3>1, <3>2, <3>4, <3>5, <3>6 DEF Reads
  <2> QED
    BY <2>4, <2>5, <2>6
<1> QED
  BY <1>6, <1>9, <1>10 DEF Consistent

LEMMA ProcessedReading ==
  ASSUME NEW u \in Run, NEW k \in 1 .. MaxChildren, NEW i \in 1 .. MaxEvents, IsNew(u, i)
  PROVE  Reading(Processed(u, k, i), u, i)
<1> DEFINE o == log[i].what = "silent" /\ (~u.parts \/ u.silent = k)
           b == IF o THEN k ELSE None
           w == CASE HasStatus(u, k, i) -> Emitted(u)
                  [] ~HasStatus(u, k, i) /\ log[i].what = "end" ->
                       [TextClosed(u, k) EXCEPT !.persists = TRUE]
                  [] ~HasStatus(u, k, i) /\ log[i].what # "end" ->
                       [Emitted(u) EXCEPT !.silent = b]
           v == [w EXCEPT !.seq = i, !.seen = Append(u.seen, i)]
<1>1. u.seen \in Seq(1 .. MaxEvents) /\ u.seq \in Nat
  BY BoundsAssumption DEF Run
<1>2. Append(u.seen, i) \in Seq(1 .. MaxEvents)
  BY <1>1, AppendProperties
<1>3. /\ w \in Run /\ Keeps(w, u) /\ w.sub = u.sub /\ w.kills = u.kills
      /\ w.status = u.status /\ w.cleanups = u.cleanups
      /\ Saved(u) => Saved(w)
  <2> DEFINE t == TextClosed(u, k)
             e == Emitted(u)
  <2>1. e \in Run /\ t \in Run /\ Milder(e, u) /\ Milder(t, u)
    BY RunOperators, MilderOperators
  <2>2. /\ e.sub = u.sub /\ e.kills = u.kills /\ e.status = u.status /\ e.cleanups = u.cleanups
        /\ t.sub = u.sub /\ t.kills = u.kills /\ t.status = u.status /\ t.cleanups = u.cleanups
    BY DEF Run, Emitted, TextClosed
  <2>3. b \in 0 .. MaxChildren
    BY BoundsAssumption DEF None
  <2> HIDE DEF b, e, t
  <2>4. CASE HasStatus(u, k, i)
    BY <2>1, <2>2, <2>4 DEF Milder, e
  <2>5. CASE ~HasStatus(u, k, i) /\ log[i].what = "end"
    <3>1. w = [t EXCEPT !.persists = TRUE]
      BY <2>5 DEF t
    <3> HIDE DEF w
    <3> QED
      BY <2>1, <2>2, <3>1 DEF Milder, Run, Keeps, Saved, IsActive
  <2>6. CASE ~HasStatus(u, k, i) /\ log[i].what # "end"
    <3>1. w = [e EXCEPT !.silent = b]
      BY <2>6 DEF e
    <3> HIDE DEF w
    <3> QED
      BY <2>1, <2>2, <2>3, <3>1 DEF Milder, Run, Keeps, Saved, IsActive
  <2> QED
    BY <2>4, <2>5, <2>6
<1>4. Processed(u, k, i) = [w EXCEPT !.seq = IF i > @ THEN i ELSE @, !.seen = Append(@, i)]
  BY DEF Processed
<1> HIDE DEF w
<1>5. Processed(u, k, i) = v
  BY <1>3, <1>4 DEF IsNew, Keeps
<1> DEFINE f == Append(u.seen, i)
<1> HIDE DEF f
<1>6. f \in Seq(1 .. MaxEvents)
  BY <1>2 DEF f
<1>7. v = [w EXCEPT !.seq = i, !.seen = f]
  BY DEF f
<1> HIDE DEF v
<1>8. i \in 0 .. MaxEvents
  BY BoundsAssumption
<1>9. v \in Run /\ v.seq = i /\ v.seen = f
  BY <1>3, <1>6, <1>7, <1>8 DEF Run
<1>10. /\ v.s = w.s /\ v.child = w.child /\ v.sub = w.sub /\ v.kills = w.kills
       /\ v.status = w.status /\ v.cleanups = w.cleanups /\ v.revived = w.revived
       /\ Saved(w) => Saved(v)
  BY <1>3, <1>7 DEF Run, Saved, IsActive
<1>11. Reading(v, u, i)
  BY <1>3, <1>9, <1>10 DEF Reading, Keeps, f
<1> QED
  BY <1>5, <1>11

-----------------------------------------------------------------------------
(* Compositions of them that several handlers share *)

LEMMA KilledNoSub ==
  ASSUME NEW rs, NEW cs, NEW en, NEW lg, Consistent(rs, cs, en, lg),
         NEW r \in DOMAIN rs
  PROVE  /\ Fainter(Killed(cs, rs[r].sub), cs)
         /\ NoSub(r, Killed(cs, rs[r].sub))
<1> DEFINE b  == rs[r].sub
           ds == Killed(cs, b)
<1>1. Linked(rs, cs, en)
  BY DEF Consistent
<1>2. cs \in Seq(Child) /\ b \in DOMAIN cs \union {None} /\ None \notin DOMAIN cs
  BY <1>1, LinkedFacts DEF RunLinks, None
<1>3. \A k \in DOMAIN cs : cs[k].run = r /\ ~cs[k].cli /\ cs[k].state = "up" => b = k
  BY <1>1, LinkedFacts DEF ChildLinks
<1>4. b # None => b \in DOMAIN cs /\ cs[b] \in Child
  BY <1>1, <1>2, LinkedFacts
<1> HIDE DEF b
<1>5. Fainter(ds, cs)
  BY <1>2, KilledFainter
<1>6. ds[b].state # "up" \/ b = None
  <2>1. CASE b # None /\ cs[b].state = "up"
    BY <1>2, <1>4, <2>1 DEF Killed, Child
  <2>2. CASE ~(b # None /\ cs[b].state = "up")
    BY <2>2 DEF Killed
  <2> QED
    BY <2>1, <2>2
<1> HIDE DEF ds
<1>7. NoSub(r, ds)
  BY <1>2, <1>3, <1>5, <1>6 DEF NoSub, Fainter
<1> QED
  BY <1>5, <1>7 DEF ds, b

(* A run changes for the worse and its subscription is told to stop.        *)
LEMMA EndKeeps ==
  ASSUME NEW rs, NEW cs, NEW en, NEW lg, Consistent(rs, cs, en, lg),
         NEW r \in DOMAIN rs, NEW v, Milder(v, rs[r]),
         NEW ps, Updated(ps, rs, r, v)
  PROVE  Consistent(ps, Killed(cs, rs[r].sub), en, lg)
<1> DEFINE ds == Killed(cs, rs[r].sub)
<1>1. Fainter(ds, cs) /\ NoSub(r, ds)
  BY KilledNoSub
<1> HIDE DEF ds
<1>2. Consistent(rs, ds, en, lg)
  BY <1>1, FainterKeeps
<1>3. Consistent(ps, ds, en, lg)
  BY <1>1, <1>2, MilderKeeps
<1> QED
  BY <1>3 DEF ds

LEMMA RemovedKeeps ==
  ASSUME NEW rs, NEW cs, NEW en, NEW lg, Consistent(rs, cs, en, lg),
         NEW r \in DOMAIN rs, NEW ps, ps = Removed(rs, r)
  PROVE  /\ Consistent(ps, Killed(cs, rs[r].sub), en, lg)
         /\ ps \in Seq(Run) /\ Len(ps) = Len(rs) /\ DOMAIN ps = DOMAIN rs
         /\ ps[r].status = rs[r].status
<1> DEFINE v == [rs[r] EXCEPT !.persists = FALSE, !.sub = None]
<1>1. rs[r] \in Run /\ rs \in Seq(Run)
  BY LinkedFacts DEF Consistent
<1>2. Milder(v, rs[r])
  <2>1. None \in 0 .. MaxChildren /\ rs[r].cleanups \in Nat
    BY <1>1, BoundsAssumption DEF None, Run
  <2>2. v \in Run
    BY <1>1, <2>1 DEF Run
  <2> QED
    BY <1>1, <2>1, <2>2 DEF Run, Milder, Keeps, IsOver, Saved, IsActive
<1>3. Updated(Removed(rs, r), rs, r, v)
  BY DEF Updated, Removed
<1>4. v.status = rs[r].status /\ v \in Run
  BY <1>1, <1>2 DEF Run, Milder
<1> HIDE DEF v
<1>5. Updated(ps, rs, r, v)
  BY <1>3
<1>6. ps \in Seq(Run) /\ Len(ps) = Len(rs) /\ DOMAIN ps = DOMAIN rs
  BY <1>1, <1>4, <1>5, SeqUpdate
<1>7. ps[r] = v
  BY <1>1, <1>4, <1>5, SeqUpdate
<1>8. Consistent(ps, Killed(cs, rs[r].sub), en, lg)
  BY <1>2, <1>5, EndKeeps
<1> QED
  BY <1>4, <1>6, <1>7, <1>8

LEMMA NewRunType ==
  ASSUME NEW s \in Sessions, NEW k \in 1 .. MaxChildren, NEW b \in 0 .. MaxChildren,
         NEW persists \in BOOLEAN
  PROVE  [NewRun(s, k, b) EXCEPT !.persists = persists] \in Run /\ NewRun(s, k, b) \in Run
<1>1. None \in 0 .. MaxChildren /\ 0 \in 0 .. MaxEvents /\ 0 \in Nat
  BY BoundsAssumption DEF None
<1>2. <<>> \in Seq(1 .. MaxEvents)
  BY EmptySeq
<1>3. NewRun(s, k, b) \in Run
  BY <1>1, <1>2 DEF NewRun, Run
<1>4. [NewRun(s, k, b) EXCEPT !.persists = persists] \in Run
  BY <1>3 DEF Run
<1> QED
  BY <1>3, <1>4

(* The numbers of a new run and of a new child, within the bounds.          *)
LEMMA RoomFacts ==
  ASSUME NEW rs, NEW cs, NEW en, NEW lg, Consistent(rs, cs, en, lg)
  PROVE  /\ Len(rs) \in Nat /\ Len(cs) \in Nat
         /\ Len(rs) + 1 <= MaxRuns => Len(rs) + 1 \in 1 .. MaxRuns
         /\ Len(cs) + 1 <= MaxChildren => Len(cs) + 1 \in 1 .. MaxChildren
<1>1. Len(rs) \in Nat /\ Len(cs) \in Nat
  BY LinkedFacts DEF Consistent
<1>2. MaxRuns \in Nat /\ MaxChildren \in Nat
  BY BoundsAssumption
<1> QED
  BY <1>1, <1>2

(* The handler keeps the runs there are and their invariant.                *)
After ==
  /\ Consistent(runs', children', entry', log')
  /\ DOMAIN runs \subseteq DOMAIN runs'

(* The bounds that a handler has checked are about rs and cs as well.       *)
NoLonger(rs, cs) == Len(rs) = Len(runs) /\ Len(cs) = Len(children)

LEMMA StartSubscribeBegins ==
  ASSUME NEW s \in Subs, NEW persists \in BOOLEAN,
         NEW rs, NEW cs, Consistent(rs, cs, entry, log),
         NoLonger(rs, cs),
         StartSubscribe(s, rs, cs, persists)
  PROVE  /\ \E v, c : /\ Begins(v, c, s, Len(rs) + 1, Len(cs) + 1, log)
                      /\ Appended(runs', rs, v) /\ Appended(children', cs, c)
         /\ Updated(entry', entry, s, Len(rs) + 1)
         /\ Len(rs) + 1 <= MaxRuns /\ Len(cs) + 1 <= MaxChildren
         /\ s \in Sessions
<1> DEFINE r == Len(rs) + 1
           k == Len(cs) + 1
           v == [NewRun(s, k, k) EXCEPT !.persists = persists]
           c == NewChild(r, FALSE, 0, 0)
<1>1. r <= MaxRuns /\ k <= MaxChildren
  BY DEF StartSubscribe, HasRoomFor, NoLonger
<1>2. /\ Appended(runs', rs, v) /\ Appended(children', cs, c)
      /\ Updated(entry', entry, s, r)
  BY DEF StartSubscribe, Appended, Updated
<1>3. r \in 1 .. MaxRuns /\ k \in 1 .. MaxChildren
  BY <1>1, RoomFacts
<1>4. s \in Sessions /\ s # Web
  BY SessionsAssumption DEF Sessions
<1> HIDE DEF r, k
<1>5. v \in Run
  <2>1. k \in 0 .. MaxChildren
    BY <1>3
  <2> QED
    BY <1>3, <1>4, <2>1, NewRunType
<1>6. c \in Child /\ c.run = r /\ ~c.cli /\ c.pos = 0 /\ c.state = "up"
  <2>1. 0 \in 0 .. MaxEvents /\ 0 \in Nat
    BY BoundsAssumption
  <2> QED
    BY <1>3, <2>1 DEF NewChild, Child
<1>7. /\ v.s = s /\ v.status = "running" /\ v.child = k /\ v.sub = k /\ v.seq = 0
      /\ v.kills = None /\ v.cleanups = 0 /\ ~v.streaming /\ v.seen = <<>> /\ ~v.revived
  BY DEF NewRun
<1>8. Begins(v, c, s, r, k, log)
  BY <1>4, <1>5, <1>6, <1>7 DEF Begins
<1> HIDE DEF v, c
<1> QED
  BY <1>1, <1>2, <1>4, <1>8 DEF r, k

LEMMA StartSubscribeKeeps ==
  ASSUME NEW s \in Subs, entry[s] = None, NEW persists \in BOOLEAN,
         NEW rs, NEW cs, Consistent(rs, cs, entry, log),
         NoLonger(rs, cs),
         StartSubscribe(s, rs, cs, persists)
  PROVE  /\ Consistent(runs', children', entry', log)
         /\ DOMAIN rs \subseteq DOMAIN runs'
<1>1. /\ Updated(entry', entry, s, Len(rs) + 1)
      /\ Len(rs) + 1 <= MaxRuns /\ Len(cs) + 1 <= MaxChildren
      /\ s \in Sessions
  BY StartSubscribeBegins
<1>2. PICK v, c : /\ Begins(v, c, s, Len(rs) + 1, Len(cs) + 1, log)
                  /\ Appended(runs', rs, v) /\ Appended(children', cs, c)
  BY StartSubscribeBegins
<1>3. Consistent(runs', children', entry', log)
  BY <1>1, <1>2, BeginKeeps
<1>4. v \in Run /\ rs \in Seq(Run)
  BY <1>2, LinkedFacts DEF Begins, Consistent
<1>5. DOMAIN runs' = DOMAIN rs \union {Len(rs) + 1}
  BY <1>2, <1>4, SeqAppend
<1> QED
  BY <1>3, <1>5

-----------------------------------------------------------------------------
(* The requests *)

(* The run before is dropped, and a run begins.                             *)
Dropped(rs, cs, q) ==
  IF q = None THEN rs = runs /\ cs = children
              ELSE /\ q \in DOMAIN runs /\ rs = Removed(runs, q)
                   /\ cs = Killed(children, runs[q].sub)

LEMMA StartBegins ==
  ASSUME Consistent(runs, children, entry, log), turns \in [Sessions -> Nat], Start
  PROVE  \E rs, cs, v, c :
           /\ Dropped(rs, cs, entry[Web])
           /\ Consistent(rs, cs, entry, log) /\ DOMAIN rs = DOMAIN runs
           /\ entry[Web] = None \/ ~IsActive(rs[entry[Web]])
           /\ Begins(v, c, Web, Len(rs) + 1, Len(cs) + 1, log)
           /\ Appended(runs', rs, v) /\ Appended(children', cs, c)
           /\ Updated(entry', entry, Web, Len(rs) + 1)
           /\ Len(rs) + 1 <= MaxRuns /\ Len(cs) + 1 <= MaxChildren
<1> DEFINE q  == entry[Web]
           rs == IF q = None THEN runs ELSE Removed(runs, q)
           cs == IF q = None THEN children ELSE Killed(children, runs[q].sub)
           r  == Len(runs) + 1
           k  == Len(children) + 1
           v  == NewRun(Web, k, None)
           n  == Ends(Web) + turns[Web] + 1
           c  == NewChild(r, TRUE, Len(log), n)
<1>1. Web \in Sessions
  BY DEF Sessions
<1>2. Linked(runs, children, entry)
  BY DEF Consistent
<1>3. q # None => q \in DOMAIN runs /\ ~IsActive(runs[q])
  BY <1>1, <1>2, LinkedFacts DEF Start, EntryLinks
<1>4. r <= MaxRuns /\ k <= MaxChildren
  BY DEF Start, HasRoomFor
<1>5. /\ runs' = Append(rs, v) /\ children' = Append(cs, c)
      /\ entry' = [entry EXCEPT ![Web] = r] /\ log' = log
  BY DEF Start
<1>6. r \in 1 .. MaxRuns /\ k \in 1 .. MaxChildren /\ None \in 0 .. MaxChildren
  BY <1>4, RoomFacts, BoundsAssumption DEF None
<1>7. n \in Nat
  <2>1. IsFiniteSet(DOMAIN log)
    <3>1. DOMAIN log = 1 .. Len(log) /\ Len(log) \in Nat
      BY SeqFacts DEF Consistent
    <3> QED
      BY <3>1, FS_Interval
  <2>2. Ends(Web) \in Nat
    <3>1. IsFiniteSet({i \in DOMAIN log : log[i].s = Web /\ log[i].what \in Over})
      BY <2>1, FS_Subset
    <3> QED
      BY <3>1, FS_CardinalityType DEF Ends
  <2> QED
    BY <1>1, <2>2
<1>8. c \in Child /\ c.run = r /\ c.cli /\ c.pos = Len(log) /\ c.state = "up"
  <2>1. Len(log) \in Nat /\ Len(log) <= MaxEvents
    BY SeqFacts DEF Consistent
  <2>2. Len(log) \in 0 .. MaxEvents
    BY <2>1, BoundsAssumption
  <2> HIDE DEF r, n
  <2> QED
    BY <1>6, <1>7, <2>2 DEF NewChild, Child
<1>9. Begins(v, c, Web, r, k, log)
  <2>1. v \in Run
    BY <1>1, <1>6, NewRunType
  <2>2. Len(log) <= Len(log)
    BY SeqFacts DEF Consistent
  <2> HIDE DEF c, r, k
  <2> QED
    BY <1>8, <2>1, <2>2 DEF Begins, NewRun
<1>10. /\ Consistent(rs, cs, entry, log)
       /\ rs \in Seq(Run) /\ DOMAIN rs = DOMAIN runs /\ Len(rs) = Len(runs)
       /\ Len(cs) = Len(children)
       /\ q # None => ~IsActive(rs[q])
  <2>1. CASE q = None
    BY <1>2, <2>1, LinkedFacts
  <2>2. CASE q # None
    <3> DEFINE es == Killed(children, runs[q].sub)
    <3>1. Fainter(es, children)
      BY <1>3, <2>2, KilledNoSub
    <3>2. children \in Seq(Child)
      BY <1>2, LinkedFacts
    <3> HIDE DEF es
    <3>3. Len(es) = Len(children)
      BY <3>1, <3>2, SeqFacts DEF Fainter
    <3>4. /\ Consistent(rs, cs, entry, log)
          /\ rs \in Seq(Run) /\ DOMAIN rs = DOMAIN runs /\ Len(rs) = Len(runs)
          /\ rs[q].status = runs[q].status
      BY <1>3, <2>2, RemovedKeeps
    <3> QED
      BY <1>3, <2>2, <3>3, <3>4 DEF es, IsActive
  <2> QED
    BY <2>1, <2>2
<1>11. Dropped(rs, cs, q)
  BY <1>3 DEF Dropped
<1> HIDE DEF rs, cs, v, c
<1>12. Begins(v, c, Web, Len(rs) + 1, Len(cs) + 1, log)
  BY <1>9, <1>10
<1>13. /\ Appended(runs', rs, v) /\ Appended(children', cs, c)
       /\ Updated(entry', entry, Web, Len(rs) + 1)
  BY <1>5, <1>10 DEF Appended, Updated
<1>14. Len(rs) + 1 <= MaxRuns /\ Len(cs) + 1 <= MaxChildren
  BY <1>4, <1>10
<1> QED
  BY <1>10, <1>11, <1>12, <1>13, <1>14

LEMMA StartAfter ==
  ASSUME Consistent(runs, children, entry, log), turns \in [Sessions -> Nat], Start
  PROVE  After
<1>1. PICK rs, cs, v, c :
        /\ Consistent(rs, cs, entry, log) /\ DOMAIN rs = DOMAIN runs
        /\ entry[Web] = None \/ ~IsActive(rs[entry[Web]])
        /\ Begins(v, c, Web, Len(rs) + 1, Len(cs) + 1, log)
        /\ Appended(runs', rs, v) /\ Appended(children', cs, c)
        /\ Updated(entry', entry, Web, Len(rs) + 1)
        /\ Len(rs) + 1 <= MaxRuns /\ Len(cs) + 1 <= MaxChildren
  BY StartBegins
<1>2. Web \in Sessions
  BY DEF Sessions
<1>3. Consistent(runs', children', entry', log)
  BY <1>1, <1>2, BeginKeeps
<1>4. v \in Run /\ rs \in Seq(Run) /\ Appended(runs', rs, v)
  BY <1>1, LinkedFacts DEF Begins, Consistent
<1>5. DOMAIN runs' = DOMAIN rs \union {Len(rs) + 1}
  BY <1>4, SeqAppend
<1> QED
  BY <1>1, <1>3, <1>5 DEF Start, After

LEMMA FollowUpAfter ==
  ASSUME Consistent(runs, children, entry, log),
         NEW s \in Subs, FollowUp(s)
  PROVE  After
<1> DEFINE r == entry[s]
           u == runs[r]
           k == Len(children) + 1
           v == [u EXCEPT !.status = "running", !.ended = FALSE, !.finalizes = FALSE,
                          !.persists = TRUE, !.parts = FALSE, !.silent = None,
                          !.streaming = FALSE, !.silenced = FALSE, !.revived = TRUE,
                          !.child = k, !.sub = k]
           c == NewChild(r, FALSE, u.seq, 0)
<1>1. Linked(runs, children, entry) /\ log' = log /\ s \in Sessions /\ s # Web
  BY SessionsAssumption DEF Consistent, FollowUp, Sessions
<1>2. CASE entry[s] = None
  <2>1. StartSubscribe(s, runs, children, TRUE)
    BY <1>2 DEF FollowUp
  <2> QED
    BY <1>1, <1>2, <2>1, StartSubscribeKeeps DEF After, NoLonger
<1>3. CASE entry[s] # None
  <2>1. /\ r \in DOMAIN runs /\ u.s = s /\ ~IsActive(u)
        /\ k <= MaxChildren
    BY <1>1, <1>3, LinkedFacts DEF FollowUp, EntryLinks, HasRoomFor
  <2>2. children' = Append(children, c) /\ entry' = entry
    BY <1>3 DEF FollowUp
  <2>3. Len(children') = k
    <3>1. children \in Seq(Child) /\ Len(children) \in Nat
      BY <1>1, LinkedFacts
    <3> HIDE DEF c
    <3> QED
      BY <2>2, <3>1
  <2>4. runs' = [runs EXCEPT ![r] = v]
    BY <1>3, <2>3 DEF FollowUp
  <2>5. u \in Run /\ u.sub = None /\ k \in 1 .. MaxChildren
    <3>1. u \in Run /\ RunLinks(r, runs, children)
      BY <1>1, <2>1, LinkedFacts
    <3>2. k \in 1 .. MaxChildren
      BY <2>1, RoomFacts
    <3> QED
      BY <2>1, <3>1, <3>2 DEF RunLinks
  <2> HIDE DEF k, u
  <2>6. v \in Run
    <3>1. k \in 0 .. MaxChildren
      BY <2>5
    <3> QED
      BY <2>5, <3>1 DEF Run
  <2>7. /\ v.s = u.s /\ v.seq = u.seq /\ v.seen = u.seen /\ v.kills = u.kills
        /\ v.sub = k /\ v.child = k /\ v.status = "running" /\ ~v.streaming /\ v.revived
    BY <2>5 DEF Run
  <2> HIDE DEF v
  <2>8. Resubscribed(v, u, k, children)
    BY <1>1, <2>1, <2>5, <2>6, <2>7 DEF Resubscribed, IsActive, Saved
  <2>9. /\ IsSubscription(c, r, u.seq) /\ Appended(children', children, c)
        /\ Updated(runs', runs, r, v)
    BY <2>2, <2>4 DEF IsSubscription, Appended, Updated
  <2> HIDE DEF c, r
  <2>10. Consistent(runs', children', entry, log)
    BY <2>1, <2>8, <2>9, SubscribeKeeps DEF k, u
  <2> QED
    BY <1>1, <2>2, <2>4, <2>10 DEF After
<1> QED
  BY <1>2, <1>3

LEMMA WatchAfter ==
  ASSUME Consistent(runs, children, entry, log),
         NEW s \in Subs, Watch(s)
  PROVE  After
<1>1. entry[s] = None /\ StartSubscribe(s, runs, children, FALSE) /\ log' = log
  BY DEF Watch
<1> QED
  BY <1>1, StartSubscribeKeeps DEF After, NoLonger

LEMMA StopAfter ==
  ASSUME Consistent(runs, children, entry, log),
         NEW s \in Sessions, Stop(s)
  PROVE  After
<1> DEFINE r == entry[s]
           u == runs[r]
           b == IF s = Web THEN None ELSE u.child
           v == [Finished(u, "error") EXCEPT !.kills = b]
           cs == Killed(children, u.sub)
<1>1. Linked(runs, children, entry)
  BY DEF Consistent
<1>2. r \in DOMAIN runs
  BY <1>1, LinkedFacts DEF Stop, EntryLinks
<1>3. /\ Updated(runs', runs, r, v) /\ DOMAIN runs' = DOMAIN runs
      /\ children' = Killed(cs, u.child)
      /\ entry' = entry /\ log' = log
  BY DEF Stop, Updated
<1>4. u \in Run /\ u.child \in DOMAIN children /\ u.sub \in DOMAIN children \union {None}
  BY <1>1, <1>2, LinkedFacts DEF RunLinks
<1>5. Milder(v, u)
  <2>1. Milder(Finished(u, "error"), u)
    BY <1>4, MilderOperators
  <2> DEFINE w == Finished(u, "error")
  <2> HIDE DEF w
  <2>2. w \in Run /\ Milder(w, u)
    BY <2>1 DEF Milder, w
  <2>3. b \in {None, u.child} /\ b \in 0 .. MaxChildren
    <3>1. None \in 0 .. MaxChildren
      BY BoundsAssumption DEF None
    <3>2. u.child \in 0 .. MaxChildren
      BY <1>4, BoundsAssumption DEF Run
    <3> QED
      BY <3>1, <3>2
  <2> HIDE DEF b
  <2>4. Milder([w EXCEPT !.kills = b], u)
    BY <2>2, <2>3 DEF Milder, Run, Keeps, IsOver, Saved, IsActive
  <2> QED
    BY <2>4 DEF w
<1> HIDE DEF v, r
<1>6. Consistent(runs', cs, entry, log)
  BY <1>2, <1>3, <1>5, EndKeeps
<1>7. Fainter(Killed(cs, u.child), cs)
  <2>1. cs \in Seq(Child) /\ DOMAIN cs = DOMAIN children
    BY <1>1, <1>4, LinkedFacts, KilledFainter DEF Fainter
  <2> HIDE DEF cs
  <2> QED
    BY <1>4, <2>1, KilledFainter
<1> HIDE DEF cs
<1>8. Consistent(runs', children', entry, log)
  BY <1>3, <1>6, <1>7, FainterKeeps
<1> QED
  BY <1>3, <1>8 DEF After

-----------------------------------------------------------------------------
(* The lines of the children *)

LEMMA LineFacts ==
  ASSUME Consistent(runs, children, entry, log),
         NEW k \in DOMAIN children, children[k].state # "closed",
         NEW i, IsNext(k, i)
  PROVE  /\ Prints(k, i, runs, children, log)
         /\ Updated(Read(k, i), children, k, [children[k] EXCEPT !.pos = i])
         /\ i \in 1 .. MaxEvents
         /\ children[k].run \in DOMAIN runs /\ runs[children[k].run] \in Run
<1> DEFINE d == [children[k] EXCEPT !.pos = i]
           ds == Read(k, i)
<1>1. Prints(k, i, runs, children, log)
  <2>1. /\ i \in DOMAIN log /\ i > children[k].pos
        /\ \A j \in DOMAIN log :
             j > children[k].pos /\ log[j].s = runs[children[k].run].s => i <= j
    BY DEF IsNext, Unread
  <2> QED
    BY <2>1 DEF Prints
<1>2. Updated(ds, children, k, d) /\ Advanced(d, children[k], i)
  BY DEF Updated, Read, Advanced
<1> HIDE DEF d, ds
<1>3. i \in 1 .. MaxEvents
  BY <1>1, <1>2, PrintsFacts
<1>4. children[k].run \in DOMAIN runs
  BY LinkedFacts DEF Consistent, ChildLinks
<1>5. runs[children[k].run] \in Run
  BY <1>4, LinkedFacts DEF Consistent
<1> QED
  BY <1>1, <1>2, <1>3, <1>4, <1>5 DEF d, ds

(* The run looks at the event.                                              *)
Looks(v, u, k, i) == v = Processed(u, k, i)

LEMMA LineReads ==
  ASSUME Consistent(runs, children, entry, log),
         NEW k \in DOMAIN children, children[k].state # "closed",
         NEW i, IsNext(k, i), IsNew(runs[children[k].run], i),
         NEW v, Looks(v, runs[children[k].run], k, i),
         NEW ps, Updated(ps, runs, children[k].run, v)
  PROVE  /\ Consistent(ps, Read(k, i), entry, log)
         /\ NoLonger(ps, Read(k, i)) /\ DOMAIN ps = DOMAIN runs
         /\ ps[children[k].run] = v
         /\ Reading(v, runs[children[k].run], i)
<1> DEFINE r  == children[k].run
           d  == [children[k] EXCEPT !.pos = i]
           ds == Read(k, i)
<1>1. /\ Prints(k, i, runs, children, log) /\ Updated(ds, children, k, d)
      /\ i \in 1 .. MaxEvents
      /\ r \in DOMAIN runs /\ runs[r] \in Run
  BY LineFacts
<1>2. Reading(v, runs[r], i)
  <2>1. k \in 1 .. MaxChildren
    <3>1. Linked(runs, children, entry)
      BY DEF Consistent
    <3>2. /\ Len(children) \in Nat /\ DOMAIN children = 1 .. Len(children)
          /\ Len(children) <= MaxChildren
      BY <3>1, LinkedFacts DEF Linked, Shaped
    <3> QED
      BY <3>2, BoundsAssumption
  <2> QED
    BY <1>1, <2>1, ProcessedReading DEF Looks
<1>3. Advanced(d, children[k], i) /\ DOMAIN ds = DOMAIN children
  BY DEF Advanced, Read
<1>4. v \in Run /\ runs \in Seq(Run)
  BY <1>2, LinkedFacts DEF Reading, Consistent
<1> HIDE DEF d, ds
<1>5. Consistent(ps, ds, entry, log)
  BY <1>1, <1>2, <1>3, ReadKeeps
<1> HIDE DEF r
<1>6. Updated(ps, runs, r, v)
  BY DEF r
<1>7. Len(ps) = Len(runs) /\ DOMAIN ps = DOMAIN runs
  BY <1>1, <1>4, <1>6, SeqUpdate
<1>9. Len(ds) = Len(children)
  <2>1. ds \in Seq(Child) /\ children \in Seq(Child)
    BY <1>5, LinkedFacts DEF Consistent
  <2> QED
    BY <1>3, <2>1, SeqFacts
<1>8. ps[r] = v
  BY <1>1, <1>4, <1>6, SeqUpdate
<1> QED
  BY <1>2, <1>5, <1>7, <1>8, <1>9 DEF NoLonger, ds, r

LEMMA SpawningKeeps ==
  ASSUME NEW rs, NEW cs, Consistent(rs, cs, entry, log), NoLonger(rs, cs),
         NEW i, Spawning(i, rs, cs)
  PROVE  /\ Consistent(runs', children', entry', log)
         /\ DOMAIN rs \subseteq DOMAIN runs'
<1> DEFINE s == log[i].what
<1>1. CASE s \in Subs /\ entry[s] = None
  <2>1. StartSubscribe(s, rs, cs, FALSE)
    BY <1>1 DEF Spawning
  <2> QED
    BY <1>1, <2>1, StartSubscribeKeeps
<1>2. CASE ~(s \in Subs /\ entry[s] = None)
  <2>1. runs' = rs /\ children' = cs /\ entry' = entry
    BY <1>2 DEF Spawning
  <2> QED
    BY <2>1
<1> QED
  BY <1>1, <1>2

LEMMA CliLineAfter ==
  ASSUME Consistent(runs, children, entry, log),
         NEW k \in DOMAIN children, NEW i \in Unread(k), CliLine(k, i)
  PROVE  After
<1> DEFINE r == children[k].run
           v == Processed(runs[r], k, i)
           ps == [runs EXCEPT ![r] = v]
<1>1. /\ children[k].cli /\ children[k].state # "closed" /\ IsNext(k, i)
      /\ Spawning(i, ps, Read(k, i)) /\ log' = log
  BY DEF CliLine
<1>2. /\ r \in DOMAIN runs /\ runs[r] \in Run /\ children[k] \in Child
      /\ i \in 1 .. MaxEvents /\ i > children[k].pos /\ Reads(k, runs, children, log)
  BY <1>1, LineFacts, LinkedFacts DEF Consistent, Prints
<1>3. IsNew(runs[r], i)
  <2>1. runs[r].seq \in Nat /\ children[k].pos \in Nat
    BY <1>2, BoundsAssumption DEF Run, Child
  <2>2. runs[r].seq <= children[k].pos
    BY <1>1, <1>2 DEF Reads
  <2> QED
    BY <1>2, <2>1, <2>2 DEF IsNew
<1>4. Updated(ps, runs, r, v) /\ Looks(v, runs[r], k, i)
  BY DEF Updated, Looks
<1> HIDE DEF ps, v
<1>5. /\ Consistent(ps, Read(k, i), entry, log)
      /\ NoLonger(ps, Read(k, i)) /\ DOMAIN ps = DOMAIN runs
  BY <1>1, <1>3, <1>4, LineReads
<1> QED
  BY <1>1, <1>5, SpawningKeeps DEF After

LEMMA WebLineAfter ==
  ASSUME Consistent(runs, children, entry, log),
         NEW k \in DOMAIN children, NEW i \in Unread(k), WebLine(k, i)
  PROVE  After
<1> DEFINE r == children[k].run
           u == runs[r]
           v == Processed(u, k, i)
           ps == [runs EXCEPT ![r] = v]
           ds == Read(k, i)
           d == [children[k] EXCEPT !.pos = i]
<1>1. ~children[k].cli /\ children[k].state # "closed" /\ IsNext(k, i) /\ log' = log
  BY DEF WebLine
<1>2. /\ r \in DOMAIN runs /\ u \in Run /\ Prints(k, i, runs, children, log)
      /\ Updated(ds, children, k, d)
  BY <1>1, LineFacts
<1>3. Updated(ps, runs, r, v) /\ Looks(v, u, k, i)
  BY DEF Updated, Looks
<1>4. runs \in Seq(Run)
  BY LinkedFacts DEF Consistent
<1>5. CASE ~IsNew(u, i)
  <2>1. runs' = runs /\ children' = ds /\ entry' = entry
    BY <1>5 DEF WebLine
  <2>2. Advanced(d, children[k], i)
    BY DEF Advanced
  <2> HIDE DEF d, ds
  <2>3. Consistent(runs, ds, entry, log)
    BY <1>1, <1>2, <1>5, <2>2, SkipKeeps
  <2> QED
    BY <1>1, <2>1, <2>3 DEF After
<1>6. CASE IsNew(u, i)
  <2>1. /\ Consistent(ps, ds, entry, log) /\ NoLonger(ps, ds)
        /\ DOMAIN ps = DOMAIN runs /\ ps[r] = v /\ Reading(v, u, i)
    <3> HIDE DEF ps, v
    <3> QED
      BY <1>1, <1>3, <1>6, LineReads
  <2>2. r \in DOMAIN ps /\ v \in Run /\ v.sub = u.sub
    BY <1>2, <2>1 DEF Reading
  <2>3. CASE log[i].what # "end"
    <3>1. Spawning(i, ps, ds)
      BY <1>6, <2>3 DEF WebLine
    <3> QED
      BY <1>1, <2>1, <3>1, SpawningKeeps DEF After
  <2>4. CASE log[i].what = "end" /\ HasRunningSubagents
    <3> DEFINE w == Flushed(Emitted(v))
    <3>1. runs' = [runs EXCEPT ![r] = w] /\ children' = ds /\ entry' = entry
      BY <1>6, <2>4 DEF WebLine
    <3>2. Updated(runs', ps, r, w) /\ DOMAIN runs' = DOMAIN runs
      BY <3>1 DEF Updated
    <3>3. Milder(w, v)
      <4> DEFINE x == Emitted(v)
      <4>1. x \in Run /\ Milder(x, v)
        BY <2>2, RunOperators, MilderOperators
      <4>2. Milder(Flushed(x), x)
        BY <4>1, MilderOperators
      <4> HIDE DEF x, v
      <4>3. Milder(Flushed(x), v)
        BY <2>2, <4>1, <4>2, MilderTrans
      <4> QED
        BY <4>3 DEF x
    <3>4. w.sub = v.sub
      BY <2>2 DEF Flushed, Emitted, Run
    <3> HIDE DEF w, v, ps, ds
    <3>5. Consistent(runs', ds, entry, log)
      BY <2>1, <2>2, <3>2, <3>3, <3>4, MilderKeeps
    <3> QED
      BY <1>1, <3>1, <3>2, <3>5 DEF After
  <2>5. CASE log[i].what = "end" /\ ~HasRunningSubagents /\ u.status # "waiting"
    <3>1. runs' = ps /\ children' = ds /\ entry' = entry
      BY <1>6, <2>5 DEF WebLine
    <3> HIDE DEF ps, ds
    <3> QED
      BY <1>1, <2>1, <3>1 DEF After
  <2>6. CASE log[i].what = "end" /\ ~HasRunningSubagents /\ u.status = "waiting"
    <3> DEFINE w == Finished(v, "completed")
    <3>1. /\ runs' = [runs EXCEPT ![r] = w] /\ children' = Killed(ds, u.sub)
          /\ entry' = entry
      BY <1>6, <2>6 DEF WebLine
    <3>2. Updated(runs', ps, r, w) /\ DOMAIN runs' = DOMAIN runs
      BY <3>1 DEF Updated
    <3>3. Milder(w, v)
      BY <2>2, MilderOperators
    <3> HIDE DEF w, v, ps, ds
    <3>4. Consistent(runs', Killed(ds, v.sub), entry, log)
      BY <2>1, <2>2, <3>2, <3>3, EndKeeps
    <3> QED
      BY <1>1, <2>2, <3>1, <3>2, <3>4 DEF After
  <2> QED
    BY <2>3, <2>4, <2>5, <2>6
<1> QED
  BY <1>5, <1>6

LEMMA SubagentLineAfter ==
  ASSUME Consistent(runs, children, entry, log),
         NEW k \in DOMAIN children, NEW i \in Unread(k), NEW reported \in BOOLEAN,
         SubagentLine(k, i, reported)
  PROVE  After
<1> DEFINE r == children[k].run
           u == runs[r]
           v == Processed(u, k, i)
           ps == [runs EXCEPT ![r] = v]
           ds == Read(k, i)
           d == [children[k] EXCEPT !.pos = i]
           fails == log[i].what = "fail" /\ ~reported /\ u.status = "running"
<1>1. /\ ~children[k].cli /\ children[k].state # "closed" /\ IsNext(k, i)
      /\ log' = log /\ entry' = entry
  BY DEF SubagentLine
<1>2. /\ r \in DOMAIN runs /\ u \in Run /\ Prints(k, i, runs, children, log)
      /\ Updated(ds, children, k, d)
  BY <1>1, LineFacts
<1>3. Updated(ps, runs, r, v) /\ Looks(v, u, k, i)
  BY DEF Updated, Looks
<1>4. runs \in Seq(Run)
  BY LinkedFacts DEF Consistent
<1>5. CASE ~IsNew(u, i)
  <2>1. runs' = [runs EXCEPT ![r] = u] /\ children' = ds
    BY <1>5 DEF SubagentLine
  <2>2. runs' = runs
    BY <1>2, <1>4, <2>1
  <2>3. Advanced(d, children[k], i)
    BY DEF Advanced
  <2> HIDE DEF d, ds
  <2>4. Consistent(runs, ds, entry, log)
    BY <1>1, <1>2, <1>5, <2>3, SkipKeeps
  <2> QED
    BY <1>1, <2>1, <2>2, <2>4 DEF After
<1>6. CASE IsNew(u, i)
  <2>1. /\ Consistent(ps, ds, entry, log) /\ NoLonger(ps, ds)
        /\ DOMAIN ps = DOMAIN runs /\ ps[r] = v /\ Reading(v, u, i)
    <3> HIDE DEF ps, v
    <3> QED
      BY <1>1, <1>3, <1>6, LineReads
  <2>2. r \in DOMAIN ps /\ v \in Run /\ v.sub = u.sub
    BY <1>2, <2>1 DEF Reading
  <2>3. CASE log[i].what = "end"
    <3> DEFINE w == [v EXCEPT !.ended = TRUE, !.finalizes = TRUE]
    <3>1. runs' = [runs EXCEPT ![r] = w] /\ children' = ds
      BY <1>6, <2>3 DEF SubagentLine
    <3>2. Updated(runs', ps, r, w) /\ DOMAIN runs' = DOMAIN runs
      BY <3>1 DEF Updated
    <3> HIDE DEF v
    <3>3. Milder(w, v) /\ w.sub = v.sub
      <4>1. v.cleanups \in Nat
        BY <2>2 DEF Run
      <4>2. w \in Run
        BY <2>2 DEF Run
      <4>3. /\ Keeps(w, v) /\ w.kills = v.kills /\ w.sub = v.sub /\ w.status = v.status
            /\ w.cleanups = v.cleanups /\ (Saved(v) => Saved(w))
        BY <2>2 DEF Run, Keeps, Saved, IsActive
      <4> QED
        BY <4>1, <4>2, <4>3 DEF Milder
    <3> HIDE DEF w, ps, ds
    <3>4. Consistent(runs', ds, entry, log)
      BY <2>1, <2>2, <3>2, <3>3, MilderKeeps
    <3> QED
      BY <1>1, <3>1, <3>2, <3>4 DEF After
  <2>4. CASE log[i].what # "end" /\ fails
    <3> DEFINE x == Finished(v, "error")
               w == [x EXCEPT !.finalizes = FALSE]
    <3>1. runs' = [runs EXCEPT ![r] = w] /\ children' = Killed(ds, u.sub)
      BY <1>6, <2>4 DEF SubagentLine
    <3>2. Updated(runs', ps, r, w) /\ DOMAIN runs' = DOMAIN runs
      BY <3>1 DEF Updated
    <3> HIDE DEF v
    <3>3. Milder(w, v)
      <4>1. x \in Run /\ Milder(x, v)
        BY <2>2, RunOperators, MilderOperators
      <4> HIDE DEF x
      <4>2. Milder(w, x)
        BY <4>1, MilderOperators
      <4> HIDE DEF w
      <4> QED
        BY <2>2, <4>1, <4>2, MilderTrans
    <3> HIDE DEF w, ps, ds
    <3>4. Consistent(runs', Killed(ds, v.sub), entry, log)
      BY <2>1, <2>2, <3>2, <3>3, EndKeeps
    <3> QED
      BY <1>1, <2>2, <3>1, <3>2, <3>4 DEF After
  <2>5. CASE log[i].what # "end" /\ ~fails
    <3>1. runs' = ps /\ children' = ds
      BY <1>6, <2>5 DEF SubagentLine
    <3> HIDE DEF ps, ds
    <3> QED
      BY <1>1, <2>1, <3>1 DEF After
  <2> QED
    BY <2>3, <2>4, <2>5
<1> QED
  BY <1>5, <1>6

-----------------------------------------------------------------------------
(* The ends of the children *)

(* A web run has no subscription as long as its CLI child has not closed.   *)
LEMMA CliNoSub ==
  ASSUME Consistent(runs, children, entry, log),
         NEW k \in DOMAIN children, children[k].cli, children[k].state # "closed"
  PROVE  LET r == children[k].run
         IN  /\ r \in DOMAIN runs /\ runs[r] \in Run
             /\ runs[r].s = Web /\ runs[r].child = k /\ runs[r].sub = None
             /\ NoSub(r, children)
<1> DEFINE r == children[k].run
           u == runs[r]
<1>1. Linked(runs, children, entry)
  BY DEF Consistent
<1>2. r \in DOMAIN runs /\ u.s = Web /\ u.child = k
  BY <1>1, LinkedFacts DEF ChildLinks
<1>3. u \in Run /\ RunLinks(r, runs, children)
  BY <1>1, <1>2, LinkedFacts
<1>4. ASSUME NEW j \in DOMAIN children, children[j].run = r, ~children[j].cli
      PROVE  FALSE
  <2>1. ChildLinks(j, runs, children)
    BY <1>1, LinkedFacts
  <2> QED
    BY <1>2, <1>4, <2>1 DEF ChildLinks
<1>5. u.sub = None
  BY <1>3, <1>4 DEF RunLinks
<1> QED
  BY <1>2, <1>3, <1>4, <1>5 DEF NoSub

LEMMA FainterNoSub ==
  ASSUME NEW r, NEW cs, NoSub(r, cs), NEW ds, Fainter(ds, cs)
  PROVE  NoSub(r, ds)
  BY DEF NoSub, Fainter

LEMMA CliClosesAfter ==
  ASSUME Consistent(runs, children, entry, log),
         NEW k \in DOMAIN children, NEW clean \in BOOLEAN, NEW puts \in BOOLEAN,
         CliCloses(k, clean, puts)
  PROVE  After
<1> DEFINE r  == children[k].run
           o  == runs[r]
           u  == Unlinked(o, k)
           v  == IF puts THEN Emitted(u) ELSE TextClosed(u, k)
           e  == Emitted(v)
           ds == Closed(children, k)
<1>1. children[k].cli /\ children[k].state # "closed" /\ log' = log /\ entry' = entry
  BY DEF CliCloses
<1>2. /\ r \in DOMAIN runs /\ o \in Run
      /\ o.s = Web /\ o.child = k /\ o.sub = None /\ NoSub(r, children)
  BY <1>1, CliNoSub
<1>3. /\ children \in Seq(Child) /\ runs \in Seq(Run)
  BY LinkedFacts DEF Consistent
<1>4. Fainter(ds, children) /\ ds[k].state = "closed" /\ Len(ds) = Len(children)
  BY <1>3, ClosedFainter
<1>5. Consistent(runs, ds, entry, log) /\ NoSub(r, ds)
  BY <1>2, <1>4, FainterKeeps, FainterNoSub
<1>6. u \in Run /\ Milder(u, o)
  BY <1>2, RunOperators, MilderOperators
<1>7. v \in Run /\ Milder(v, u)
  BY <1>6, RunOperators, MilderOperators
<1>8. CASE u.status # "running"
  <2>1. runs' = [runs EXCEPT ![r] = u] /\ children' = ds
    BY <1>8 DEF CliCloses
  <2>2. Updated(runs', runs, r, u) /\ DOMAIN runs' = DOMAIN runs
    BY <2>1 DEF Updated
  <2> HIDE DEF u, ds
  <2>3. Consistent(runs', ds, entry, log)
    BY <1>2, <1>5, <1>6, <2>2, MilderKeeps
  <2> QED
    BY <1>1, <2>1, <2>2, <2>3 DEF After
<1>9. CASE u.status = "running" /\ clean /\ HasRunningSubagents
  <2> DEFINE j == Len(ds) + 1
             c == NewChild(r, FALSE, o.seq, 0)
             x == [e EXCEPT !.status = "waiting"]
             w == [Flushed(x) EXCEPT !.sub = j]
  <2>1. u.seq = o.seq /\ o.status = "running"
    BY <1>2, <1>6, <1>9 DEF Milder, Keeps, IsOver
  <2>2. j <= MaxChildren
    BY <1>4, <1>9 DEF CliCloses, HasRoomFor
  <2>3. Appended(children', ds, c) /\ IsSubscription(c, r, o.seq)
    BY <1>9, <2>1 DEF CliCloses, Appended, IsSubscription
  <2>4. Len(children') = j
    <3>1. ds \in Seq(Child) /\ Len(ds) \in Nat /\ children' = Append(ds, c)
      BY <1>4, <2>3, SeqFacts DEF Fainter, Appended
    <3> HIDE DEF c, ds
    <3> QED
      BY <3>1
  <2>5. Updated(runs', runs, r, w) /\ DOMAIN runs' = DOMAIN runs
    BY <1>9, <2>4 DEF CliCloses, Updated
  <2> HIDE DEF v
  <2>13. e \in Run
    BY <1>7, RunOperators
  <2>6. j \in 0 .. MaxChildren
    <3>1. j \in 1 .. MaxChildren
      <4> HIDE DEF ds
      <4> QED
        BY <1>5, <2>2, RoomFacts
    <3> QED
      BY <3>1
  <2> HIDE DEF j
  <2>7. x \in Run /\ x.parts
    <3>1. e.parts
      BY <1>7 DEF Run, Emitted
    <3> HIDE DEF e
    <3> QED
      BY <2>13, <3>1 DEF Run
  <2>8. /\ Flushed(x) \in Run /\ Flushed(x).parts /\ Flushed(x).streaming
        /\ Flushed(x).status = "waiting"
    <3>1. Flushed(x) \in Run
      BY <2>7, FlushedType
    <3>2. IsActive(x) /\ x.status = "waiting"
      <4> HIDE DEF e
      <4> QED
        BY <2>13 DEF IsActive, Run
    <3> HIDE DEF x
    <3> QED
      BY <2>7, <3>1, <3>2 DEF Flushed, Run
  <2>9. /\ Flushed(x).s = o.s /\ Flushed(x).seq = o.seq /\ Flushed(x).seen = o.seen
        /\ Flushed(x).kills \in {None, o.kills} /\ Flushed(x).child = o.child
        /\ Flushed(x).cleanups = o.cleanups /\ Flushed(x).revived = o.revived
    <3>1. /\ u.s = o.s /\ u.seq = o.seq /\ u.seen = o.seen
          /\ u.kills \in {None, o.kills} /\ u.child = o.child
          /\ u.cleanups = o.cleanups /\ u.revived = o.revived
      BY <1>2 DEF Unlinked, Run
    <3>2. /\ v.s = u.s /\ v.seq = u.seq /\ v.seen = u.seen
          /\ v.kills = u.kills /\ v.child = u.child
          /\ v.cleanups = u.cleanups /\ v.revived = u.revived
      <4> HIDE DEF u
      <4> QED
        BY <1>6 DEF v, Emitted, TextClosed, Run
    <3>3. /\ e.s = v.s /\ e.seq = v.seq /\ e.seen = v.seen
          /\ e.kills = v.kills /\ e.child = v.child
          /\ e.cleanups = v.cleanups /\ e.revived = v.revived
      BY <1>7 DEF Emitted, Run
    <3>4. /\ x.s = e.s /\ x.seq = e.seq /\ x.seen = e.seen
          /\ x.kills = e.kills /\ x.child = e.child
          /\ x.cleanups = e.cleanups /\ x.revived = e.revived
      <4> HIDE DEF e
      <4> QED
        BY <2>13 DEF Run
    <3> HIDE DEF x, e, u
    <3> QED
      BY <2>7, <3>1, <3>2, <3>3, <3>4 DEF Flushed, Run
  <2> DEFINE y == Flushed(x)
  <2> HIDE DEF y
  <2>10. /\ w \in Run /\ w.sub = j /\ w.status = "waiting" /\ w.streaming = y.streaming
         /\ w.parts = y.parts /\ w.s = y.s /\ w.seq = y.seq /\ w.seen = y.seen
         /\ w.kills = y.kills /\ w.child = y.child /\ w.cleanups = y.cleanups
         /\ w.revived = y.revived
    <3>1. w = [y EXCEPT !.sub = j] /\ y \in Run /\ y.status = "waiting"
      BY <2>8 DEF y
    <3> HIDE DEF w
    <3> QED
      BY <2>6, <3>1 DEF Run
  <2> HIDE DEF w
  <2>11. Resubscribed(w, o, j, ds)
    BY <1>2, <1>4, <2>1, <2>8, <2>9, <2>10 DEF Resubscribed, IsActive, Saved, y
  <2> HIDE DEF c, ds
  <2>12. Consistent(runs', children', entry, log)
    BY <1>2, <1>5, <2>2, <2>3, <2>5, <2>11, SubscribeKeeps DEF j
  <2> QED
    BY <1>1, <2>5, <2>12 DEF After
<1>10. CASE u.status = "running" /\ ~(clean /\ HasRunningSubagents)
  <2> DEFINE status == IF clean THEN "completed" ELSE "error"
             w == Finished(v, status)
  <2>1. runs' = [runs EXCEPT ![r] = w] /\ children' = ds
    BY <1>10 DEF CliCloses
  <2>2. Updated(runs', runs, r, w) /\ DOMAIN runs' = DOMAIN runs
    BY <2>1 DEF Updated
  <2>3. Milder(w, v)
    <3>1. status \in {"completed", "error"}
      OBVIOUS
    <3> HIDE DEF status
    <3> QED
      BY <1>7, <3>1, MilderOperators
  <2> HIDE DEF w, v, u, ds, e
  <2>4. Milder(w, o)
    <3>1. Milder(v, o)
      BY <1>2, <1>6, <1>7, MilderTrans
    <3> QED
      BY <1>2, <2>3, <3>1, MilderTrans
  <2>5. Consistent(runs', ds, entry, log)
    BY <1>2, <1>5, <2>2, <2>4, MilderKeeps
  <2> QED
    BY <1>1, <2>1, <2>2, <2>5 DEF After
<1> QED
  BY <1>8, <1>9, <1>10

LEMMA CliFailsAfter ==
  ASSUME Consistent(runs, children, entry, log),
         NEW k \in DOMAIN children, CliFails(k)
  PROVE  After
<1> DEFINE r  == children[k].run
           u  == runs[r]
           v  == Emitted(u)
           w  == Finished(v, "error")
           ds == Closed(children, k)
<1>1. children[k].cli /\ children[k].state # "closed" /\ log' = log /\ entry' = entry
  BY DEF CliFails
<1>2. r \in DOMAIN runs /\ u \in Run /\ NoSub(r, children)
  BY <1>1, CliNoSub
<1>3. children \in Seq(Child)
  BY LinkedFacts DEF Consistent
<1>4. Fainter(ds, children)
  BY <1>3, ClosedFainter
<1>5. Consistent(runs, ds, entry, log) /\ NoSub(r, ds)
  BY <1>2, <1>4, FainterKeeps, FainterNoSub
<1>6. v \in Run /\ Milder(v, u)
  BY <1>2, RunOperators, MilderOperators
<1>7. runs' = [runs EXCEPT ![r] = w] /\ children' = ds
  BY DEF CliFails
<1>8. Updated(runs', runs, r, w) /\ DOMAIN runs' = DOMAIN runs
  BY <1>7 DEF Updated
<1> HIDE DEF v, ds
<1>9. Milder(w, v)
  BY <1>6, MilderOperators
<1> HIDE DEF w
<1>10. Milder(w, u)
  BY <1>2, <1>6, <1>9, MilderTrans
<1>11. Consistent(runs', ds, entry, log)
  BY <1>2, <1>5, <1>8, <1>10, MilderKeeps
<1> QED
  BY <1>1, <1>7, <1>8, <1>11 DEF After

LEMMA SubscriptionClosesAfter ==
  ASSUME Consistent(runs, children, entry, log),
         NEW k \in DOMAIN children, SubscriptionCloses(k)
  PROVE  After
<1> DEFINE r  == children[k].run
           o  == runs[r]
           u  == Unlinked(o, k)
           ps == [runs EXCEPT ![r] = u]
           ds == Closed(children, k)
<1>1. ~children[k].cli /\ log' = log /\ entry' = entry
  BY DEF SubscriptionCloses
<1>2. /\ children \in Seq(Child) /\ runs \in Seq(Run) /\ Linked(runs, children, entry)
      /\ r \in DOMAIN runs
  BY LinkedFacts DEF Consistent, ChildLinks
<1>3. o \in Run
  BY <1>2, LinkedFacts
<1>4. Fainter(ds, children) /\ ds[k].state = "closed"
  BY <1>2, ClosedFainter
<1>5. Consistent(runs, ds, entry, log)
  BY <1>4, FainterKeeps
<1>6. u \in Run /\ Milder(u, o)
  BY <1>3, RunOperators, MilderOperators
<1>7. u.sub = o.sub \/ NoSub(r, ds)
  <2>1. CASE o.sub = k
    <3>1. \A j \in DOMAIN children :
            children[j].run = r /\ ~children[j].cli /\ children[j].state = "up" => j = k
      BY <1>2, <2>1, LinkedFacts DEF ChildLinks
    <3> QED
      BY <1>4, <3>1 DEF NoSub, Fainter
  <2>2. CASE o.sub # k
    BY <1>3, <2>2 DEF Unlinked, Run
  <2> QED
    BY <2>1, <2>2
<1>8. Updated(ps, runs, r, u)
  BY DEF Updated
<1>9. Consistent(ps, ds, entry, log)
  <2> HIDE DEF ps, u, ds
  <2> QED
    BY <1>2, <1>5, <1>6, <1>7, <1>8, MilderKeeps
<1>10. CASE Follows(u) /\ u.ended
  <2> DEFINE v == Finished(u, "completed")
             w == [v EXCEPT !.finalizes = FALSE]
  <2>1. runs' = [runs EXCEPT ![r] = w] /\ children' = Killed(ds, u.sub)
    BY <1>10 DEF SubscriptionCloses
  <2>2. Updated(runs', ps, r, w) /\ DOMAIN runs' = DOMAIN runs
    BY <2>1 DEF Updated
  <2>3. r \in DOMAIN ps /\ ps[r] = u
    BY <1>2
  <2> HIDE DEF u, ps, ds
  <2>4. v \in Run /\ Milder(v, u)
    BY <1>6, RunOperators, MilderOperators
  <2> HIDE DEF v
  <2>5. Milder(w, v)
    BY <2>4, MilderOperators
  <2> HIDE DEF w
  <2>6. Milder(w, u)
    BY <1>6, <2>4, <2>5, MilderTrans
  <2>7. Consistent(runs', Killed(ds, ps[r].sub), entry, log)
    BY <1>9, <2>2, <2>3, <2>6, EndKeeps
  <2> QED
    BY <1>1, <2>1, <2>2, <2>3, <2>7 DEF After
<1>11. CASE ~(Follows(u) /\ u.ended)
  <2>1. runs' = ps /\ children' = ds
    BY <1>11 DEF SubscriptionCloses
  <2>2. DOMAIN ps = DOMAIN runs
    OBVIOUS
  <2> HIDE DEF ps, ds
  <2> QED
    BY <1>1, <1>9, <2>1, <2>2 DEF After
<1> QED
  BY <1>10, <1>11

-----------------------------------------------------------------------------
(* The timers *)

LEMMA RestartAfter ==
  ASSUME Consistent(runs, children, entry, log),
         NEW r \in DOMAIN runs, Restart(r)
  PROVE  After
<1> DEFINE u == runs[r]
           k == Len(children) + 1
           b == IF u.s = Web THEN u.child ELSE k
           v == [u EXCEPT !.sub = k, !.child = b]
           c == NewChild(r, FALSE, u.seq, 0)
<1>1. Linked(runs, children, entry) /\ log' = log /\ entry' = entry
  BY DEF Consistent, Restart
<1>2. u \in Run /\ RunLinks(r, runs, children) /\ children \in Seq(Child)
  BY <1>1, LinkedFacts
<1>3. CASE ~Resumes(u)
  <2>1. runs' = runs /\ children' = children
    BY <1>3 DEF Restart
  <2> QED
    BY <1>1, <2>1 DEF After
<1>4. CASE Resumes(u)
  <2>1. k <= MaxChildren /\ children' = Append(children, c)
    BY <1>4 DEF Restart, HasRoomFor
  <2>2. Len(children') = k
    <3>1. Len(children) \in Nat
      BY <1>1, LinkedFacts
    <3> HIDE DEF c
    <3> QED
      BY <1>2, <2>1, <3>1
  <2>3. runs' = [runs EXCEPT ![r] = v]
    BY <1>4, <2>2 DEF Restart
  <2>4. k \in 1 .. MaxChildren
    BY <2>1, RoomFacts
  <2> HIDE DEF k
  <2>5. b \in {u.child, k} /\ (u.s = Web => b = u.child) /\ (b = u.child \/ (u.s # Web /\ b = k))
    OBVIOUS
  <2> HIDE DEF b
  <2>6. /\ v \in Run /\ v.sub = k /\ v.child = b
        /\ v.s = u.s /\ v.seq = u.seq /\ v.seen = u.seen /\ v.kills = u.kills
        /\ v.status = u.status /\ v.cleanups = u.cleanups /\ v.revived = u.revived
        /\ v.streaming = u.streaming /\ v.parts = u.parts /\ v.silenced = u.silenced
    <3>1. k \in 0 .. MaxChildren
      BY <2>4
    <3> HIDE DEF u
    <3> QED
      BY <1>2, <2>4, <2>5, <3>1 DEF Run
  <2>7. u.sub = None /\ IsActive(u) /\ (u.s = Web => u.status = "waiting")
    BY <1>4 DEF Resumes, Follows, IsActive
  <2>8. u.s = Web => children[u.child].state = "closed"
    BY <1>2, <2>7 DEF RunLinks
  <2>9. Saved(v)
    <3>1. Saved(u)
      BY DEF Consistent
    <3> HIDE DEF v
    <3> QED
      BY <2>6, <3>1 DEF Saved, IsActive
  <2>10. Updated(runs', runs, r, v) /\ DOMAIN runs' = DOMAIN runs
    BY <2>3 DEF Updated
  <2>11. Appended(children', children, c) /\ IsSubscription(c, r, u.seq)
    BY <2>1 DEF Appended, IsSubscription
  <2> HIDE DEF v, c
  <2>12. Resubscribed(v, u, k, children)
    BY <2>5, <2>6, <2>7, <2>8, <2>9 DEF Resubscribed, IsActive
  <2>13. Consistent(runs', children', entry, log)
    BY <2>1, <2>10, <2>11, <2>12, SubscribeKeeps DEF k
  <2> QED
    BY <1>1, <2>10, <2>13 DEF After
<1> QED
  BY <1>3, <1>4

LEMMA FinalizeAfter ==
  ASSUME Consistent(runs, children, entry, log),
         NEW r \in DOMAIN runs, Finalize(r)
  PROVE  After
<1> DEFINE o == runs[r]
           u == [o EXCEPT !.finalizes = FALSE]
           v == Finished(u, "completed")
<1>1. o \in Run /\ log' = log /\ entry' = entry
  BY LinkedFacts DEF Consistent, Finalize
<1>2. u \in Run /\ Milder(u, o) /\ u.sub = o.sub
  <2>1. Milder(u, o)
    BY <1>1, MilderOperators
  <2> QED
    BY <1>1, <2>1 DEF Milder, Run
<1>3. CASE u.status = "running"
  <2>1. runs' = [runs EXCEPT ![r] = v] /\ children' = Killed(children, u.sub)
    BY <1>3 DEF Finalize
  <2>2. Updated(runs', runs, r, v) /\ DOMAIN runs' = DOMAIN runs
    BY <2>1 DEF Updated
  <2> HIDE DEF u
  <2>3. Milder(v, u)
    BY <1>2, MilderOperators
  <2> HIDE DEF v
  <2>4. Milder(v, o)
    BY <1>1, <1>2, <2>3, MilderTrans
  <2>5. Consistent(runs', Killed(children, o.sub), entry, log)
    BY <2>2, <2>4, EndKeeps
  <2> QED
    BY <1>1, <1>2, <2>1, <2>2, <2>5 DEF After
<1>4. CASE u.status # "running"
  <2>1. runs' = [runs EXCEPT ![r] = u] /\ children' = children
    BY <1>4 DEF Finalize
  <2>2. Updated(runs', runs, r, u) /\ DOMAIN runs' = DOMAIN runs
    BY <2>1 DEF Updated
  <2> HIDE DEF u
  <2>3. Consistent(runs', children, entry, log)
    BY <1>2, <2>2, MilderKeeps
  <2> QED
    BY <1>1, <2>1, <2>2, <2>3 DEF After
<1> QED
  BY <1>3, <1>4

LEMMA PersistAfter ==
  ASSUME Consistent(runs, children, entry, log),
         NEW r \in DOMAIN runs, Persist(r)
  PROVE  After
<1> DEFINE u == runs[r]
           v == Flushed(u)
<1>1. u \in Run
  BY LinkedFacts DEF Consistent
<1>2. Milder(v, u)
  BY <1>1, MilderOperators
<1>3. v.sub = u.sub
  BY <1>1 DEF Flushed, Run
<1>4. /\ runs' = [runs EXCEPT ![r] = v]
      /\ children' = children /\ entry' = entry /\ log' = log
  BY DEF Persist
<1>5. Updated(runs', runs, r, v) /\ DOMAIN runs' = DOMAIN runs
  BY <1>4 DEF Updated
<1> HIDE DEF v
<1>6. Consistent(runs', children, entry, log)
  BY <1>2, <1>3, <1>5, MilderKeeps
<1> QED
  BY <1>4, <1>5, <1>6 DEF After

LEMMA KillAfter ==
  ASSUME Consistent(runs, children, entry, log),
         NEW r \in DOMAIN runs, Kill(r)
  PROVE  After
<1> DEFINE u == runs[r]
           v == [u EXCEPT !.kills = None]
           ds == Killed(children, u.child)
<1>1. Linked(runs, children, entry)
  BY DEF Consistent
<1>2. u \in Run /\ u.child \in DOMAIN children /\ children \in Seq(Child)
  BY <1>1, LinkedFacts DEF RunLinks
<1>3. Milder(v, u) /\ v.sub = u.sub
  BY <1>2, MilderOperators DEF Run
<1>4. Fainter(ds, children)
  BY <1>2, KilledFainter
<1>5. runs' = [runs EXCEPT ![r] = v] /\ children' = ds /\ entry' = entry /\ log' = log
  BY DEF Kill
<1>6. Updated(runs', runs, r, v) /\ DOMAIN runs' = DOMAIN runs
  BY <1>5 DEF Updated
<1> HIDE DEF v, ds
<1>7. Consistent(runs, ds, entry, log)
  BY <1>4, FainterKeeps
<1>8. Consistent(runs', ds, entry, log)
  BY <1>3, <1>6, <1>7, MilderKeeps
<1> QED
  BY <1>5, <1>6, <1>8 DEF After

LEMMA CleanUpAfter ==
  ASSUME Consistent(runs, children, entry, log),
         NEW r \in DOMAIN runs, CleanUp(r)
  PROVE  After
<1> DEFINE u  == runs[r]
           s  == u.s
           v  == [u EXCEPT !.cleanups = @ - 1]
           rs == [runs EXCEPT ![r] = v]
<1>1. Linked(runs, children, entry)
  BY DEF Consistent
<1>2. u \in Run /\ runs \in Seq(Run) /\ entry \in [Sessions -> Nat]
  BY <1>1, LinkedFacts
<1>3. u.cleanups > 0 /\ log' = log
  BY DEF CleanUp
<1>4. Milder(v, u) /\ v.sub = u.sub
  <2>1. u.cleanups # 0
    BY <1>3
  <2>2. Milder(v, u)
    BY <1>2, <2>1, MilderOperators
  <2> QED
    BY <1>2, <2>2 DEF Run
<1>5. Updated(rs, runs, r, v) /\ DOMAIN rs = DOMAIN runs /\ rs[r] = v
  BY <1>2 DEF Updated
<1>6. rs = [runs EXCEPT ![r].cleanups = @ - 1]
  OBVIOUS
<1>7. CASE IsEntry(r)
  <2>1. s \in Sessions /\ entry[s] = r
    BY <1>2, <1>7 DEF IsEntry, Run
  <2>2. /\ runs' = Removed(rs, r) /\ children' = Killed(children, u.sub)
        /\ entry' = [entry EXCEPT ![s] = None]
    BY <1>6, <1>7, <2>1 DEF CleanUp
  <2>3. u.revived \/ ~IsActive(u)
    BY <1>3 DEF Consistent, Found
  <2>4. Updated(entry', entry, s, None)
    BY <2>2 DEF Updated
  <2> HIDE DEF v, rs
  <2>5. Consistent(runs, children, entry', log)
    BY <2>1, <2>3, <2>4, ForgetKeeps
  <2>6. Consistent(rs, children, entry', log)
    BY <1>4, <1>5, <2>5, MilderKeeps
  <2>7. Consistent(runs', Killed(children, rs[r].sub), entry', log) /\ DOMAIN runs' = DOMAIN rs
    BY <1>5, <2>2, <2>6, RemovedKeeps
  <2> QED
    BY <1>3, <1>4, <1>5, <2>2, <2>7 DEF After
<1>8. CASE ~IsEntry(r)
  <2>1. runs' = rs /\ entry' = entry /\ children' = children
    BY <1>6, <1>8 DEF CleanUp
  <2> HIDE DEF v, rs
  <2>2. Consistent(rs, children, entry, log)
    BY <1>4, <1>5, MilderKeeps
  <2> QED
    BY <1>3, <1>5, <2>1, <2>2 DEF After
<1> QED
  BY <1>7, <1>8

-----------------------------------------------------------------------------
(* The gateway *)

Emits ==
  /\ \E e \in [s : Sessions, what : What] : Appended(log', log, e)
  /\ Len(log) < MaxEvents
  /\ runs' = runs /\ entry' = entry /\ children' = children

(* The gateway leaves the web application alone.                            *)
Elsewhere == UNCHANGED <<runs, entry, children, restarts>>

LEMMA PrintedEmits ==
  ASSUME NEW s \in Sessions, NEW what \in What, Printed(s, what), Elsewhere
  PROVE  Emits
<1> DEFINE e == [s |-> s, what |-> what]
<1>1. e \in [s : Sessions, what : What]
  OBVIOUS
<1>2. Appended(log', log, e) /\ Len(log) < MaxEvents
  BY DEF Printed, Appended
<1> HIDE DEF e
<1> QED
  BY <1>1, <1>2 DEF Emits, Elsewhere

(* The gateway takes an event to its stream, or a step in the registry.     *)
Decides(s) ==
  \/ Complete(s) \/ AnnounceDirectly(s) \/ GiveUp(s) \/ Terminate(s)
  \/ \E steered \in BOOLEAN : AnnounceInstead(s, steered)

LEMMA GatewaySteps ==
  ASSUME Gateway
  PROVE  /\ Elsewhere
         /\ \/ \E s \in Subs : Spawn(s)
            \/ \E s \in Subs : Decides(s)
            \/ \E S \in SUBSET Subs : SendQueued(S)
            \/ \E s \in Sessions, what \in Said : Say(s, what)
            \/ \E s \in Sessions, what \in Over : EndTurn(s, what)
<1>1. \/ \E s \in Subs : Spawn(s)
      \/ \E s \in Subs : Decides(s)
      \/ \E S \in SUBSET Subs : SendQueued(S)
      \/ \E s \in Sessions, what \in Said : Say(s, what)
      \/ \E s \in Sessions, what \in Over : EndTurn(s, what)
  BY DEF Gateway, Decides
<1>2. Elsewhere
  BY <1>1 DEF Elsewhere, Decides, Spawn, Complete, AnnounceDirectly, AnnounceInstead,
              GiveUp, Terminate, SendQueued, Say, EndTurn
<1> QED
  BY <1>1, <1>2

LEMMA GatewayAfter ==
  ASSUME Consistent(runs, children, entry, log), Gateway
  PROVE  After
<1>1. Elsewhere
  BY GatewaySteps
<1>2. Emits \/ log' = log
  <2>1. ASSUME NEW s \in Subs, Spawn(s)
        PROVE  Emits
    <3>1. Printed(Web, s) /\ Web \in Sessions /\ s \in What
      BY <2>1 DEF Spawn, Sessions, What
    <3> QED
      BY <1>1, <3>1, PrintedEmits
  <2>2. ASSUME NEW s \in Sessions, NEW what \in Said, Say(s, what)
        PROVE  Emits
    <3>1. Printed(s, what) /\ what \in What
      BY <2>2 DEF Say, What
    <3> QED
      BY <1>1, <3>1, PrintedEmits
  <2>3. ASSUME NEW s \in Sessions, NEW what \in Over, EndTurn(s, what)
        PROVE  Emits
    <3>1. Printed(s, what) /\ what \in What
      BY <2>3 DEF EndTurn, What
    <3> QED
      BY <1>1, <3>1, PrintedEmits
  <2>4. ASSUME NEW s \in Subs, Decides(s)
        PROVE  log' = log
    BY <2>4 DEF Decides, Complete, AnnounceDirectly, AnnounceInstead, GiveUp, Terminate
  <2>5. ASSUME NEW S \in SUBSET Subs, SendQueued(S)
        PROVE  log' = log
    BY <2>5 DEF SendQueued
  <2> QED
    BY <2>1, <2>2, <2>3, <2>4, <2>5, GatewaySteps
<1>3. CASE log' = log
  BY <1>1, <1>3 DEF Elsewhere, After
<1>4. CASE Emits
  <2>1. PICK e \in [s : Sessions, what : What] : Appended(log', log, e)
    BY <1>4 DEF Emits
  <2>2. Len(log) + 1 <= MaxEvents
    <3>1. Len(log) \in Nat /\ MaxEvents \in Nat
      BY SeqFacts, BoundsAssumption DEF Consistent
    <3> QED
      BY <1>4, <3>1 DEF Emits
  <2>3. Consistent(runs, children, entry, log')
    BY <2>1, <2>2, EventKeeps
  <2> QED
    BY <1>4, <2>3 DEF After, Emits
<1> QED
  BY <1>2, <1>3, <1>4

-----------------------------------------------------------------------------
(* The theorems *)

LEMMA InitInv ==
  ASSUME Init
  PROVE  IInv
<1>1. /\ <<>> \in Seq(Run) /\ <<>> \in Seq(Child)
      /\ <<>> \in Seq([s : Sessions, what : What])
      /\ Len(<<>>) = 0 /\ DOMAIN <<>> = {}
  BY EmptySeq
<1>2. 0 <= MaxRuns /\ 0 <= MaxChildren /\ 0 <= MaxEvents /\ 0 \in 0 .. MaxInputs
  BY BoundsAssumption
<1>3. entry \in [Sessions -> Nat] /\ \A s \in Sessions : entry[s] = None
  BY DEF Init, None
<1>4. Linked(runs, children, entry)
  BY <1>1, <1>2, <1>3 DEF Init, Linked, Shaped, EntryLinks
<1>5. Consistent(runs, children, entry, log)
  BY <1>1, <1>2, <1>4 DEF Init, Consistent
<1> QED
  BY <1>2, <1>5 DEF Init, IInv, Records

LEMMA NextAfter ==
  ASSUME IInv, Next
  PROVE  After
<1>1. Consistent(runs, children, entry, log) /\ turns \in [Sessions -> Nat]
  BY DEF IInv
<1>2. CASE Request
  BY <1>1, <1>2, StartAfter, FollowUpAfter, WatchAfter, StopAfter DEF Request
<1>3. CASE ChildStep
  <2>1. ASSUME NEW k \in DOMAIN children, NEW i \in Unread(k),
               \/ CliLine(k, i) \/ WebLine(k, i)
               \/ \E reported \in BOOLEAN : SubagentLine(k, i, reported)
        PROVE  After
    BY <1>1, <2>1, CliLineAfter, WebLineAfter, SubagentLineAfter
  <2>2. ASSUME NEW k \in DOMAIN children,
               \/ \E clean, puts \in BOOLEAN : CliCloses(k, clean, puts)
               \/ CliFails(k) \/ SubscriptionCloses(k)
        PROVE  After
    BY <1>1, <2>2, CliClosesAfter, CliFailsAfter, SubscriptionClosesAfter
  <2> QED
    BY <1>3, <2>1, <2>2 DEF ChildStep
<1>4. CASE Timer
  BY <1>1, <1>4, RestartAfter, FinalizeAfter, PersistAfter, CleanUpAfter, KillAfter DEF Timer
<1>5. CASE Gateway
  BY <1>1, <1>5, GatewayAfter
<1> QED
  BY <1>2, <1>3, <1>4, <1>5 DEF Next

(* The variables that Consistent is not about.                              *)
Others ==
  /\ turns \in [Sessions -> Nat]
  /\ registry \in [Subs -> Records]
  /\ restarts \subseteq DOMAIN runs
  /\ inputs \in 0 .. MaxInputs
  /\ hurried \in BOOLEAN

LEMMA RequestOthers ==
  ASSUME IInv, Request, After
  PROVE  Others'
<1>1. Others /\ MaxInputs \in Nat
  BY BoundsAssumption DEF IInv, Others
<1>2. /\ inputs < MaxInputs /\ inputs' = inputs + 1
      /\ \/ turns' = turns
         \/ \E s \in Sessions : turns' = [turns EXCEPT ![s] = @ + 1]
      /\ UNCHANGED <<registry, restarts, hurried>>
  BY DEF Request, Start, FollowUp, Watch, Stop, Input, Sessions
<1>3. turns' \in [Sessions -> Nat]
  BY <1>1, <1>2 DEF Others
<1>4. inputs' \in 0 .. MaxInputs
  BY <1>1, <1>2 DEF Others
<1> QED
  BY <1>1, <1>2, <1>3, <1>4 DEF Others, After

LEMMA ChildOthers ==
  ASSUME IInv, ChildStep, After
  PROVE  Others'
<1>1. Others /\ MaxInputs \in Nat
  BY BoundsAssumption DEF IInv, Others
<1>2. \A k \in DOMAIN children : children[k].run \in DOMAIN runs
  BY LinkedFacts DEF IInv, Consistent, ChildLinks
<1> DEFINE Moves == /\ UNCHANGED inputs \/ Input
                    /\ UNCHANGED <<turns, registry>>
                    /\ restarts' \subseteq restarts \union DOMAIN runs
                    /\ hurried' \in BOOLEAN
<1>3. hurried \in BOOLEAN
  BY <1>1 DEF Others
<1>4. ASSUME NEW k \in DOMAIN children, NEW i \in Unread(k), CliLine(k, i)
      PROVE  Moves
  BY <1>3, <1>4 DEF CliLine
<1>5. ASSUME NEW k \in DOMAIN children, NEW i \in Unread(k), WebLine(k, i)
      PROVE  Moves
  <2>1. UNCHANGED <<turns, registry, restarts, inputs>>
    BY <1>5 DEF WebLine
  <2>3. hurried' \in BOOLEAN
    BY <1>5 DEF WebLine
  <2> QED
    BY <2>1, <2>3
<1>6. ASSUME NEW k \in DOMAIN children, NEW i \in Unread(k), NEW reported \in BOOLEAN,
             SubagentLine(k, i, reported)
      PROVE  Moves
  BY <1>3, <1>6 DEF SubagentLine
<1>8. ASSUME NEW k \in DOMAIN children, NEW clean \in BOOLEAN, NEW puts \in BOOLEAN,
             CliCloses(k, clean, puts)
      PROVE  Moves
  <2>1. UNCHANGED <<turns, registry, restarts>> /\ (UNCHANGED inputs \/ Input)
    BY <1>8 DEF CliCloses
  <2>2. \/ UNCHANGED hurried
        \/ hurried' = (hurried \/ IsLast(Unlinked(runs[children[k].run], k).seq))
    BY <1>8 DEF CliCloses
  <2>3. hurried' \in BOOLEAN
    BY <1>3, <2>2
  <2> QED
    BY <2>1, <2>3
<1>9. ASSUME NEW k \in DOMAIN children, CliFails(k)
      PROVE  Moves
  BY <1>3, <1>9 DEF CliFails
<1>10. ASSUME NEW k \in DOMAIN children, SubscriptionCloses(k)
       PROVE  Moves
  <2>1. UNCHANGED <<turns, registry, hurried>> /\ (UNCHANGED inputs \/ Input)
    BY <1>10 DEF SubscriptionCloses
  <2>2. restarts' = restarts \/ restarts' = restarts \union {children[k].run}
    BY <1>10 DEF SubscriptionCloses
  <2> QED
    BY <1>2, <1>3, <2>1, <2>2
<1>11. Moves
  <2> HIDE DEF Moves
  <2> QED
    BY <1>4, <1>5, <1>6, <1>8, <1>9, <1>10 DEF ChildStep
<1>7. inputs' \in 0 .. MaxInputs
  BY <1>1, <1>11 DEF Others, Input
<1> QED
  BY <1>1, <1>7, <1>11 DEF Others, After

LEMMA TimerOthers ==
  ASSUME IInv, Timer, After
  PROVE  Others'
<1>1. Others
  BY DEF IInv, Others
<1>2. UNCHANGED <<turns, registry, inputs, hurried>> /\ restarts' \subseteq restarts
  BY DEF Timer, Restart, Finalize, Persist, CleanUp, Kill
<1> QED
  BY <1>1, <1>2 DEF Others, After

LEMMA GatewayOthers ==
  ASSUME IInv, Gateway, After
  PROVE  Others'
<1>1. Others /\ MaxInputs \in Nat
  BY BoundsAssumption DEF IInv, Others
<1>2. /\ turns' \in [Sessions -> Nat]
      /\ registry' \in [Subs -> Records]
      /\ UNCHANGED inputs \/ Input
      /\ hurried' \in BOOLEAN
  <2> DEFINE Moves == /\ turns' \in [Sessions -> Nat]
                      /\ registry' \in [Subs -> Records]
                      /\ UNCHANGED inputs \/ Input
                      /\ hurried' \in BOOLEAN
  <2>1. ASSUME NEW s \in Subs, Spawn(s)
        PROVE  Moves
    BY <1>1, <2>1 DEF Others, Spawn, Sessions, Records
  <2>2. ASSUME NEW s \in Subs, Decides(s)
        PROVE  Moves
    <3>1. \/ turns' = turns
          \/ turns' = [turns EXCEPT ![Web] = @ + 1]
      BY <2>2 DEF Decides, Complete, AnnounceDirectly, AnnounceInstead, GiveUp, Terminate
    <3>2. \E rec \in Records : registry' = [registry EXCEPT ![s] = rec]
      BY <2>2 DEF Decides, Complete, AnnounceDirectly, AnnounceInstead, GiveUp, Terminate,
                  Records
    <3>3. UNCHANGED inputs \/ Input
      BY <2>2 DEF Decides, Complete, AnnounceDirectly, AnnounceInstead, GiveUp, Terminate
    <3>4. hurried' = hurried \/ hurried' = (hurried \/ turns[Web] = 0)
      BY <2>2 DEF Decides, Complete, AnnounceDirectly, AnnounceInstead, GiveUp, Terminate
    <3>5. turns' \in [Sessions -> Nat]
      BY <1>1, <3>1 DEF Others, Sessions
    <3>6. registry' \in [Subs -> Records]
      BY <1>1, <3>2 DEF Others
    <3> QED
      BY <1>1, <3>3, <3>4, <3>5, <3>6 DEF Others
  <2>3. ASSUME NEW S \in SUBSET Subs, SendQueued(S)
        PROVE  Moves
    BY <1>1, <2>3 DEF Others, SendQueued, Sessions, Records
  <2>4. ASSUME NEW s \in Sessions, NEW what \in Said, Say(s, what)
        PROVE  Moves
    BY <1>1, <2>4 DEF Others, Say
  <2>5. ASSUME NEW s \in Sessions, NEW what \in Over, EndTurn(s, what)
        PROVE  Moves
    <3>1. turns[s] > 0 /\ turns' = [turns EXCEPT ![s] = @ - 1]
      BY <2>5 DEF EndTurn
    <3>2. turns' \in [Sessions -> Nat]
      BY <1>1, <3>1 DEF Others
    <3> QED
      BY <1>1, <2>5, <3>2 DEF Others, EndTurn
  <2> HIDE DEF Moves
  <2>6. Moves
    BY <2>1, <2>2, <2>3, <2>4, <2>5, GatewaySteps
  <2> QED
    BY <2>6 DEF Moves
<1>3. restarts' = restarts
  BY GatewaySteps DEF Elsewhere
<1>4. inputs' \in 0 .. MaxInputs
  BY <1>1, <1>2 DEF Others, Input
<1> QED
  BY <1>1, <1>2, <1>3, <1>4 DEF Others, After

LEMMA NextInv ==
  ASSUME IInv, [Next]_vars
  PROVE  IInv'
<1>1. CASE Next
  <2>1. After
    BY <1>1, NextAfter
  <2>2. Others'
    BY <1>1, <2>1, RequestOthers, ChildOthers, TimerOthers, GatewayOthers DEF Next
  <2> QED
    BY <2>1, <2>2 DEF After, Others, IInv
<1>2. CASE UNCHANGED vars
  BY <1>2 DEF vars, IInv
<1> QED
  BY <1>1, <1>2

(* The links between runs, children, the map and the log hold for ever,     *)
(* whatever order requests, lines, ends of children and timers come in.     *)
THEOREM Invariance == Spec => []IInv
<1>1. Init => IInv
  BY InitInv
<1>2. IInv /\ [Next]_vars => IInv'
  BY NextInv
<1> QED
  BY <1>1, <1>2, PTL DEF Spec

(* The variables keep their types, an entry of the map is a run of its      *)
(* session, and the subscription of a run is a child of that run.           *)
THEOREM Typing == Spec => []TypeOK
<1>1. IInv => TypeOK
  <2> SUFFICES ASSUME IInv PROVE TypeOK
    OBVIOUS
  <2>1. /\ Linked(runs, children, entry)
        /\ log \in Seq([s : Sessions, what : What]) /\ Len(log) <= MaxEvents
    BY DEF IInv, Consistent
  <2>2. \A r \in DOMAIN runs : LET k == runs[r].sub
                               IN  k # None => children[k].run = r /\ ~children[k].cli
    BY <2>1, LinkedFacts DEF RunLinks
  <2>3. \A s \in Sessions : entry[s] # None => entry[s] \in DOMAIN runs /\ runs[entry[s]].s = s
    BY <2>1, LinkedFacts DEF EntryLinks
  <2> QED
    BY <2>1, <2>2, <2>3 DEF TypeOK, IInv, Linked, Shaped
<1> QED
  BY <1>1, Invariance, PTL

(* A run processes the events of its session once each, in order and        *)
(* without a gap: across its CLI child, its subscriptions, their restarts,  *)
(* and children that print on after they were told to stop.                 *)
THEOREM EventsSeenOnce == Spec => []EventsOnce
<1>1. IInv => EventsOnce
  BY DEF IInv, Consistent, Cursor, Gapless, EventsOnce
<1> QED
  BY <1>1, Invariance, PTL

(* A run has at most one child that was not told to stop.                   *)
THEOREM LiveChildren == Spec => []OneLiveChild
<1>1. IInv => OneLiveChild
  <2> DEFINE U(r) == {k \in DOMAIN children :
                        children[k].run = r /\ children[k].state = "up"}
  <2> SUFFICES ASSUME IInv, NEW r \in DOMAIN runs
               PROVE  Cardinality(U(r)) <= 1
    BY DEF OneLiveChild
  <2>1. ASSUME NEW j \in U(r), NEW k \in U(r)
        PROVE  j = k
    <3>1. ChildLinks(j, runs, children) /\ ChildLinks(k, runs, children)
      BY LinkedFacts DEF IInv, Consistent
    <3>2. children[j].run = r /\ children[k].run = r
          /\ children[j].state = "up" /\ children[k].state = "up"
      OBVIOUS
    <3> HIDE DEF U
    <3> QED
      BY <3>1, <3>2 DEF ChildLinks
  <2> HIDE DEF U
  <2>2. CASE U(r) = {}
    BY <2>2, FS_EmptySet
  <2>3. CASE U(r) # {}
    <3>1. PICK k \in U(r) : TRUE
      BY <2>3
    <3>2. U(r) = {k}
      BY <2>1, <3>1
    <3>3. Cardinality({k}) = 1
      BY FS_Singleton
    <3> QED
      BY <3>2, <3>3
  <2> QED
    BY <2>2, <2>3
<1> QED
  BY <1>1, Invariance, PTL

(* However a run ends, the message in its file is not left as streaming,    *)
(* unless a silent reply was taken out of it and left it empty (silenced).  *)
THEOREM MessageSaved == Spec => []FinishedIsSaved
<1>1. IInv => FinishedIsSaved
  BY DEF IInv, Consistent, Saved, FinishedIsSaved
<1> QED
  BY <1>1, Invariance, PTL

(* A run that is active, and was not reactivated, is the one that requests  *)
(* find: no grace period and no later run takes its place.                  *)
THEOREM RequestsFindIt == Spec => []ActiveIsFound
<1>1. IInv => ActiveIsFound
  BY DEF IInv, Consistent, Found, ActiveIsFound
<1> QED
  BY <1>1, Invariance, PTL

-----------------------------------------------------------------------------
(* What ends an active run is on its way (ProgressInv) *)

(* Children are told to stop, print on, or begin; none closes, unless       *)
(* another run's.                                                           *)
Steady(r, ds, cs) ==
  /\ DOMAIN cs \subseteq DOMAIN ds
  /\ \A k \in DOMAIN cs :
       /\ ds[k].run = cs[k].run /\ ds[k].cli = cs[k].cli
       /\ cs[k].run = r /\ ds[k].state = "closed" => cs[k].state = "closed"

Tame(ds, cs) ==
  /\ DOMAIN cs \subseteq DOMAIN ds
  /\ \A k \in DOMAIN cs :
       /\ ds[k].run = cs[k].run /\ ds[k].cli = cs[k].cli
       /\ ds[k].state = "closed" => cs[k].state = "closed"

(* A change of a run that needs no other child for it.                      *)
Softer(v, u) ==
  /\ v.s = u.s /\ v.child = u.child /\ v.sub \in {None, u.sub}
  /\ v.status = u.status \/ IsOver(v)

(* A change of a run that needs nothing else to come.                       *)
Bides(v, u) ==
  /\ v.s = u.s /\ v.seq = u.seq
  /\ \/ IsOver(v)
     \/ v.status = u.status /\ (v.finalizes = u.finalizes \/ v.status # "running")

LEMMA AttendedStays ==
  ASSUME NEW rs, NEW cs, NEW en, Linked(rs, cs, en),
         NEW r \in DOMAIN rs, NEW re, Attended(r, rs, cs, re),
         NEW ps, Softer(ps[r], rs[r]),
         NEW ds, Steady(r, ds, cs),
         NEW rf, r \in re => r \in rf
  PROVE  Attended(r, ps, ds, rf)
<1> DEFINE u == rs[r]
           v == ps[r]
<1>1. /\ RunLinks(r, rs, cs) /\ u \in Run
      /\ u.child \in DOMAIN cs
  BY LinkedFacts DEF RunLinks
<1> HIDE DEF v
<1>2. v.s = u.s /\ v.child = u.child /\ v.sub \in {None, u.sub}
  BY DEF Softer, v
<1>3. v.status = u.status \/ v.status \notin {"running", "waiting"}
  BY DEF Softer, IsOver, v
<1>4. v.status = "waiting" => v.s = Web
  BY <1>2, <1>3 DEF Attended
<1>5. v.s = Web /\ v.status = "running" =>
        ds[v.child].run = r /\ ds[v.child].cli /\ ds[v.child].state # "closed"
  BY <1>1, <1>2, <1>3 DEF Attended, Steady
<1>6. v.sub # None => ds[v.sub].state # "closed"
  BY <1>1, <1>2 DEF Attended, RunLinks, Steady
<1>7. Follows(v) =>
        r \in rf \/ \E k \in DOMAIN ds : ds[k].run = r /\ ~ds[k].cli /\ ds[k].state # "closed"
  <2> SUFFICES ASSUME Follows(v), r \notin rf
               PROVE  \E k \in DOMAIN ds : ds[k].run = r /\ ~ds[k].cli /\ ds[k].state # "closed"
    OBVIOUS
  <2>1. Follows(u)
    BY <1>2, <1>3 DEF Follows
  <2>2. PICK k \in DOMAIN cs : cs[k].run = r /\ ~cs[k].cli /\ cs[k].state # "closed"
    BY <2>1 DEF Attended
  <2> QED
    BY <2>2 DEF Steady
<1> QED
  BY <1>4, <1>5, <1>6, <1>7 DEF Attended, v

LEMMA HeededStays ==
  ASSUME NEW rs, NEW cs, NEW en, Linked(rs, cs, en),
         NEW re, Heeded(rs, cs, re),
         NEW ps, DOMAIN ps = DOMAIN rs, \A q \in DOMAIN rs : Softer(ps[q], rs[q]),
         NEW ds, Tame(ds, cs),
         NEW rf, \A q \in DOMAIN rs : q \in re => q \in rf
  PROVE  Heeded(ps, ds, rf)
<1> SUFFICES ASSUME NEW q \in DOMAIN rs
             PROVE  Attended(q, ps, ds, rf)
  BY DEF Heeded
<1>1. Steady(q, ds, cs)
  BY DEF Steady, Tame
<1>2. Attended(q, rs, cs, re) /\ Softer(ps[q], rs[q])
  BY DEF Heeded
<1> QED
  BY <1>1, <1>2, AttendedStays

(* One run changes, and its part of the invariant has been shown.           *)
LEMMA HeededUpdate ==
  ASSUME NEW rs, NEW cs, NEW en, Linked(rs, cs, en),
         NEW re, Heeded(rs, cs, re),
         NEW r \in DOMAIN rs, NEW v, NEW ps, Updated(ps, rs, r, v),
         NEW ds, \A q \in DOMAIN rs : q # r => Steady(q, ds, cs),
         NEW rf, \A q \in DOMAIN rs : q # r /\ q \in re => q \in rf,
         Attended(r, ps, ds, rf)
  PROVE  Heeded(ps, ds, rf)
<1>1. DOMAIN ps = DOMAIN rs /\ \A q \in DOMAIN rs : q # r => ps[q] = rs[q]
  BY DEF Updated
<1> SUFFICES ASSUME NEW q \in DOMAIN rs, q # r
             PROVE  Attended(q, ps, ds, rf)
  BY <1>1 DEF Heeded
<1>2. Softer(ps[q], rs[q])
  BY <1>1 DEF Softer
<1>3. Attended(q, rs, cs, re) /\ Steady(q, ds, cs)
  BY DEF Heeded
<1> QED
  BY <1>2, <1>3, AttendedStays

LEMMA HeededSofter ==
  ASSUME NEW rs, NEW cs, NEW en, Linked(rs, cs, en),
         NEW re, Heeded(rs, cs, re),
         NEW r \in DOMAIN rs, NEW v, Softer(v, rs[r]), NEW ps, Updated(ps, rs, r, v),
         NEW ds, Tame(ds, cs)
  PROVE  Heeded(ps, ds, re)
<1>1. DOMAIN ps = DOMAIN rs
  BY DEF Updated
<1>2. \A q \in DOMAIN rs : Softer(ps[q], rs[q])
  <2>1. \A q \in DOMAIN rs : ps[q] = IF q = r THEN v ELSE rs[q]
    BY LinkedFacts DEF Updated
  <2> QED
    BY <2>1 DEF Softer
<1> QED
  BY <1>1, <1>2, HeededStays

LEMMA AwaitsStays ==
  ASSUME NEW u, NEW v, Bides(v, u), u.s \in Sessions, NEW lg, NEW reg,
         NEW t \in [Sessions -> Nat], NEW m \in [Sessions -> Nat],
         \A s \in Sessions : m[s] >= t[s],
         Awaits(u, lg, t, reg)
  PROVE  Awaits(v, lg, m, reg)
<1>1. Web \in Sessions
  BY DEF Sessions
<1>2. \A s \in Sessions : t[s] > 0 => m[s] > 0
  OBVIOUS
<1> QED
  BY <1>1, <1>2 DEF Awaits, Ahead, Bides, IsOver

LEMMA PatientStays ==
  ASSUME NEW rs \in Seq(Run), NEW ps, DOMAIN ps = DOMAIN rs,
         \A q \in DOMAIN rs : Bides(ps[q], rs[q]),
         NEW lg, NEW reg,
         NEW t \in [Sessions -> Nat], NEW m \in [Sessions -> Nat],
         \A s \in Sessions : m[s] >= t[s],
         Patient(rs, lg, t, reg)
  PROVE  Patient(ps, lg, m, reg)
<1> SUFFICES ASSUME NEW q \in DOMAIN rs
             PROVE  Awaits(ps[q], lg, m, reg)
  BY DEF Patient
<1>1. rs[q] \in Run
  BY SeqFacts
<1>2. rs[q].s \in Sessions /\ Bides(ps[q], rs[q]) /\ Awaits(rs[q], lg, t, reg)
  BY <1>1 DEF Run, Patient
<1> QED
  BY <1>2, AwaitsStays

LEMMA PatientUpdate ==
  ASSUME NEW rs, NEW lg, NEW t, NEW reg, Patient(rs, lg, t, reg),
         NEW r \in DOMAIN rs, NEW v, Awaits(v, lg, t, reg),
         NEW ps, Updated(ps, rs, r, v)
  PROVE  Patient(ps, lg, t, reg)
<1>1. DOMAIN ps = DOMAIN rs
      /\ \A q \in DOMAIN rs : ps[q] = rs[q] \/ (q = r /\ ps[q] = v)
  BY DEF Updated
<1> QED
  BY <1>1 DEF Patient

(* The operations on the children *)
LEMMA KilledTame ==
  ASSUME NEW cs \in Seq(Child), NEW k \in DOMAIN cs \union {None}
  PROVE  Tame(Killed(cs, k), cs)
<1>1. None \notin DOMAIN cs /\ \A j \in DOMAIN cs : cs[j] \in Child
  BY SeqFacts DEF None
<1>2. CASE k # None /\ cs[k].state = "up"
  <2> DEFINE c == [cs[k] EXCEPT !.state = "killed"]
  <2>1. k \in DOMAIN cs /\ Killed(cs, k) = [cs EXCEPT ![k] = c]
    BY <1>2 DEF Killed
  <2>2. c.run = cs[k].run /\ c.cli = cs[k].cli /\ c.state = "killed"
    BY <1>1, <2>1 DEF Child
  <2> HIDE DEF c
  <2> QED
    BY <2>1, <2>2 DEF Tame
<1>3. CASE ~(k # None /\ cs[k].state = "up")
  BY <1>3 DEF Killed, Tame
<1> QED
  BY <1>2, <1>3

LEMMA ReadTame ==
  ASSUME NEW k \in DOMAIN children, children \in Seq(Child), NEW i
  PROVE  Tame(Read(k, i), children)
<1>1. \A j \in DOMAIN children : children[j] \in Child
  BY SeqFacts
<1> QED
  BY <1>1 DEF Tame, Read, Child

LEMMA TameTrans ==
  ASSUME NEW cs, NEW ds, NEW es, Tame(ds, cs), Tame(es, ds)
  PROVE  Tame(es, cs)
  BY DEF Tame

LEMMA AppendTame ==
  ASSUME NEW cs \in Seq(Child), NEW c \in Child, NEW ds, Appended(ds, cs, c)
  PROVE  Tame(ds, cs)
<1>1. DOMAIN ds = DOMAIN cs \union {Len(cs) + 1}
  BY SeqAppend
<1>2. \A j \in DOMAIN cs : ds[j] = cs[j]
  BY SeqAppendAt
<1> QED
  BY <1>1, <1>2 DEF Tame

(* A child that closes concerns its own run only.                           *)
LEMMA ClosedSteady ==
  ASSUME NEW cs \in Seq(Child), NEW k \in DOMAIN cs, NEW r, r # cs[k].run
  PROVE  Steady(r, Closed(cs, k), cs)
<1> DEFINE c == [cs[k] EXCEPT !.state = "closed", !.pos = 0, !.until = 0]
<1>1. cs[k] \in Child
  BY SeqFacts
<1>2. c.run = cs[k].run /\ c.cli = cs[k].cli
  BY <1>1 DEF Child
<1>3. Closed(cs, k) = [cs EXCEPT ![k] = c]
  BY DEF Closed
<1> HIDE DEF c
<1> QED
  BY <1>2, <1>3 DEF Steady

LEMMA SteadyTame ==
  ASSUME NEW r, NEW cs, NEW ds, NEW es, Steady(r, ds, cs), Tame(es, ds)
  PROVE  Steady(r, es, cs)
  BY DEF Steady, Tame

(* A new run has the child it needs.                                        *)
LEMMA HeededBegin ==
  ASSUME NEW rs, NEW cs, NEW en, Linked(rs, cs, en),
         NEW re, Heeded(rs, cs, re),
         NEW s, NEW lg, NEW v, NEW c, Begins(v, c, s, Len(rs) + 1, Len(cs) + 1, lg),
         NEW ps, Appended(ps, rs, v),
         NEW ds, Appended(ds, cs, c)
  PROVE  Heeded(ps, ds, re)
<1> DEFINE r == Len(rs) + 1
           k == Len(cs) + 1
<1> HIDE DEF r, k
<1>1. /\ rs \in Seq(Run) /\ cs \in Seq(Child) /\ v \in Run /\ c \in Child
      /\ Begins(v, c, s, r, k, lg)
      /\ k # None
  BY LinkedFacts DEF Begins, r, k, None
<1>2. DOMAIN ps = DOMAIN rs \union {r}
  BY <1>1, SeqAppend DEF r
<1>3. \A q \in DOMAIN rs : ps[q] = rs[q]
  BY <1>1, SeqAppendAt
<1>4. ps[r] = v
  BY <1>1, SeqAppendAt DEF r
<1>5. DOMAIN ds = DOMAIN cs \union {k}
  BY <1>1, SeqAppend DEF k
<1>6. ds[k] = c
  BY <1>1, SeqAppendAt DEF k
<1>7. Tame(ds, cs)
  BY <1>1, AppendTame
<1>8. ASSUME NEW q \in DOMAIN rs
      PROVE  Attended(q, ps, ds, re)
  <2>1. Attended(q, rs, cs, re) /\ Steady(q, ds, cs) /\ Softer(ps[q], rs[q])
    BY <1>3, <1>7 DEF Heeded, Steady, Tame, Softer
  <2> QED
    BY <2>1, AttendedStays
<1>9. Attended(r, ps, ds, re)
  BY <1>1, <1>4, <1>5, <1>6 DEF Attended, Begins, Follows
<1> QED
  BY <1>2, <1>8, <1>9 DEF Heeded

(* Run r has got a new subscription.                                        *)
LEMMA AttendedAnew ==
  ASSUME NEW r, NEW ps, NEW ds, NEW re, NEW k \in DOMAIN ds,
         ps[r].status = "waiting" => ps[r].s = Web,
         ps[r].s = Web => ps[r].status # "running",
         ps[r].sub = k, ds[k].run = r, ~ds[k].cli, ds[k].state = "up"
  PROVE  Attended(r, ps, ds, re)
  BY DEF Attended

(* Run r is over and has no subscription.                                   *)
LEMMA AttendedOver ==
  ASSUME NEW r, NEW ps, NEW ds, NEW re, IsOver(ps[r]), ps[r].sub = None
  PROVE  Attended(r, ps, ds, re)
  BY DEF Attended, IsOver, Follows

LEMMA AwaitsOver ==
  ASSUME NEW u, NEW lg, NEW t, NEW reg, IsOver(u)
  PROVE  Awaits(u, lg, t, reg)
  BY DEF Awaits, IsOver

-----------------------------------------------------------------------------
(* Every handler keeps what the active runs need *)

LEMMA ProgressFacts ==
  ASSUME ProgressInv
  PROVE  /\ Consistent(runs, children, entry, log) /\ Linked(runs, children, entry)
         /\ runs \in Seq(Run) /\ children \in Seq(Child)
         /\ turns \in [Sessions -> Nat] /\ hurried \in BOOLEAN
         /\ log \in Seq([s : Sessions, what : What])
         /\ Heeded(runs, children, restarts)
         /\ ~hurried => Patient(runs, log, turns, registry)
         /\ Web \in Sessions /\ Subs \subseteq Sessions /\ Web \notin Subs
  BY LinkedFacts, SessionsAssumption DEF ProgressInv, IInv, Consistent, Sessions

LEMMA OneRun ==
  ASSUME ProgressInv, NEW r \in DOMAIN runs
  PROVE  /\ runs[r] \in Run /\ RunLinks(r, runs, children)
         /\ runs[r].s \in Sessions /\ runs[r].seq \in Nat
         /\ runs[r].child \in DOMAIN children
         /\ runs[r].sub \in DOMAIN children \union {None}
         /\ Attended(r, runs, children, restarts)
         /\ ~hurried => Awaits(runs[r], log, turns, registry)
<1>1. runs[r] \in Run /\ RunLinks(r, runs, children)
  BY ProgressFacts, LinkedFacts
<1> QED
  BY <1>1, ProgressFacts, BoundsAssumption DEF RunLinks, Run, Heeded, Patient

LEMMA OneChild ==
  ASSUME ProgressInv, NEW k \in DOMAIN children
  PROVE  /\ children[k] \in Child /\ ChildLinks(k, runs, children)
         /\ children[k].run \in DOMAIN runs
  BY ProgressFacts, LinkedFacts DEF ChildLinks

Heeds ==
  /\ Heeded(runs', children', restarts')
  /\ ~hurried' => Patient(runs', log', turns', registry')

(* The handler leaves the gateway alone.                                    *)
Calm ==
  /\ UNCHANGED <<log, turns, registry>>
  /\ ~hurried' => ~hurried

LEMMA PatientChange ==
  ASSUME ProgressInv, ~hurried,
         NEW r \in DOMAIN runs, NEW v, Bides(v, runs[r]),
         NEW ps, Updated(ps, runs, r, v)
  PROVE  Patient(ps, log, turns, registry)
<1>1. Awaits(runs[r], log, turns, registry) /\ runs[r].s \in Sessions
  BY OneRun
<1>2. \A s \in Sessions : turns[s] >= turns[s]
  BY ProgressFacts
<1>3. Awaits(v, log, turns, registry)
  BY <1>1, <1>2, ProgressFacts, AwaitsStays
<1> QED
  BY <1>3, ProgressFacts, PatientUpdate

LEMMA PatientOver ==
  ASSUME ProgressInv, ~hurried,
         NEW r \in DOMAIN runs, NEW v, IsOver(v),
         NEW ps, Updated(ps, runs, r, v)
  PROVE  Patient(ps, log, turns, registry)
<1>1. Awaits(v, log, turns, registry)
  BY AwaitsOver
<1> QED
  BY <1>1, ProgressFacts, PatientUpdate

(* A run changes that needs no child and nothing to come for it.            *)
LEMMA SofterHeeds ==
  ASSUME ProgressInv, Calm, restarts' = restarts,
         NEW r \in DOMAIN runs, NEW v, Updated(runs', runs, r, v),
         Softer(v, runs[r]), Bides(v, runs[r]), Tame(children', children)
  PROVE  Heeds
<1>1. Heeded(runs', children', restarts)
  BY ProgressFacts, HeededSofter
<1>2. ~hurried' => Patient(runs', log, turns, registry)
  BY PatientChange DEF Calm
<1> QED
  BY <1>1, <1>2 DEF Heeds, Calm

(* A run ends, and of the children only one of its own may have closed.     *)
LEMMA OverHeeds ==
  ASSUME ProgressInv, Calm, restarts' = restarts,
         NEW r \in DOMAIN runs, NEW v, Updated(runs', runs, r, v),
         IsOver(v), v.sub = None,
         \A q \in DOMAIN runs : q # r => Steady(q, children', children)
  PROVE  Heeds
<1>1. runs'[r] = v
  BY ProgressFacts DEF Updated
<1>2. Attended(r, runs', children', restarts)
  BY <1>1, AttendedOver
<1>3. Heeded(runs', children', restarts)
  BY <1>2, ProgressFacts, HeededUpdate
<1>4. ~hurried' => Patient(runs', log, turns, registry)
  BY PatientOver DEF Calm
<1> QED
  BY <1>3, <1>4 DEF Heeds, Calm

LEMMA FinishedOver ==
  ASSUME NEW u \in Run, NEW status \in {"completed", "error"}
  PROVE  LET v == Finished(u, status)
         IN  IsOver(v) /\ v.sub = None /\ v.s = u.s /\ v.child = u.child /\ v.seq = u.seq
<1> DEFINE w == [u EXCEPT !.status = status]
           x == Flushed(w)
           v == Finished(u, status)
<1>1. w \in Run /\ w.status = status /\ w.s = u.s /\ w.child = u.child /\ w.seq = u.seq
  BY DEF Run
<1>2. Finished(u, status) = [x EXCEPT !.sub = None, !.cleanups = @ + 1]
  BY DEF Finished
<1> HIDE DEF w
<1>3. /\ x \in Run /\ x.status = w.status /\ x.s = w.s
      /\ x.child = w.child /\ x.seq = w.seq
  BY <1>1, MessageOperators
<1> HIDE DEF x
<1>4. /\ v.status = x.status /\ v.s = x.s /\ v.child = x.child /\ v.seq = x.seq
      /\ v.sub = None
  BY <1>2, <1>3 DEF Run
<1> QED
  BY <1>1, <1>3, <1>4 DEF IsOver

(* Requests *)
LEMMA StopHeeds ==
  ASSUME ProgressInv, NEW s \in Sessions, Stop(s)
  PROVE  Heeds
<1> DEFINE r == entry[s]
           u == runs[r]
           b == IF s = Web THEN None ELSE u.child
           x == Finished(u, "error")
           v == [x EXCEPT !.kills = b]
           cs == Killed(children, u.sub)
<1>1. r \in DOMAIN runs
  BY ProgressFacts, LinkedFacts DEF Stop, EntryLinks
<1>2. /\ Updated(runs', runs, r, v)
      /\ children' = Killed(cs, u.child)
      /\ Calm /\ restarts' = restarts
  BY DEF Stop, Updated, Calm
<1>3. u \in Run /\ u.child \in DOMAIN children /\ u.sub \in DOMAIN children \union {None}
  BY <1>1, OneRun
<1>4. /\ x \in Run /\ IsOver(x) /\ x.sub = None /\ x.s = u.s
      /\ x.child = u.child /\ x.seq = u.seq
  BY <1>3, FinishedOver, RunOperators
<1> HIDE DEF x, b
<1>5. /\ IsOver(v) /\ v.sub = None /\ v.s = u.s /\ v.child = u.child /\ v.seq = u.seq
  BY <1>4 DEF Run, IsOver
<1> HIDE DEF v
<1>6. Softer(v, u) /\ Bides(v, u)
  BY <1>5 DEF Softer, Bides
<1>7. cs \in Seq(Child) /\ DOMAIN cs = DOMAIN children /\ Tame(cs, children)
  BY <1>3, ProgressFacts, KilledFainter, KilledTame DEF Fainter
<1> HIDE DEF cs
<1>8. Tame(children', children)
  BY <1>2, <1>3, <1>7, KilledTame, TameTrans
<1> QED
  BY <1>1, <1>2, <1>6, <1>8, SofterHeeds

(* A turn of a subagent's session is to come or over.                       *)
LEMMA SpawnedTurn ==
  ASSUME ProgressInv, NEW s \in Subs, registry[s] # "none"
  PROVE  \/ turns[s] > 0
         \/ \E i \in DOMAIN log : i > 0 /\ log[i].s = s /\ log[i].what \in Over
<1>1. turns[s] > 0 \/ \E i \in DOMAIN log : log[i].s = s /\ log[i].what \in Over
  BY DEF ProgressInv, Announcing, Working
<1>2. \A i \in DOMAIN log : i > 0
  BY ProgressFacts, SeqFacts
<1> QED
  BY <1>1, <1>2

LEMMA PatientBegin ==
  ASSUME NEW rs \in Seq(Run), NEW lg, NEW t, NEW reg, Patient(rs, lg, t, reg),
         NEW s, NEW v, NEW c, NEW r, NEW k, NEW l, Begins(v, c, s, r, k, l),
         s \in Subs => \/ t[s] > 0
                       \/ \E i \in DOMAIN lg : i > 0 /\ lg[i].s = s /\ lg[i].what \in Over,
         NEW ps, Appended(ps, rs, v)
  PROVE  Patient(ps, lg, t, reg)
<1>1. v \in Run /\ v.s = s /\ v.status = "running" /\ v.seq = 0
  BY DEF Begins
<1>2. DOMAIN ps = DOMAIN rs \union {Len(rs) + 1}
  <2>1. rs \in Seq(Run) /\ v \in Run /\ Appended(ps, rs, v)
    BY <1>1
  <2> QED
    BY ONLY <2>1, SeqAppend, Zenon
<1>3. (\A j \in DOMAIN rs : ps[j] = rs[j]) /\ ps[Len(rs) + 1] = v
  BY <1>1, SeqAppendAt
<1>4. Awaits(v, lg, t, reg)
  BY <1>1 DEF Awaits
<1> QED
  BY <1>2, <1>3, <1>4 DEF Patient

LEMMA StartSubscribeHeeds ==
  ASSUME NEW s \in Subs, NEW persists \in BOOLEAN,
         NEW rs, NEW cs, Consistent(rs, cs, entry, log),
         NoLonger(rs, cs), StartSubscribe(s, rs, cs, persists),
         NEW re, Heeded(rs, cs, re),
         NEW t, \/ t[s] > 0
                \/ \E i \in DOMAIN log : i > 0 /\ log[i].s = s /\ log[i].what \in Over
  PROVE  /\ Heeded(runs', children', re)
         /\ Patient(rs, log, t, registry) => Patient(runs', log, t, registry)
<1>1. PICK v, c : /\ Begins(v, c, s, Len(rs) + 1, Len(cs) + 1, log)
                  /\ Appended(runs', rs, v) /\ Appended(children', cs, c)
  BY StartSubscribeBegins
<1>2. Linked(rs, cs, entry) /\ rs \in Seq(Run)
  BY LinkedFacts DEF Consistent
<1>3. Heeded(runs', children', re)
  BY <1>1, <1>2, HeededBegin
<1>4. ASSUME Patient(rs, log, t, registry) PROVE Patient(runs', log, t, registry)
  BY <1>1, <1>2, <1>4, PatientBegin
<1> QED
  BY <1>3, <1>4

(* More turns are asked of the gateway.                                     *)
LEMMA PatientMore ==
  ASSUME ProgressInv, NEW s \in Sessions, turns' = [turns EXCEPT ![s] = @ + 1]
  PROVE  /\ ~hurried => Patient(runs, log, turns', registry)
         /\ turns'[s] > 0
<1>1. turns' \in [Sessions -> Nat] /\ turns'[s] > 0 /\ \A x \in Sessions : turns'[x] >= turns[x]
  BY ProgressFacts
<1>2. ASSUME ~hurried, NEW q \in DOMAIN runs
      PROVE  Awaits(runs[q], log, turns', registry)
  <2>1. Awaits(runs[q], log, turns, registry) /\ runs[q].s \in Sessions
    BY <1>2, OneRun
  <2>2. Bides(runs[q], runs[q]) /\ turns \in [Sessions -> Nat]
    BY ProgressFacts DEF Bides
  <2> QED
    BY ONLY <1>1, <2>1, <2>2, AwaitsStays
<1> QED
  BY <1>1, <1>2 DEF Patient

(* A new subscription is appended to the children.                          *)
LEMMA NewSubscription ==
  ASSUME ProgressInv, NEW r \in DOMAIN runs
  PROVE  NewChild(r, FALSE, runs[r].seq, 0) \in Child
<1>1. runs[r] \in Run
  BY OneRun
<1>2. r \in 1 .. MaxRuns
  <2>1. Len(runs) \in Nat /\ r \in 1 .. Len(runs) /\ Len(runs) <= MaxRuns
    BY ProgressFacts, LinkedFacts DEF Linked, Shaped
  <2> QED
    BY <2>1, BoundsAssumption
<1>3. runs[r].seq \in 0 .. MaxEvents /\ 0 \in Nat
  BY <1>1 DEF Run
<1> QED
  BY <1>2, <1>3 DEF NewChild, Child

LEMMA AppendedChild ==
  ASSUME NEW cs \in Seq(Child), NEW c \in Child, NEW ds, ds = Append(cs, c)
  PROVE  /\ Tame(ds, cs)
         /\ Len(cs) + 1 \in DOMAIN ds /\ ds[Len(cs) + 1] = c /\ Len(ds) = Len(cs) + 1
<1>1. Appended(ds, cs, c)
  BY DEF Appended
<1>2. Len(ds) = Len(cs) + 1 /\ DOMAIN ds = DOMAIN cs \union {Len(cs) + 1}
  BY <1>1, SeqAppend
<1>3. ds[Len(cs) + 1] = c
  BY <1>1, SeqAppendAt
<1>4. Tame(ds, cs)
  BY <1>1, AppendTame
<1> QED
  BY <1>2, <1>3, <1>4

LEMMA RemovedUpdate ==
  ASSUME NEW rs \in Seq(Run), NEW q \in DOMAIN rs
  PROVE  \E v : /\ Updated(Removed(rs, q), rs, q, v)
                /\ v.s = rs[q].s /\ v.child = rs[q].child /\ v.seq = rs[q].seq
                /\ v.status = rs[q].status /\ v.finalizes = rs[q].finalizes /\ v.sub = None
<1> DEFINE v == [rs[q] EXCEPT !.persists = FALSE, !.sub = None]
<1>1. rs[q] \in Run
  BY SeqFacts
<1>2. /\ v.s = rs[q].s /\ v.child = rs[q].child /\ v.seq = rs[q].seq
      /\ v.status = rs[q].status /\ v.finalizes = rs[q].finalizes /\ v.sub = None
  BY <1>1 DEF Run
<1>3. Updated(Removed(rs, q), rs, q, v)
  BY DEF Updated, Removed
<1> HIDE DEF v
<1> QED
  BY <1>2, <1>3

(* The run that is dropped needs nothing any more.                          *)
LEMMA DroppedHeeds ==
  ASSUME ProgressInv, NEW rs, NEW cs, NEW q, Dropped(rs, cs, q),
         q # None => ~IsActive(runs[q]),
         NEW t, ~hurried => Patient(runs, log, t, registry)
  PROVE  /\ Heeded(rs, cs, restarts)
         /\ ~hurried => Patient(rs, log, t, registry)
<1>1. CASE q = None
  BY <1>1, ProgressFacts DEF Dropped
<1>2. CASE q # None
  <2>1. /\ q \in DOMAIN runs /\ rs = Removed(runs, q) /\ cs = Killed(children, runs[q].sub)
        /\ ~IsActive(runs[q])
    BY <1>2 DEF Dropped
  <2>2. runs \in Seq(Run) /\ runs[q] \in Run /\ runs[q].sub \in DOMAIN children \union {None}
    BY <2>1, OneRun, ProgressFacts
  <2>3. PICK v : /\ Updated(rs, runs, q, v)
                 /\ v.s = runs[q].s /\ v.child = runs[q].child
                 /\ v.status = runs[q].status /\ v.sub = None
    BY <2>1, <2>2, RemovedUpdate
  <2>4. IsOver(v) /\ Softer(v, runs[q])
    BY <2>1, <2>2, <2>3 DEF IsActive, Run, IsOver, Softer
  <2>5. Tame(cs, children)
    BY <2>1, <2>2, ProgressFacts, KilledTame
  <2>6. Heeded(rs, cs, restarts)
    BY <2>1, <2>3, <2>4, <2>5, ProgressFacts, HeededSofter
  <2>7. ASSUME ~hurried PROVE Patient(rs, log, t, registry)
    <3>1. Awaits(v, log, t, registry) /\ Patient(runs, log, t, registry)
      BY <2>4, <2>7, AwaitsOver
    <3> QED
      BY <2>1, <2>3, <3>1, PatientUpdate
  <2> QED
    BY <2>6, <2>7
<1> QED
  BY <1>1, <1>2

LEMMA StartHeeds ==
  ASSUME ProgressInv, Start
  PROVE  Heeds
<1> DEFINE q == entry[Web]
           m == turns'
<1>1. Start /\ Consistent(runs, children, entry, log) /\ turns \in [Sessions -> Nat]
  BY ProgressFacts
<1>2. PICK rs, cs, v, c :
        /\ Dropped(rs, cs, q) /\ Consistent(rs, cs, entry, log)
        /\ Begins(v, c, Web, Len(rs) + 1, Len(cs) + 1, log)
        /\ Appended(runs', rs, v) /\ Appended(children', cs, c)
  BY <1>1, StartBegins
<1>3. /\ q # None => ~IsActive(runs[q])
      /\ turns' = [turns EXCEPT ![Web] = @ + 1]
      /\ UNCHANGED <<log, registry, restarts, hurried>>
  BY DEF Start
<1>4. ~hurried => Patient(runs, log, m, registry)
  BY <1>3, PatientMore, ProgressFacts
<1> HIDE DEF q, m
<1>5. /\ Heeded(rs, cs, restarts)
      /\ ~hurried => Patient(rs, log, m, registry)
  BY <1>2, <1>3, <1>4, DroppedHeeds
<1>6. Linked(rs, cs, entry) /\ rs \in Seq(Run)
  BY <1>2, LinkedFacts DEF Consistent
<1>7. Heeded(runs', children', restarts)
  BY <1>2, <1>5, <1>6, HeededBegin
<1>8. ASSUME ~hurried PROVE Patient(runs', log, m, registry)
  <2>1. Patient(rs, log, m, registry) /\ Web \notin Subs
    BY <1>5, <1>8, SessionsAssumption
  <2> QED
    BY ONLY <1>2, <1>6, <2>1, PatientBegin
<1> QED
  BY <1>3, <1>7, <1>8 DEF Heeds, m

LEMMA FollowUpHeeds ==
  ASSUME ProgressInv, NEW s \in Subs, FollowUp(s)
  PROVE  Heeds
<1> DEFINE m == turns'
<1>1. /\ turns' = [turns EXCEPT ![s] = @ + 1]
      /\ UNCHANGED <<log, registry, restarts, hurried>>
  BY DEF FollowUp
<1>2. s \in Sessions /\ s # Web
  BY ProgressFacts
<1>3. m[s] > 0 /\ (~hurried => Patient(runs, log, m, registry))
  BY <1>1, <1>2, PatientMore
<1>4. CASE entry[s] = None
  <2>1. StartSubscribe(s, runs, children, TRUE) /\ NoLonger(runs, children)
    BY <1>4 DEF FollowUp, NoLonger
  <2> HIDE DEF m
  <2>2. /\ Heeded(runs', children', restarts)
        /\ Patient(runs, log, m, registry) => Patient(runs', log, m, registry)
    BY <1>3, <2>1, ProgressFacts, StartSubscribeHeeds
  <2> QED
    BY <1>1, <1>3, <2>2 DEF Heeds, m
<1>5. CASE entry[s] # None
  <2> DEFINE r == entry[s]
             u == runs[r]
             k == Len(children) + 1
             v == [u EXCEPT !.status = "running", !.ended = FALSE, !.finalizes = FALSE,
                            !.persists = TRUE, !.parts = FALSE, !.silent = None,
                            !.streaming = FALSE, !.silenced = FALSE, !.revived = TRUE,
                            !.child = k, !.sub = k]
             c == NewChild(r, FALSE, u.seq, 0)
  <2>1. /\ r \in DOMAIN runs /\ u.s = s /\ k <= MaxChildren
    BY <1>2, <1>5, ProgressFacts, LinkedFacts DEF FollowUp, EntryLinks, HasRoomFor
  <2>2. u \in Run
    BY <2>1, OneRun
  <2>3. children' = Append(children, c)
    BY <1>5 DEF FollowUp
  <2>4. /\ Tame(children', children)
        /\ k \in DOMAIN children' /\ children'[k] = c /\ Len(children') = k
    <3>1. c \in Child
      BY <2>1, <2>2, NewSubscription
    <3>2. children \in Seq(Child)
      BY ProgressFacts
    <3> HIDE DEF c
    <3> QED
      BY ONLY <2>3, <3>1, <3>2, AppendedChild
  <2>5. runs' = [runs EXCEPT ![r] = v]
    BY <1>5, <2>4 DEF FollowUp
  <2>6. v.s = s /\ v.status = "running" /\ v.sub = k
    BY <2>1, <2>2 DEF Run
  <2>7. c.run = r /\ ~c.cli /\ c.state = "up"
    BY DEF NewChild
  <2>8. Updated(runs', runs, r, v) /\ runs'[r] = v
    BY <2>1, <2>5 DEF Updated
  <2> HIDE DEF v, c, k, r, m
  <2>9. Attended(r, runs', children', restarts)
    BY <1>2, <2>4, <2>6, <2>7, <2>8, AttendedAnew
  <2>10. \A q \in DOMAIN runs : q # r => Steady(q, children', children)
    BY <2>4 DEF Steady, Tame
  <2>11. Heeded(runs', children', restarts)
    BY <2>1, <2>8, <2>9, <2>10, ProgressFacts, HeededUpdate
  <2>12. ASSUME ~hurried PROVE Patient(runs', log, m, registry)
    <3>1. Awaits(v, log, m, registry) /\ Patient(runs, log, m, registry)
      BY <1>3, <2>6, <2>12 DEF Awaits
    <3> QED
      BY <2>1, <2>8, <3>1, PatientUpdate
  <2> QED
    BY <1>1, <2>11, <2>12 DEF Heeds, m
<1> QED
  BY <1>4, <1>5

LEMMA WatchHeeds ==
  ASSUME ProgressInv, NEW s \in Subs, Watch(s)
  PROVE  Heeds
<1>1. /\ StartSubscribe(s, runs, children, FALSE) /\ NoLonger(runs, children)
      /\ registry[s] # "none"
      /\ UNCHANGED <<log, turns, registry, restarts, hurried>>
  BY DEF Watch, NoLonger
<1>2. \/ turns[s] > 0
      \/ \E i \in DOMAIN log : i > 0 /\ log[i].s = s /\ log[i].what \in Over
  BY <1>1, SpawnedTurn
<1>3. /\ Heeded(runs', children', restarts)
      /\ Patient(runs, log, turns, registry) => Patient(runs', log, turns, registry)
  BY <1>1, <1>2, ProgressFacts, StartSubscribeHeeds
<1> QED
  BY <1>1, <1>3, ProgressFacts DEF Heeds

(* Lines of the children *)
LEMMA SpawningHeeds ==
  ASSUME ProgressInv, NEW rs, NEW cs, Consistent(rs, cs, entry, log), NoLonger(rs, cs),
         Heeded(rs, cs, restarts),
         NEW i \in DOMAIN log, Spawning(i, rs, cs)
  PROVE  /\ Heeded(runs', children', restarts)
         /\ Patient(rs, log, turns, registry) => Patient(runs', log, turns, registry)
<1> DEFINE s == log[i].what
<1>1. CASE s \in Subs /\ entry[s] = None
  <2>1. StartSubscribe(s, rs, cs, FALSE)
    BY <1>1 DEF Spawning
  <2>2. registry[s] # "none"
    BY <1>1 DEF ProgressInv, Announcing, InTurn
  <2> HIDE DEF s
  <2>3. \/ turns[s] > 0
        \/ \E j \in DOMAIN log : j > 0 /\ log[j].s = s /\ log[j].what \in Over
    BY <1>1, <2>2, SpawnedTurn
  <2> QED
    BY <1>1, <2>1, <2>3, StartSubscribeHeeds
<1>2. CASE ~(s \in Subs /\ entry[s] = None)
  <2>1. runs' = rs /\ children' = cs
    BY <1>2 DEF Spawning
  <2> QED
    BY <2>1
<1> QED
  BY <1>1, <1>2

(* The run that reads has what it needs, but for what is to come.           *)
LEMMA LineHeeded ==
  ASSUME ProgressInv,
         NEW k \in DOMAIN children, children[k].state # "closed",
         NEW i, IsNext(k, i), IsNew(runs[children[k].run], i),
         NEW v, Looks(v, runs[children[k].run], k, i),
         NEW ps, Updated(ps, runs, children[k].run, v)
  PROVE  /\ Consistent(ps, Read(k, i), entry, log)
         /\ NoLonger(ps, Read(k, i)) /\ DOMAIN ps = DOMAIN runs
         /\ ps[children[k].run] = v
         /\ Reading(v, runs[children[k].run], i)
         /\ Heeded(ps, Read(k, i), restarts)
         /\ children[k].run \in DOMAIN runs /\ i \in DOMAIN log
         /\ Awaits(v, log, turns, registry) =>
              (~hurried => Patient(ps, log, turns, registry))
<1> DEFINE r == children[k].run
           ds == Read(k, i)
<1>1. Consistent(runs, children, entry, log) /\ children \in Seq(Child)
  BY ProgressFacts
<1>2. /\ Consistent(ps, ds, entry, log)
      /\ NoLonger(ps, ds) /\ DOMAIN ps = DOMAIN runs
      /\ ps[r] = v /\ Reading(v, runs[r], i)
  BY <1>1, LineReads
<1>3. r \in DOMAIN runs /\ i \in DOMAIN log
  BY <1>1, LineFacts DEF IsNext, Unread
<1>4. Softer(v, runs[r])
  BY <1>2 DEF Reading, Softer
<1>5. Tame(ds, children)
  BY <1>1, ReadTame
<1> HIDE DEF ds
<1>6. Heeded(ps, ds, restarts)
  BY <1>3, <1>4, <1>5, ProgressFacts, HeededSofter
<1>7. Awaits(v, log, turns, registry) => (~hurried => Patient(ps, log, turns, registry))
  BY <1>3, ProgressFacts, PatientUpdate
<1> QED
  BY <1>2, <1>3, <1>6, <1>7 DEF ds

LEMMA CliLineHeeds ==
  ASSUME ProgressInv, NEW k \in DOMAIN children, NEW i \in Unread(k), CliLine(k, i)
  PROVE  Heeds
<1> DEFINE r == children[k].run
           u == runs[r]
           v == Processed(u, k, i)
           ps == [runs EXCEPT ![r] = v]
           ds == Read(k, i)
<1>1. /\ children[k].cli /\ children[k].state # "closed" /\ IsNext(k, i)
      /\ Spawning(i, ps, ds)
      /\ UNCHANGED <<log, turns, registry, restarts, hurried>>
  BY DEF CliLine
<1>2. /\ r \in DOMAIN runs /\ u \in Run /\ u.s = Web /\ u.child = k
  BY <1>1, ProgressFacts, CliNoSub
<1>3. IsNew(u, i)
  <2>1. children[k] \in Child /\ u.seq \in Nat
    BY <1>2, OneChild, OneRun
  <2>2. u.seq <= children[k].pos
    BY <1>1, ProgressFacts DEF Consistent, Reads
  <2>3. i > children[k].pos /\ i \in Nat
    BY <1>1, ProgressFacts, SeqFacts DEF Unread
  <2> QED
    BY <2>1, <2>2, <2>3, BoundsAssumption DEF IsNew, Child
<1>4. Updated(ps, runs, r, v) /\ Looks(v, u, k, i)
  BY DEF Updated, Looks
<1> HIDE DEF ps, v
<1>5. /\ Consistent(ps, ds, entry, log)
      /\ NoLonger(ps, ds) /\ Reading(v, u, i)
      /\ Heeded(ps, ds, restarts) /\ i \in DOMAIN log
      /\ Awaits(v, log, turns, registry) => (~hurried => Patient(ps, log, turns, registry))
  BY <1>1, <1>3, <1>4, LineHeeded
<1>6. u.status # "waiting"
  <2>1. RunLinks(r, runs, children)
    BY <1>2, OneRun
  <2> QED
    BY <1>1, <1>2, <2>1 DEF RunLinks
<1>7. Awaits(v, log, turns, registry)
  BY <1>2, <1>5, <1>6, SessionsAssumption DEF Awaits, Reading
<1> HIDE DEF ds
<1>8. /\ Heeded(runs', children', restarts)
      /\ ~hurried => Patient(runs', log, turns, registry)
  BY <1>1, <1>5, <1>7, SpawningHeeds
<1> QED
  BY <1>1, <1>8 DEF Heeds

(* The events of the log                                                    *)
LEMMA EventFacts ==
  ASSUME ProgressInv, NEW i \in DOMAIN log
  PROVE  /\ i \in Nat /\ log[i].s \in Sessions /\ log[i].what \in What
         /\ log[i].s = Web /\ log[i].what \notin Over => Ahead(i, log, turns, registry)
<1>1. i \in Nat /\ log[i] \in [s : Sessions, what : What]
  BY ProgressFacts, SeqFacts
<1>2. InTurn(i)
  BY DEF ProgressInv, Announcing
<1> QED
  BY <1>1, <1>2 DEF InTurn, Ahead

LEMMA NotLast ==
  ASSUME ProgressInv, NEW i \in Nat, ~IsLast(i)
  PROVE  Ahead(i, log, turns, registry)
  BY DEF IsLast

LEMMA WebLineHeeds ==
  ASSUME ProgressInv, NEW k \in DOMAIN children, NEW i \in Unread(k), WebLine(k, i)
  PROVE  Heeds
<1> DEFINE r == children[k].run
           u == runs[r]
           v == Processed(u, k, i)
           ps == [runs EXCEPT ![r] = v]
           ds == Read(k, i)
<1>1. /\ children[k].state # "closed" /\ IsNext(k, i) /\ u.s = Web
      /\ UNCHANGED <<log, turns, registry, restarts>>
      /\ hurried' = \/ hurried
                    \/ /\ IsNew(u, i) /\ u.status = "waiting" /\ IsLast(i)
                       /\ \/ log[i].what = "fail"
                          \/ log[i].what = "end" /\ HasRunningSubagents
  BY DEF WebLine
<1>2. r \in DOMAIN runs /\ u \in Run /\ u.sub \in DOMAIN children \union {None}
  BY OneChild, OneRun
<1>3. Updated(ps, runs, r, v) /\ Looks(v, u, k, i)
  BY DEF Updated, Looks
<1>4. Calm
  BY <1>1 DEF Calm
<1>5. CASE ~IsNew(u, i)
  <2>1. runs' = runs /\ children' = ds
    BY <1>5 DEF WebLine
  <2>2. Tame(children', children)
    BY <2>1, ProgressFacts, ReadTame
  <2>3. Updated(runs', runs, r, u) /\ Softer(u, u) /\ Bides(u, u)
    BY <1>2, <2>1, ProgressFacts DEF Updated, Softer, Bides
  <2> QED
    BY <1>1, <1>2, <1>4, <2>2, <2>3, SofterHeeds
<1>6. CASE IsNew(u, i)
  <2>1. /\ Consistent(ps, ds, entry, log) /\ NoLonger(ps, ds)
        /\ DOMAIN ps = DOMAIN runs /\ ps[r] = v /\ Reading(v, u, i)
        /\ Heeded(ps, ds, restarts) /\ i \in DOMAIN log
        /\ Awaits(v, log, turns, registry) => (~hurried => Patient(ps, log, turns, registry))
    <3> HIDE DEF ps, v
    <3> QED
      BY <1>1, <1>3, <1>6, LineHeeded
  <2>2. /\ v \in Run /\ v.sub = u.sub /\ v.s = Web /\ v.s \notin Subs /\ v.child = u.child
        /\ v.seq = i /\ v.status = u.status /\ i \in Nat /\ log[i].s = Web
    BY <1>1, <2>1, EventFacts, SessionsAssumption DEF Reading, Unread
  <2>3. r \in DOMAIN ps /\ Linked(ps, ds, entry) /\ ds \in Seq(Child) /\ DOMAIN ds = DOMAIN children
    BY <1>2, <2>1, LinkedFacts DEF Consistent, Read
  <2> HIDE DEF v, ps, ds
  <2>4. CASE log[i].what # "end"
    <3>1. Spawning(i, ps, ds)
      BY <1>6, <2>4 DEF WebLine, v, ps, ds
    <3>2. ASSUME ~hurried'
          PROVE  Awaits(v, log, turns, registry)
      <4>1. CASE log[i].what = "fail"
        <5>1. u.status = "waiting" => Ahead(i, log, turns, registry)
          BY <1>1, <1>6, <2>2, <3>2, <4>1, NotLast
        <5> QED
          BY <2>2, <5>1 DEF Awaits
      <4>2. CASE log[i].what # "fail"
        <5>1. Ahead(i, log, turns, registry)
          BY <2>1, <2>2, <2>4, <4>2, EventFacts DEF Over
        <5> QED
          BY <2>2, <5>1 DEF Awaits
      <4> QED
        BY <4>1, <4>2
    <3>3. /\ Heeded(runs', children', restarts)
          /\ Patient(ps, log, turns, registry) => Patient(runs', log, turns, registry)
      BY <2>1, <3>1, SpawningHeeds
    <3> QED
      BY <1>1, <1>4, <2>1, <3>2, <3>3 DEF Heeds, Calm
  <2>5. CASE log[i].what = "end" /\ HasRunningSubagents
    <3> DEFINE x == Emitted(v)
               w == Flushed(x)
    <3>1. runs' = [runs EXCEPT ![r] = w] /\ children' = ds
      BY <1>6, <2>5 DEF WebLine, v, ds
    <3>2. Updated(runs', ps, r, w)
      BY <3>1 DEF Updated, ps
    <3>3. x \in Run /\ x.sub = v.sub /\ x.s = v.s /\ x.child = v.child /\ x.seq = v.seq
          /\ x.status = v.status
      BY <2>2, MessageOperators
    <3> HIDE DEF x
    <3>4. w.sub = x.sub /\ w.s = x.s /\ w.child = x.child /\ w.seq = x.seq
          /\ w.status = x.status
      BY <3>3 DEF Flushed, Run
    <3> HIDE DEF w
    <3>5. Softer(w, ps[r]) /\ Tame(ds, ds)
      BY <2>1, <3>3, <3>4 DEF Softer, Tame
    <3>6. Heeded(runs', children', restarts)
      BY <2>1, <2>3, <3>1, <3>2, <3>5, HeededSofter
    <3>7. ASSUME ~hurried'
          PROVE  Patient(runs', log, turns, registry)
      <4>1. ~hurried /\ (u.status = "waiting" => ~IsLast(i))
        BY <1>1, <1>6, <2>5, <3>7
      <4>2. u.status = "waiting" => Ahead(i, log, turns, registry)
        BY <2>2, <4>1, NotLast
      <4>3. Awaits(w, log, turns, registry) /\ Awaits(v, log, turns, registry)
        BY <2>2, <3>3, <3>4, <4>2 DEF Awaits
      <4>4. Patient(ps, log, turns, registry)
        BY <2>1, <4>1, <4>3
      <4> QED
        BY <2>3, <3>2, <4>3, <4>4, PatientUpdate
    <3> QED
      BY <1>1, <3>6, <3>7 DEF Heeds
  <2>6. CASE log[i].what = "end" /\ ~HasRunningSubagents /\ u.status # "waiting"
    <3>1. runs' = ps /\ children' = ds
      BY <1>6, <2>6 DEF WebLine, v, ps, ds
    <3>2. Awaits(v, log, turns, registry)
      BY <2>2, <2>6 DEF Awaits
    <3> QED
      BY <1>1, <1>4, <2>1, <3>1, <3>2 DEF Heeds, Calm
  <2>7. CASE log[i].what = "end" /\ ~HasRunningSubagents /\ u.status = "waiting"
    <3> DEFINE w == Finished(v, "completed")
    <3>1. runs' = [runs EXCEPT ![r] = w] /\ children' = Killed(ds, u.sub)
      BY <1>6, <2>7 DEF WebLine, v, ds
    <3>2. IsOver(w) /\ w.sub = None
      BY <2>2, FinishedOver
    <3>3. Updated(runs', runs, r, w)
      BY <3>1 DEF Updated
    <3>4. Tame(children', children)
      <4>1. Tame(ds, children)
        BY ProgressFacts, ReadTame DEF ds
      <4>2. Tame(children', ds)
        BY <1>2, <2>3, <3>1, KilledTame
      <4> QED
        BY <4>1, <4>2, TameTrans
    <3>5. \A q \in DOMAIN runs : q # r => Steady(q, children', children)
      BY <3>4 DEF Tame, Steady
    <3> HIDE DEF w
    <3> QED
      BY <1>1, <1>2, <1>4, <3>2, <3>3, <3>5, OverHeeds
  <2> QED
    BY <2>4, <2>5, <2>6, <2>7
<1> QED
  BY <1>5, <1>6

LEMMA ProcessedFinalizes ==
  ASSUME NEW u \in Run, NEW k, NEW i
  PROVE  Processed(u, k, i).finalizes = u.finalizes
<1>1. /\ Emitted(u) \in Run /\ Emitted(u).finalizes = u.finalizes
      /\ TextClosed(u, k) \in Run /\ TextClosed(u, k).finalizes = u.finalizes
  BY MessageOperators
<1>2. CASE HasStatus(u, k, i)
  BY <1>1, <1>2 DEF Processed, Run
<1>3. CASE ~HasStatus(u, k, i) /\ log[i].what = "end"
  BY <1>1, <1>3 DEF Processed, Run
<1>4. CASE ~HasStatus(u, k, i) /\ log[i].what # "end"
  BY <1>1, <1>4 DEF Processed, Run
<1> QED
  BY <1>2, <1>3, <1>4

LEMMA SubagentLineHeeds ==
  ASSUME ProgressInv, NEW k \in DOMAIN children, NEW i \in Unread(k),
         NEW reported \in BOOLEAN, SubagentLine(k, i, reported)
  PROVE  Heeds
<1> DEFINE r == children[k].run
           u == runs[r]
           v == Processed(u, k, i)
           ps == [runs EXCEPT ![r] = v]
           ds == Read(k, i)
           fails == log[i].what = "fail" /\ ~reported /\ u.status = "running"
<1>1. /\ ~children[k].cli /\ children[k].state # "closed" /\ IsNext(k, i) /\ u.s \in Subs
      /\ restarts' = restarts
      /\ hurried' = \/ hurried
                    \/ /\ IsNew(u, i) /\ u.status = "running"
                       /\ log[i].what = "fail" /\ reported
  BY DEF SubagentLine
<1>8. Calm
  BY DEF SubagentLine, Calm
<1>2. r \in DOMAIN runs /\ u \in Run /\ u.sub \in DOMAIN children \union {None}
  BY OneChild, OneRun
<1>3. Updated(ps, runs, r, v) /\ Looks(v, u, k, i)
  BY DEF Updated, Looks
<1>4. Tame(ds, children)
  BY ProgressFacts, ReadTame
<1>5. u.status # "waiting"
  <2>1. Attended(r, runs, children, restarts)
    BY <1>2, OneRun
  <2> QED
    BY <1>1, <2>1, SessionsAssumption DEF Attended
<1>6. CASE ~IsNew(u, i)
  <2>1. runs' = [runs EXCEPT ![r] = u] /\ children' = ds
    BY <1>6 DEF SubagentLine
  <2>2. Updated(runs', runs, r, u) /\ Softer(u, u) /\ Bides(u, u)
    BY <2>1 DEF Updated, Softer, Bides
  <2> QED
    BY <1>1, <1>2, <1>4, <1>8, <2>1, <2>2, SofterHeeds
<1>7. CASE IsNew(u, i)
  <2>1. /\ DOMAIN ps = DOMAIN runs /\ ps[r] = v /\ Reading(v, u, i)
        /\ Heeded(ps, ds, restarts) /\ i \in DOMAIN log
        /\ Consistent(ps, ds, entry, log)
        /\ Awaits(v, log, turns, registry) => (~hurried => Patient(ps, log, turns, registry))
    <3> HIDE DEF ps, v
    <3> QED
      BY <1>1, <1>3, <1>7, LineHeeded
  <2>2. /\ v \in Run /\ v.sub = u.sub /\ v.s = u.s /\ v.child = u.child
        /\ v.seq = i /\ v.status = u.status
    BY <2>1 DEF Reading
  <2>3. v.finalizes = u.finalizes
    BY <1>2, ProcessedFinalizes
  <2>4. r \in DOMAIN ps /\ Linked(ps, ds, entry) /\ ds \in Seq(Child) /\ DOMAIN ds = DOMAIN children
    BY <1>2, <2>1, LinkedFacts DEF Consistent, Read
  <2> HIDE DEF v, ds, fails
  <2>5. CASE log[i].what = "end"
    <3> DEFINE w == [v EXCEPT !.ended = TRUE, !.finalizes = TRUE]
    <3>1. runs' = [runs EXCEPT ![r] = w] /\ children' = ds
      BY <1>7, <2>5 DEF SubagentLine, v, ds
    <3>2. Updated(runs', runs, r, w)
      BY <3>1 DEF Updated
    <3>3. w.sub = v.sub /\ w.s = v.s /\ w.child = v.child /\ w.status = v.status /\ w.finalizes
      BY <2>2 DEF Run
    <3> HIDE DEF w
    <3>4. Softer(w, u)
      BY <2>2, <3>3 DEF Softer
    <3>5. Heeded(runs', children', restarts)
      BY <1>2, <1>4, <3>1, <3>2, <3>4, ProgressFacts, HeededSofter
    <3>6. Awaits(w, log, turns, registry)
      BY <1>5, <2>2, <3>3 DEF Awaits
    <3>7. ~hurried => Patient(runs', log, turns, registry)
      BY <1>2, <3>2, <3>6, ProgressFacts, PatientUpdate
    <3> QED
      BY <1>1, <1>8, <3>5, <3>7 DEF Heeds, Calm
  <2>6. CASE log[i].what # "end" /\ fails
    <3> DEFINE x == Finished(v, "error")
               w == [x EXCEPT !.finalizes = FALSE]
    <3>1. runs' = [runs EXCEPT ![r] = w] /\ children' = Killed(ds, u.sub)
      BY <1>7, <2>6 DEF SubagentLine, v, ds, fails
    <3>2. Updated(runs', runs, r, w)
      BY <3>1 DEF Updated
    <3>3. x \in Run /\ IsOver(x) /\ x.sub = None
      BY <2>2, FinishedOver, RunOperators
    <3> HIDE DEF x
    <3>4. IsOver(w) /\ w.sub = None
      BY <3>3 DEF Run, IsOver
    <3>5. Tame(children', children)
      BY <1>2, <1>4, <2>4, <3>1, KilledTame, TameTrans
    <3>6. \A q \in DOMAIN runs : q # r => Steady(q, children', children)
      BY <3>5 DEF Tame, Steady
    <3> HIDE DEF w
    <3> QED
      BY <1>1, <1>2, <1>8, <3>2, <3>4, <3>6, OverHeeds
  <2>7. CASE log[i].what # "end" /\ ~fails
    <3>1. runs' = ps /\ children' = ds
      BY <1>7, <2>7 DEF SubagentLine, v, ds, fails
    <3>2. \A j \in DOMAIN log : j > u.seq /\ log[j].s = u.s => i <= j
      <4>1. Reads(k, runs, children, log) /\ children[k] \in Child /\ u.seq \in Nat
        BY <1>2, ProgressFacts, OneChild, OneRun DEF Consistent
      <4>2. children[k].pos <= u.seq /\ children[k].pos \in Nat
        BY <1>1, <4>1, BoundsAssumption DEF Reads, Child
      <4>3. \A j \in DOMAIN log : j \in Nat
        BY ProgressFacts, SeqFacts
      <4>4. \A j \in Unread(k) : i <= j
        BY <1>1 DEF IsNext
      <4> QED
        BY <4>1, <4>2, <4>3, <4>4 DEF Unread
    <3>3. \A j \in DOMAIN log : j \in Nat
      BY ProgressFacts, SeqFacts
    <3>4. ASSUME ~hurried'
          PROVE  Awaits(v, log, turns, registry)
      <4>1. Awaits(u, log, turns, registry) /\ u.seq \in Nat
        BY <1>2, <1>8, <3>4, OneRun DEF Calm
      <4>2. u.status = "running" => log[i].what \notin Over
        BY <1>1, <1>7, <2>7, <3>4 DEF Over, fails
      <4> QED
        BY <1>5, <2>1, <2>2, <2>3, <3>2, <3>3, <4>1, <4>2 DEF Awaits
    <3> QED
      BY <1>1, <1>8, <2>1, <3>1, <3>4 DEF Heeds, Calm
  <2> QED
    BY <2>5, <2>6, <2>7
<1> QED
  BY <1>6, <1>7

(* Ends of the children *)
LEMMA UnlinkedFacts ==
  ASSUME NEW o \in Run, NEW k
  PROVE  LET u == Unlinked(o, k)
         IN  /\ u \in Run /\ u.s = o.s /\ u.status = o.status /\ u.child = o.child
             /\ u.seq = o.seq /\ u.finalizes = o.finalizes
             /\ u.sub = IF o.sub = k THEN None ELSE o.sub
<1>1. Unlinked(o, k) \in Run
  BY RunOperators
<1> QED
  BY <1>1 DEF Unlinked, Run

LEMMA CliFailsHeeds ==
  ASSUME ProgressInv, NEW k \in DOMAIN children, CliFails(k)
  PROVE  Heeds
<1> DEFINE r == children[k].run
           x == Emitted(runs[r])
           v == Finished(x, "error")
<1>1. /\ runs' = [runs EXCEPT ![r] = v] /\ children' = Closed(children, k)
      /\ restarts' = restarts /\ Calm
  BY DEF CliFails, Calm
<1>2. r \in DOMAIN runs /\ x \in Run
  BY OneChild, OneRun, RunOperators
<1>3. Updated(runs', runs, r, v)
  BY <1>1 DEF Updated
<1> HIDE DEF x
<1>4. IsOver(v) /\ v.sub = None
  BY <1>2, FinishedOver
<1>5. \A q \in DOMAIN runs : q # r => Steady(q, children', children)
  BY <1>1, ProgressFacts, ClosedSteady
<1> HIDE DEF v, r
<1> QED
  BY <1>1, <1>2, <1>3, <1>4, <1>5, OverHeeds

LEMMA CliClosesHeeds ==
  ASSUME ProgressInv, NEW k \in DOMAIN children, NEW clean \in BOOLEAN, NEW puts \in BOOLEAN,
         CliCloses(k, clean, puts)
  PROVE  Heeds
<1> DEFINE r  == children[k].run
           o  == runs[r]
           u  == Unlinked(o, k)
           v  == IF puts THEN Emitted(u) ELSE TextClosed(u, k)
           e  == Emitted(v)
           ds == Closed(children, k)
<1>1. /\ children[k].cli /\ children[k].state # "closed"
      /\ UNCHANGED <<log, turns, registry, restarts>>
  BY DEF CliCloses
<1>2. /\ r \in DOMAIN runs /\ o \in Run /\ RunLinks(r, runs, children) /\ o.seq \in Nat
      /\ o.s = Web /\ o.child = k /\ o.sub = None
  BY <1>1, ProgressFacts, CliNoSub, OneRun
<1>3. o.status # "waiting"
  BY <1>1, <1>2 DEF RunLinks
<1>4. /\ u \in Run /\ u.s = Web /\ u.status = o.status /\ u.seq = o.seq /\ u.sub = None
  BY <1>2, UnlinkedFacts
<1> HIDE DEF u
<1>5. v \in Run /\ v.s = Web /\ v.seq = o.seq
  BY <1>4, MessageOperators
<1>11. e \in Run /\ e.s = Web /\ e.seq = o.seq
  BY <1>5, MessageOperators
<1>6. \A q \in DOMAIN runs : q # r => Steady(q, ds, children)
  BY ProgressFacts, ClosedSteady
<1>7. ds \in Seq(Child) /\ Len(ds) = Len(children)
  BY ProgressFacts, ClosedFainter DEF Fainter
<1> HIDE DEF v, ds, e
<1>8. CASE u.status # "running"
  <2>1. runs' = [runs EXCEPT ![r] = u] /\ children' = ds /\ Calm
    BY <1>1, <1>8 DEF CliCloses, u, ds, Calm
  <2>2. IsOver(u)
    BY <1>3, <1>4, <1>8 DEF IsOver, Run
  <2>3. Updated(runs', runs, r, u)
    BY <2>1 DEF Updated
  <2> QED
    BY <1>1, <1>2, <1>4, <1>6, <2>1, <2>2, <2>3, OverHeeds
<1>9. CASE u.status = "running" /\ clean /\ HasRunningSubagents
  <2> DEFINE j == Len(ds) + 1
             c == NewChild(r, FALSE, u.seq, 0)
             x == [e EXCEPT !.status = "waiting"]
             y == Flushed(x)
             w == [y EXCEPT !.sub = j]
  <2>1. /\ children' = Append(ds, c) /\ hurried' = (hurried \/ IsLast(u.seq))
    BY <1>9 DEF CliCloses, u, ds
  <2>2. c \in Child
    BY <1>2, <1>4, NewSubscription
  <2>3. Tame(children', ds) /\ j \in DOMAIN children' /\ children'[j] = c /\ Len(children') = j
    <3> HIDE DEF c
    <3> QED
      BY ONLY <1>7, <2>1, <2>2, AppendedChild
  <2>4. runs' = [runs EXCEPT ![r] = w]
    BY <1>9, <2>3 DEF CliCloses, u, v, e
  <2>5. x \in Run /\ x.s = Web /\ x.status = "waiting" /\ x.seq = o.seq
    BY <1>11 DEF Run
  <2> HIDE DEF x
  <2>6. y \in Run /\ y.s = Web /\ y.status = "waiting" /\ y.seq = o.seq
    BY <2>5, MessageOperators
  <2> HIDE DEF y, j
  <2>7. w.s = Web /\ w.status = "waiting" /\ w.seq = o.seq /\ w.sub = j
    BY <2>6 DEF Run
  <2>8. c.run = r /\ ~c.cli /\ c.state = "up"
    BY DEF NewChild
  <2>9. Updated(runs', runs, r, w) /\ runs'[r] = w
    BY <1>2, <2>4 DEF Updated
  <2> HIDE DEF w, c
  <2>10. Attended(r, runs', children', restarts)
    BY <2>3, <2>7, <2>8, <2>9, AttendedAnew
  <2>11. \A q \in DOMAIN runs : q # r => Steady(q, children', children)
    BY <1>6, <2>3, SteadyTame
  <2>12. Heeded(runs', children', restarts)
    BY <1>2, <2>9, <2>10, <2>11, ProgressFacts, HeededUpdate
  <2>13. ASSUME ~hurried'
         PROVE  Patient(runs', log, turns, registry)
    <3>1. ~hurried /\ ~IsLast(o.seq)
      BY <1>4, <2>1, <2>13
    <3>2. Ahead(o.seq, log, turns, registry)
      BY <1>2, <3>1, NotLast
    <3>3. Awaits(w, log, turns, registry)
      BY <2>7, <3>2, SessionsAssumption DEF Awaits
    <3> QED
      BY <1>2, <2>9, <3>1, <3>3, ProgressFacts, PatientUpdate
  <2> QED
    BY <1>1, <2>12, <2>13 DEF Heeds
<1>10. CASE u.status = "running" /\ ~(clean /\ HasRunningSubagents)
  <2> DEFINE status == IF clean THEN "completed" ELSE "error"
             w == Finished(v, status)
  <2>1. runs' = [runs EXCEPT ![r] = w] /\ children' = ds /\ Calm
    BY <1>1, <1>10 DEF CliCloses, u, v, ds, Calm
  <2>2. status \in {"completed", "error"}
    OBVIOUS
  <2> HIDE DEF status
  <2>3. IsOver(w) /\ w.sub = None
    BY <1>5, <2>2, FinishedOver
  <2>4. Updated(runs', runs, r, w)
    BY <2>1 DEF Updated
  <2> HIDE DEF w
  <2> QED
    BY <1>1, <1>2, <1>6, <2>1, <2>3, <2>4, OverHeeds
<1> QED
  BY <1>8, <1>9, <1>10

LEMMA SubscriptionClosesHeeds ==
  ASSUME ProgressInv, NEW k \in DOMAIN children, SubscriptionCloses(k)
  PROVE  Heeds
<1> DEFINE r  == children[k].run
           o  == runs[r]
           u  == Unlinked(o, k)
           ds == Closed(children, k)
<1>1. /\ ~children[k].cli /\ children[k].state # "closed" /\ Calm
  BY DEF SubscriptionCloses, Calm
<1>2. /\ r \in DOMAIN runs /\ o \in Run /\ RunLinks(r, runs, children)
      /\ o.sub \in DOMAIN children \union {None} /\ o.child \in DOMAIN children
      /\ Attended(r, runs, children, restarts)
      /\ ChildLinks(k, runs, children)
  BY OneChild, OneRun
<1>3. /\ u \in Run /\ u.s = o.s /\ u.status = o.status /\ u.child = o.child
      /\ u.seq = o.seq /\ u.finalizes = o.finalizes
      /\ u.sub = IF o.sub = k THEN None ELSE o.sub
  BY <1>2, UnlinkedFacts
<1>4. \A q \in DOMAIN runs : q # r => Steady(q, ds, children)
  BY ProgressFacts, ClosedSteady
<1>5. ds \in Seq(Child) /\ DOMAIN ds = DOMAIN children
  BY ProgressFacts, ClosedFainter DEF Fainter
<1>6. \A j \in DOMAIN children : j # k => ds[j] = children[j]
  BY ProgressFacts DEF Closed
<1> HIDE DEF u, ds
<1>7. CASE Follows(u) /\ u.ended
  <2> DEFINE x == Finished(u, "completed")
             w == [x EXCEPT !.finalizes = FALSE]
  <2>1. /\ runs' = [runs EXCEPT ![r] = w] /\ children' = Killed(ds, u.sub)
        /\ restarts' = restarts
    BY <1>7 DEF SubscriptionCloses, u, ds
  <2>2. Updated(runs', runs, r, w)
    BY <2>1 DEF Updated
  <2>3. x \in Run /\ IsOver(x) /\ x.sub = None
    BY <1>3, FinishedOver, RunOperators
  <2> HIDE DEF x
  <2>4. IsOver(w) /\ w.sub = None
    BY <2>3 DEF Run, IsOver
  <2>5. Tame(children', ds)
    BY <1>2, <1>3, <1>5, <2>1, KilledTame
  <2>6. \A q \in DOMAIN runs : q # r => Steady(q, children', children)
    BY <1>4, <2>5, SteadyTame
  <2> HIDE DEF w
  <2> QED
    BY <1>1, <1>2, <2>1, <2>2, <2>4, <2>6, OverHeeds
<1>8. CASE ~(Follows(u) /\ u.ended)
  <2>1. /\ runs' = [runs EXCEPT ![r] = u] /\ children' = ds
        /\ restarts' = IF Follows(u) THEN restarts \union {r} ELSE restarts
    BY <1>8 DEF SubscriptionCloses, u, ds
  <2>2. Updated(runs', runs, r, u) /\ runs'[r] = u
    BY <1>2, <2>1 DEF Updated
  <2>3. u.s = Web => u.status # "running"
    BY <1>1, <1>2, <1>3 DEF Attended, ChildLinks
  <2>4. u.sub # None => ds[u.sub].state # "closed"
    <3>1. u.sub # None => u.sub \in DOMAIN children /\ u.sub # k /\ o.sub = u.sub
      BY <1>2, <1>3
    <3> QED
      BY <1>2, <1>6, <3>1 DEF Attended
  <2>5. Attended(r, runs', children', restarts')
    BY <1>2, <1>3, <2>1, <2>2, <2>3, <2>4 DEF Attended
  <2>6. \A q \in DOMAIN runs : q \in restarts => q \in restarts'
    BY <2>1
  <2>7. Heeded(runs', children', restarts')
    BY <1>2, <1>4, <2>1, <2>2, <2>5, <2>6, ProgressFacts, HeededUpdate
  <2>8. Bides(u, o)
    BY <1>3 DEF Bides
  <2>9. ~hurried => Patient(runs', log, turns, registry)
    BY <1>2, <2>2, <2>8, PatientChange
  <2> QED
    BY <1>1, <2>7, <2>9 DEF Heeds, Calm
<1> QED
  BY <1>7, <1>8

(* Timers *)
LEMMA RestartHeeds ==
  ASSUME ProgressInv, NEW r \in DOMAIN runs, Restart(r)
  PROVE  Heeds
<1> DEFINE u == runs[r]
<1>1. /\ restarts' = restarts \ {r} /\ Calm
  BY DEF Restart, Calm
<1>2. /\ u \in Run /\ RunLinks(r, runs, children) /\ Attended(r, runs, children, restarts)
      /\ u.sub \in DOMAIN children \union {None}
  BY OneRun
<1>3. \A q \in DOMAIN runs : q # r /\ q \in restarts => q \in restarts'
  BY <1>1
<1>4. CASE ~Resumes(u)
  <2>1. runs' = runs /\ children' = children
    BY <1>4 DEF Restart
  <2>2. Updated(runs', runs, r, u)
    BY <2>1, ProgressFacts DEF Updated
  <2>3. Attended(r, runs', children', restarts')
    BY <1>2, <1>4, <2>1 DEF Attended, Resumes, RunLinks
  <2>4. \A q \in DOMAIN runs : q # r => Steady(q, children', children)
    BY <2>1 DEF Steady
  <2>5. Heeded(runs', children', restarts')
    BY <1>3, <2>2, <2>3, <2>4, ProgressFacts, HeededUpdate
  <2> QED
    BY <1>1, <2>1, <2>5, ProgressFacts DEF Heeds, Calm
<1>5. CASE Resumes(u)
  <2> DEFINE k == Len(children) + 1
             b == IF u.s = Web THEN u.child ELSE k
             v == [u EXCEPT !.sub = k, !.child = b]
             c == NewChild(r, FALSE, u.seq, 0)
  <2>1. children' = Append(children, c)
    BY <1>5 DEF Restart
  <2>2. c \in Child
    BY NewSubscription
  <2>3. Tame(children', children) /\ k \in DOMAIN children' /\ children'[k] = c /\ Len(children') = k
    <3>1. children \in Seq(Child)
      BY ProgressFacts
    <3> HIDE DEF c
    <3> QED
      BY ONLY <2>1, <2>2, <3>1, AppendedChild
  <2>4. runs' = [runs EXCEPT ![r] = v]
    BY <1>5, <2>3 DEF Restart
  <2> HIDE DEF k
  <2> HIDE DEF b
  <2>5. /\ v.s = u.s /\ v.status = u.status /\ v.sub = k /\ v.seq = u.seq
        /\ v.finalizes = u.finalizes
    BY <1>2 DEF Run
  <2>6. c.run = r /\ ~c.cli /\ c.state = "up"
    BY DEF NewChild
  <2>7. Updated(runs', runs, r, v) /\ runs'[r] = v
    BY <2>4, ProgressFacts DEF Updated
  <2>8. (u.status = "waiting" => u.s = Web) /\ (u.s = Web => u.status # "running")
    BY <1>2, <1>5 DEF Attended, Resumes, Follows
  <2> HIDE DEF v, c
  <2>9. Attended(r, runs', children', restarts')
    BY <2>3, <2>5, <2>6, <2>7, <2>8, AttendedAnew
  <2>10. \A q \in DOMAIN runs : q # r => Steady(q, children', children)
    BY <2>3 DEF Steady, Tame
  <2>11. Heeded(runs', children', restarts')
    BY <1>3, <2>7, <2>9, <2>10, ProgressFacts, HeededUpdate
  <2>12. Bides(v, u)
    BY <2>5 DEF Bides
  <2>13. ~hurried => Patient(runs', log, turns, registry)
    BY <2>7, <2>12, PatientChange
  <2> QED
    BY <1>1, <2>11, <2>13 DEF Heeds, Calm
<1> QED
  BY <1>4, <1>5

LEMMA FinalizeHeeds ==
  ASSUME ProgressInv, NEW r \in DOMAIN runs, Finalize(r)
  PROVE  Heeds
<1> DEFINE o == runs[r]
           u == [o EXCEPT !.finalizes = FALSE]
           v == Finished(u, "completed")
<1>1. o \in Run /\ o.sub \in DOMAIN children \union {None} /\ restarts' = restarts /\ Calm
  BY OneRun DEF Finalize, Calm
<1>2. /\ u \in Run /\ u.s = o.s /\ u.child = o.child /\ u.sub = o.sub /\ u.seq = o.seq
      /\ u.status = o.status
  BY <1>1 DEF Run
<1>3. CASE u.status = "running"
  <2>1. runs' = [runs EXCEPT ![r] = v] /\ children' = Killed(children, u.sub)
    BY <1>3 DEF Finalize
  <2> HIDE DEF u
  <2>2. IsOver(v) /\ v.sub = None
    BY <1>2, FinishedOver
  <2>3. Tame(children', children)
    BY <1>1, <1>2, <2>1, ProgressFacts, KilledTame
  <2>4. \A q \in DOMAIN runs : q # r => Steady(q, children', children)
    BY <2>3 DEF Steady, Tame
  <2>5. Updated(runs', runs, r, v)
    BY <2>1 DEF Updated
  <2> HIDE DEF v
  <2> QED
    BY <1>1, <2>2, <2>4, <2>5, OverHeeds
<1>4. CASE u.status # "running"
  <2>1. runs' = [runs EXCEPT ![r] = u] /\ children' = children
    BY <1>4 DEF Finalize
  <2>2. Updated(runs', runs, r, u) /\ Tame(children', children)
    BY <2>1 DEF Updated, Tame
  <2> HIDE DEF u
  <2>3. Softer(u, o) /\ Bides(u, o)
    BY <1>2, <1>4 DEF Softer, Bides
  <2> QED
    BY <1>1, <2>2, <2>3, SofterHeeds
<1> QED
  BY <1>3, <1>4

LEMMA PersistHeeds ==
  ASSUME ProgressInv, NEW r \in DOMAIN runs, Persist(r)
  PROVE  Heeds
<1> DEFINE u == runs[r]
           v == Flushed(u)
<1>1. u \in Run
  BY OneRun
<1>2. /\ runs' = [runs EXCEPT ![r] = v] /\ children' = children /\ restarts' = restarts
      /\ Calm
  BY DEF Persist, Calm
<1>3. Updated(runs', runs, r, v) /\ Tame(children', children)
  BY <1>2 DEF Updated, Tame
<1>4. /\ v.s = u.s /\ v.child = u.child /\ v.sub = u.sub /\ v.seq = u.seq
      /\ v.status = u.status /\ v.finalizes = u.finalizes
  BY <1>1 DEF Flushed, Run
<1> HIDE DEF v
<1>5. Softer(v, u) /\ Bides(v, u)
  BY <1>4 DEF Softer, Bides
<1> QED
  BY <1>2, <1>3, <1>5, SofterHeeds

LEMMA KillHeeds ==
  ASSUME ProgressInv, NEW r \in DOMAIN runs, Kill(r)
  PROVE  Heeds
<1> DEFINE u == runs[r]
           v == [u EXCEPT !.kills = None]
<1>1. u \in Run /\ u.child \in DOMAIN children
  BY OneRun
<1>2. /\ runs' = [runs EXCEPT ![r] = v] /\ children' = Killed(children, u.child)
      /\ restarts' = restarts /\ Calm
  BY DEF Kill, Calm
<1>3. Updated(runs', runs, r, v)
  BY <1>2 DEF Updated
<1>4. Tame(children', children)
  BY <1>1, <1>2, ProgressFacts, KilledTame
<1>5. /\ v.s = u.s /\ v.child = u.child /\ v.sub = u.sub /\ v.seq = u.seq
      /\ v.status = u.status /\ v.finalizes = u.finalizes
  BY <1>1 DEF Run
<1> HIDE DEF v
<1>6. Softer(v, u) /\ Bides(v, u)
  BY <1>5 DEF Softer, Bides
<1> QED
  BY <1>2, <1>3, <1>4, <1>6, SofterHeeds

LEMMA CleanUpHeeds ==
  ASSUME ProgressInv, NEW r \in DOMAIN runs, CleanUp(r)
  PROVE  Heeds
<1> DEFINE u  == runs[r]
           v  == [u EXCEPT !.cleanups = @ - 1]
           rs == [runs EXCEPT ![r] = v]
<1>1. /\ u \in Run /\ u.s \in Sessions /\ u.sub \in DOMAIN children \union {None}
      /\ runs \in Seq(Run) /\ restarts' = restarts /\ Calm
  BY OneRun, ProgressFacts DEF CleanUp, Calm
<1>2. /\ v.s = u.s /\ v.child = u.child /\ v.sub = u.sub /\ v.seq = u.seq
      /\ v.status = u.status /\ v.finalizes = u.finalizes
  BY <1>1 DEF Run
<1>3. rs[r] = v /\ DOMAIN rs = DOMAIN runs /\ rs = [runs EXCEPT ![r].cleanups = @ - 1]
  BY <1>1
<1>4. CASE IsEntry(r)
  <2>1. runs' = Removed(rs, r) /\ children' = Killed(children, u.sub)
    BY <1>3, <1>4 DEF CleanUp, IsEntry
  <2> DEFINE w == [v EXCEPT !.persists = FALSE, !.sub = None]
  <2>2. v \in Run
    <3> DEFINE n == u.cleanups - 1
    <3>1. u.cleanups \in Nat
      BY <1>1 DEF Run
    <3>2. u.cleanups > 0
      BY DEF CleanUp
    <3>3. n \in Nat
      BY <3>1, <3>2
    <3> HIDE DEF n
    <3>4. [u EXCEPT !.cleanups = n] \in Run
      BY <1>1, <3>3 DEF Run
    <3> QED
      BY <3>4 DEF n
  <2>3. runs' = [runs EXCEPT ![r] = w]
    <3>1. Removed(rs, r) = [rs EXCEPT ![r] = w]
      BY <1>3 DEF Removed
    <3> HIDE DEF w, v
    <3> QED
      BY <2>1, <3>1
  <2> HIDE DEF v
  <2>4. /\ w.s = v.s /\ w.child = v.child /\ w.sub = None /\ w.seq = v.seq
        /\ w.status = v.status /\ w.finalizes = v.finalizes
    BY <2>2 DEF Run
  <2> HIDE DEF w
  <2>5. Softer(w, u) /\ Bides(w, u)
    BY <1>2, <2>4 DEF Softer, Bides
  <2>6. Tame(children', children)
    BY <1>1, <2>1, ProgressFacts, KilledTame
  <2>7. Updated(runs', runs, r, w)
    BY <2>3 DEF Updated
  <2> QED
    BY <1>1, <2>5, <2>6, <2>7, SofterHeeds
<1>5. CASE ~IsEntry(r)
  <2>1. runs' = rs /\ children' = children
    BY <1>3, <1>5 DEF CleanUp
  <2>2. Updated(runs', runs, r, v) /\ Tame(children', children)
    BY <2>1 DEF Updated, Tame
  <2> HIDE DEF v
  <2>3. Softer(v, u) /\ Bides(v, u)
    BY <1>2 DEF Softer, Bides
  <2> QED
    BY <1>1, <2>2, <2>3, SofterHeeds
<1> QED
  BY <1>4, <1>5

(* The gateway *)
LEMMA LogGrows ==
  ASSUME ProgressInv, NEW e, e \in [s : Sessions, what : What], Appended(log', log, e)
  PROVE  LET n == Len(log) + 1
         IN  /\ DOMAIN log' = DOMAIN log \union {n}
             /\ log'[n] = e
             /\ \A i \in DOMAIN log : log'[i] = log[i] /\ i \in Nat /\ i < n
             /\ \A r \in DOMAIN runs : runs[r].seq < n
             /\ n \in Nat
<1> DEFINE n == Len(log) + 1
           E == [s : Sessions, what : What]
<1>1. log \in Seq(E) /\ e \in E /\ Appended(log', log, e)
  BY ProgressFacts
<1> HIDE DEF E
<1>2. DOMAIN log' = DOMAIN log \union {n}
  BY ONLY <1>1, SeqAppend
<1>3. log'[n] = e
  BY ONLY <1>1, SeqAppendAt
<1>4. \A i \in DOMAIN log : log'[i] = log[i]
  BY ONLY <1>1, SeqAppendAt
<1>5. Len(log) \in Nat /\ DOMAIN log = 1 .. Len(log)
  BY <1>1, SeqFacts
<1>6. ASSUME NEW r \in DOMAIN runs
      PROVE  runs[r].seq < n
  <2>1. runs[r].seq <= Len(log) /\ runs[r].seq \in Nat
    BY ProgressFacts, OneRun DEF Consistent, Cursor
  <2> QED
    BY <1>5, <2>1
<1> QED
  BY <1>2, <1>3, <1>4, <1>5, <1>6

(* The gateway prints event e: turns are added, or the one that e ends is   *)
(* over; a record is made in the registry together with a turn.             *)
Reports(e) ==
  /\ Elsewhere /\ hurried' = hurried /\ Appended(log', log, e)
  /\ turns' \in [Sessions -> Int]
  /\ \A x \in Sessions : turns'[x] >= turns[x] \/ (x = e.s /\ e.what \in Over)
  /\ \A x \in Subs : \/ registry'[x] = registry[x]
                     \/ registry[x] = "none" /\ registry'[x] # "none" /\ turns'[x] > 0
  /\ e.what \in Subs => e.s = Web /\ registry'[e.what] # "none"
  /\ e.s = Web /\ e.what \notin Over => turns'[Web] > 0

LEMMA SpawnReports ==
  ASSUME ProgressInv, NEW s \in Subs, Spawn(s), Elsewhere
  PROVE  \E e \in [s : Sessions, what : What] : Reports(e)
<1> DEFINE e == [s |-> Web, what |-> s]
<1>1. /\ s \in Sessions /\ Web \in Sessions /\ s # Web /\ turns \in [Sessions -> Nat]
      /\ registry \in [Subs -> Records] /\ s \notin Over
  BY ProgressFacts, SessionsAssumption DEF ProgressInv, IInv, Over
<1>2. e \in [s : Sessions, what : What] /\ e.s = Web /\ e.what = s
  BY <1>1 DEF What
<1>3. Appended(log', log, e) /\ turns[Web] > 0 /\ registry[s] = "none"
  BY DEF Spawn, Printed, Appended
<1>4. /\ turns' = [turns EXCEPT ![s] = @ + 1]
      /\ registry' = [registry EXCEPT ![s] = "running"]
      /\ hurried' = hurried
  BY DEF Spawn
<1> HIDE DEF e
<1>5. \A x \in Sessions : turns[x] \in Nat
  BY <1>1
<1>6. turns'[s] = turns[s] + 1 /\ \A x \in Sessions : x # s => turns'[x] = turns[x]
  BY <1>1, <1>4
<1>7. /\ turns' \in [Sessions -> Int] /\ turns'[s] > 0 /\ turns'[Web] > 0
      /\ \A x \in Sessions : turns'[x] >= turns[x]
  <2>1. turns' \in [Sessions -> Int]
    BY <1>1, <1>4
  <2> QED
    BY ONLY <1>1, <1>3, <1>5, <1>6, <2>1
<1>8. registry'[s] = "running" /\ \A x \in Subs : x # s => registry'[x] = registry[x]
  BY <1>1, <1>4
<1>9. Reports(e)
  BY <1>2, <1>3, <1>4, <1>7, <1>8 DEF Reports
<1> QED
  BY <1>2, <1>9

LEMMA SayReports ==
  ASSUME ProgressInv, NEW s \in Sessions, NEW what \in Said, Say(s, what), Elsewhere
  PROVE  \E e \in [s : Sessions, what : What] : Reports(e)
<1> DEFINE e == [s |-> s, what |-> what]
<1>1. /\ turns \in [Sessions -> Nat] /\ what \in What /\ what \notin Subs
  BY ProgressFacts, SessionsAssumption DEF What, Said
<1>2. e \in [s : Sessions, what : What] /\ e.s = s /\ e.what = what
  BY <1>1
<1>3. Appended(log', log, e) /\ turns[s] > 0 /\ UNCHANGED <<turns, registry, hurried>>
  BY DEF Say, Printed, Appended
<1> HIDE DEF e
<1>4. turns' \in [Sessions -> Int] /\ \A x \in Sessions : turns'[x] >= turns[x]
  BY <1>1, <1>3
<1>5. Reports(e)
  BY <1>1, <1>2, <1>3, <1>4 DEF Reports
<1> QED
  BY <1>2, <1>5

LEMMA EndTurnReports ==
  ASSUME ProgressInv, NEW s \in Sessions, NEW what \in Over, EndTurn(s, what), Elsewhere
  PROVE  \E e \in [s : Sessions, what : What] : Reports(e)
<1> DEFINE e == [s |-> s, what |-> what]
<1>1. /\ turns \in [Sessions -> Nat] /\ what \in What /\ what \notin Subs
  BY ProgressFacts, SessionsAssumption DEF What, Over
<1>2. e \in [s : Sessions, what : What] /\ e.s = s /\ e.what = what
  BY <1>1
<1>3. /\ Appended(log', log, e) /\ turns' = [turns EXCEPT ![s] = @ - 1]
      /\ UNCHANGED <<registry, hurried>>
  BY DEF EndTurn, Printed, Appended
<1> HIDE DEF e
<1>4. turns' \in [Sessions -> Int] /\ \A x \in Sessions : x # s => turns'[x] = turns[x]
  BY <1>1, <1>3
<1>5. \A x \in Sessions : x # s => turns'[x] >= turns[x]
  BY <1>1, <1>4
<1>6. Reports(e)
  BY <1>1, <1>2, <1>3, <1>4, <1>5 DEF Reports
<1> QED
  BY <1>2, <1>6

LEMMA ReportHeeds ==
  ASSUME ProgressInv, NEW e, e \in [s : Sessions, what : What], Reports(e)
  PROVE  Heeds /\ Announcing'
<1> DEFINE n == Len(log) + 1
<1>1. /\ Announcing /\ turns \in [Sessions -> Nat]
      /\ Web \in Sessions /\ Subs \subseteq Sessions
  BY ProgressFacts DEF ProgressInv
<1>2. /\ UNCHANGED <<runs, children, restarts, hurried>>
      /\ turns' \in [Sessions -> Int]
      /\ \A x \in Sessions : turns'[x] >= turns[x] \/ (x = e.s /\ e.what \in Over)
      /\ \A x \in Subs : \/ registry'[x] = registry[x]
                         \/ registry[x] = "none" /\ registry'[x] # "none" /\ turns'[x] > 0
      /\ e.what \in Subs => e.s = Web /\ registry'[e.what] # "none"
      /\ e.s = Web /\ e.what \notin Over => turns'[Web] > 0
  BY DEF Reports, Elsewhere
<1>3. /\ DOMAIN log' = DOMAIN log \union {n} /\ log'[n] = e
      /\ \A i \in DOMAIN log : log'[i] = log[i] /\ n > i
      /\ \A r \in DOMAIN runs : n > runs[r].seq
  <2>1. Appended(log', log, e)
    BY DEF Reports
  <2> QED
    BY <2>1, LogGrows, OneRun
<1> HIDE DEF n
<1>4. ASSUME NEW x \in Sessions, turns[x] > 0
      PROVE  turns'[x] > 0 \/ (x = e.s /\ e.what \in Over)
  <2>1. /\ turns'[x] \in Int /\ turns[x] \in Nat
        /\ turns'[x] >= turns[x] \/ (x = e.s /\ e.what \in Over)
    BY <1>1, <1>2
  <2> QED
    BY ONLY <1>4, <2>1
<1>5. ASSUME ~hurried, NEW r \in DOMAIN runs
      PROVE  Awaits(runs[r], log', turns', registry')
  <2> DEFINE u == runs[r]
  <2>1. Awaits(u, log, turns, registry) /\ u.s \in Sessions
    BY <1>5, OneRun
  <2>2. ASSUME Ahead(u.seq, log, turns, registry)
        PROVE  Ahead(u.seq, log', turns', registry')
    <3>1. CASE turns[Web] > 0
      BY <1>1, <1>3, <1>4, <3>1 DEF Ahead
    <3>2. CASE \E x \in Subs : registry[x] \in {"running", "due", "queued"}
      BY <1>2, <3>2 DEF Ahead
    <3>3. CASE \E j \in DOMAIN log : j > u.seq /\ log[j].s = Web
      BY <1>3, <3>3 DEF Ahead
    <3> QED
      BY <2>2, <3>1, <3>2, <3>3 DEF Ahead
  <2>3. ASSUME turns[u.s] > 0
        PROVE  turns'[u.s] > 0
               \/ \E i \in DOMAIN log' : i > u.seq /\ log'[i].s = u.s /\ log'[i].what \in Over
    BY <1>3, <1>4, <2>1, <2>3
  <2>4. (\E i \in DOMAIN log : i > u.seq /\ log[i].s = u.s /\ log[i].what \in Over)
        => \E i \in DOMAIN log' : i > u.seq /\ log'[i].s = u.s /\ log'[i].what \in Over
    BY <1>3
  <2> HIDE DEF u
  <2>5. Awaits(u, log', turns', registry')
    BY <2>1, <2>2, <2>3, <2>4 DEF Awaits
  <2> QED
    BY <2>5 DEF u
<1>6. Heeds
  BY <1>2, <1>5, ProgressFacts DEF Heeds, Patient
<1>7. ASSUME NEW x \in Subs
      PROVE  Working(x)'
  <2>1. CASE registry'[x] = registry[x]
    BY <1>1, <1>3, <1>4, <2>1 DEF Announcing, Working
  <2>2. CASE turns'[x] > 0
    BY <2>2 DEF Working
  <2> QED
    BY <1>2, <2>1, <2>2
<1>8. ASSUME NEW i \in DOMAIN log'
      PROVE  InTurn(i)'
  <2>1. CASE i \in DOMAIN log
    <3>1. InTurn(i) /\ log'[i] = log[i] /\ n > i
      BY <1>1, <1>3, <2>1 DEF Announcing
    <3>2. \A x \in Subs : registry[x] # "none" => registry'[x] # "none"
      BY <1>2
    <3>3. turns[Web] > 0 => turns'[Web] > 0 \/ \E j \in DOMAIN log' : j > i /\ log'[j].s = Web
      BY <1>1, <1>3, <1>4, <3>1
    <3> QED
      BY <1>3, <3>1, <3>2, <3>3 DEF InTurn
  <2>2. CASE i = n
    BY <1>2, <1>3, <2>2 DEF InTurn
  <2> QED
    BY <1>3, <2>1, <2>2
<1> QED
  BY <1>6, <1>7, <1>8 DEF Announcing

(* Turns are added, and the registry keeps its records.                     *)
LEMMA AnnouncingStays ==
  ASSUME ProgressInv, log' = log, ~hurried' => ~hurried,
         \A x \in Subs : registry[x] = "none" <=> registry'[x] = "none",
         turns' \in [Sessions -> Nat], \A x \in Sessions : turns'[x] >= turns[x]
  PROVE  Announcing'
<1>1. /\ Announcing /\ turns \in [Sessions -> Nat]
      /\ Web \in Sessions /\ Subs \subseteq Sessions
  BY ProgressFacts DEF ProgressInv
<1>2. ASSUME NEW x \in Sessions, turns[x] > 0
      PROVE  turns'[x] > 0
  <2>1. turns[x] \in Nat /\ turns'[x] \in Nat /\ turns'[x] >= turns[x]
    BY <1>1
  <2> QED
    BY ONLY <1>2, <2>1
<1>3. \A s \in Subs : Working(s)'
  BY <1>1, <1>2 DEF Announcing, Working
<1>4. \A i \in DOMAIN log' : InTurn(i)'
  BY <1>1, <1>2 DEF Announcing, InTurn
<1> QED
  BY <1>1, <1>3, <1>4 DEF Announcing

(* A step in the registry: what was due is announced in a turn to come or   *)
(* under way, stays due, or is given up.                                    *)
Arranges ==
  /\ Elsewhere /\ log' = log
  /\ turns' = turns \/ turns' = [turns EXCEPT ![Web] = @ + 1]
  /\ \A x \in Subs : registry[x] = "none" <=> registry'[x] = "none"
  /\ ~hurried' => ~hurried
  /\ \/ hurried' \/ turns'[Web] > 0
     \/ \A x \in Subs : registry[x] \in {"running", "due", "queued"} =>
                          registry'[x] \in {"running", "due", "queued"}

LEMMA DecidesArranges ==
  ASSUME ProgressInv, NEW s \in Subs, Decides(s), Elsewhere
  PROVE  Arranges
<1>1. /\ registry \in [Subs -> Records] /\ turns \in [Sessions -> Nat] /\ Web \in Sessions
  BY ProgressFacts DEF ProgressInv, IInv
<1>2. turns[Web] \in Nat
  BY <1>1
<1>3. CASE Complete(s)
  BY <1>1, <1>3 DEF Complete, Arranges
<1>4. CASE AnnounceDirectly(s)
  <2>1. turns'[Web] > 0
    BY <1>1, <1>2, <1>4 DEF AnnounceDirectly
  <2> QED
    BY <1>1, <1>4, <2>1 DEF AnnounceDirectly, Arranges
<1>5. ASSUME NEW steered \in BOOLEAN, AnnounceInstead(s, steered)
      PROVE  Arranges
  BY <1>1, <1>5 DEF AnnounceInstead, Arranges
<1>6. CASE GiveUp(s)
  <2>1. /\ log' = log /\ turns' = turns /\ (~hurried' => ~hurried)
        /\ hurried' \/ turns'[Web] > 0
    <3>1. /\ log' = log /\ turns' = turns
          /\ hurried' = (hurried \/ turns[Web] = 0)
      BY <1>6 DEF GiveUp
    <3>2. turns[Web] = 0 \/ turns[Web] > 0
      BY <1>2
    <3>3. (~hurried' => ~hurried) /\ (turns[Web] = 0 => hurried')
      BY <3>1, Zenon
    <3> QED
      BY ONLY <3>1, <3>2, <3>3, Zenon
  <2>2. \A x \in Subs : registry[x] = "none" <=> registry'[x] = "none"
    BY <1>1, <1>6 DEF GiveUp
  <2> QED
    BY <2>1, <2>2 DEF Arranges
<1>7. CASE Terminate(s)
  BY <1>1, <1>7 DEF Terminate, Arranges
<1> QED
  BY <1>3, <1>4, <1>5, <1>6, <1>7 DEF Decides

LEMMA SendQueuedArranges ==
  ASSUME ProgressInv, NEW S \in SUBSET Subs, SendQueued(S), Elsewhere
  PROVE  Arranges
<1>1. /\ registry \in [Subs -> Records] /\ turns \in [Sessions -> Nat] /\ Web \in Sessions
  BY ProgressFacts DEF ProgressInv, IInv
<1>2. turns[Web] \in Nat
  BY <1>1
<1>3. /\ turns' = [turns EXCEPT ![Web] = @ + 1] /\ log' = log /\ hurried' = hurried
      /\ \A x \in Subs : registry'[x] = IF x \in S THEN "over" ELSE registry[x]
      /\ \A x \in S : registry[x] = "queued"
  BY DEF SendQueued
<1>4. turns'[Web] > 0
  BY <1>1, <1>2, <1>3
<1> QED
  BY <1>3, <1>4 DEF Arranges

LEMMA ArrangedHeeds ==
  ASSUME ProgressInv, Arranges
  PROVE  Heeds /\ Announcing'
<1>1. /\ turns \in [Sessions -> Nat] /\ Web \in Sessions
      /\ UNCHANGED <<runs, children, restarts, log>> /\ (~hurried' => ~hurried)
  BY ProgressFacts DEF Arranges, Elsewhere
<1>2. turns' \in [Sessions -> Nat] /\ \A x \in Sessions : turns'[x] >= turns[x]
  <2>1. \A x \in Sessions : turns[x] \in Nat
    BY <1>1
  <2>2. CASE turns' = turns
    BY <1>1, <2>1, <2>2
  <2>3. CASE turns' = [turns EXCEPT ![Web] = @ + 1]
    BY <1>1, <2>1, <2>3
  <2> QED
    BY <2>2, <2>3 DEF Arranges
<1>3. Announcing'
  BY <1>1, <1>2, AnnouncingStays DEF Arranges
<1>4. ASSUME NEW x \in Sessions, turns[x] > 0
      PROVE  turns'[x] > 0
  <2>1. turns[x] \in Nat /\ turns'[x] \in Nat /\ turns'[x] >= turns[x]
    BY <1>1, <1>2
  <2> QED
    BY ONLY <1>4, <2>1
<1>5. ASSUME ~hurried', NEW r \in DOMAIN runs
      PROVE  Awaits(runs[r], log', turns', registry')
  <2>1. Awaits(runs[r], log, turns, registry) /\ runs[r].s \in Sessions
    BY <1>1, <1>5, OneRun
  <2>2. Ahead(runs[r].seq, log, turns, registry) => Ahead(runs[r].seq, log', turns', registry')
    BY <1>1, <1>4, <1>5 DEF Ahead, Arranges
  <2> QED
    BY <1>1, <1>4, <2>1, <2>2 DEF Awaits
<1>6. Heeds
  BY <1>1, <1>5, ProgressFacts DEF Heeds, Patient
<1> QED
  BY <1>3, <1>6

LEMMA GatewayHeeds ==
  ASSUME ProgressInv, Gateway
  PROVE  Heeds /\ Announcing'
<1>1. Elsewhere
  BY GatewaySteps
<1>2. CASE \E e \in [s : Sessions, what : What] : Reports(e)
  BY <1>2, ReportHeeds
<1>3. CASE Arranges
  BY <1>3, ArrangedHeeds
<1>4. (\E e \in [s : Sessions, what : What] : Reports(e)) \/ Arranges
  BY <1>1, GatewaySteps, SpawnReports, SayReports, EndTurnReports, DecidesArranges,
     SendQueuedArranges
<1> QED
  BY <1>2, <1>3, <1>4

(* Only the gateway ends turns, and nothing clears the history.             *)
LEMMA OutsideGateway ==
  ASSUME ProgressInv, Request \/ ChildStep \/ Timer
  PROVE  Announcing'
<1>1. turns \in [Sessions -> Nat]
  BY ProgressFacts
<1> DEFINE Leaves == /\ UNCHANGED <<log, registry>> /\ (~hurried' => ~hurried)
                     /\ \/ turns' = turns
                        \/ \E s \in Sessions : turns' = [turns EXCEPT ![s] = @ + 1]
<1>2. ASSUME Request PROVE Leaves
  <2>1. /\ UNCHANGED <<log, registry, hurried>>
        /\ \/ turns' = turns
           \/ \E s \in Sessions : turns' = [turns EXCEPT ![s] = @ + 1]
    BY <1>2 DEF Request, Start, FollowUp, Watch, Stop, Sessions
  <2> QED
    BY <2>1
<1>3. ASSUME ChildStep PROVE Leaves
  <2>1. ASSUME NEW k \in DOMAIN children, NEW i \in Unread(k), WebLine(k, i)
        PROVE  Leaves
    BY <2>1 DEF WebLine
  <2>4. ASSUME NEW k \in DOMAIN children, NEW i \in Unread(k), NEW reported \in BOOLEAN,
               SubagentLine(k, i, reported)
        PROVE  Leaves
    BY <2>4 DEF SubagentLine
  <2>5. ASSUME NEW k \in DOMAIN children, NEW i \in Unread(k), CliLine(k, i)
        PROVE  Leaves
    BY <2>5 DEF CliLine
  <2>2. ASSUME NEW k \in DOMAIN children, CliFails(k) \/ SubscriptionCloses(k)
        PROVE  Leaves
    BY <2>2 DEF CliFails, SubscriptionCloses
  <2>3. ASSUME NEW k \in DOMAIN children, NEW clean \in BOOLEAN, NEW puts \in BOOLEAN,
               CliCloses(k, clean, puts)
        PROVE  Leaves
    BY <2>3 DEF CliCloses
  <2> HIDE DEF Leaves
  <2> QED
    BY <1>3, <2>1, <2>2, <2>3, <2>4, <2>5 DEF ChildStep
<1>4. ASSUME Timer PROVE Leaves
  <2>1. UNCHANGED <<log, turns, registry, hurried>>
    BY <1>4 DEF Timer, Restart, Finalize, Persist, CleanUp, Kill
  <2> QED
    BY <2>1
<1>5. Leaves
  <2> HIDE DEF Leaves
  <2> QED
    BY <1>2, <1>3, <1>4
<1>6. turns' \in [Sessions -> Nat] /\ \A x \in Sessions : turns'[x] >= turns[x]
  <2>1. CASE turns' = turns
    BY <1>1, <2>1
  <2>2. ASSUME NEW s \in Sessions, turns' = [turns EXCEPT ![s] = @ + 1]
        PROVE  turns' \in [Sessions -> Nat] /\ \A x \in Sessions : turns'[x] >= turns[x]
    BY <1>1, <2>2
  <2> QED
    BY <1>5, <2>1, <2>2
<1> QED
  BY <1>5, <1>6, AnnouncingStays

LEMMA NextHeeds ==
  ASSUME ProgressInv, Next
  PROVE  Heeds /\ Announcing'
<1>1. CASE Request
  BY <1>1, OutsideGateway, StartHeeds, FollowUpHeeds, WatchHeeds, StopHeeds DEF Request
<1>2. CASE ChildStep
  <2>1. ASSUME NEW k \in DOMAIN children, NEW i \in Unread(k),
               \/ CliLine(k, i) \/ WebLine(k, i)
               \/ \E reported \in BOOLEAN : SubagentLine(k, i, reported)
        PROVE  Heeds
    BY <2>1, CliLineHeeds, WebLineHeeds, SubagentLineHeeds
  <2>2. ASSUME NEW k \in DOMAIN children,
               \/ \E clean, puts \in BOOLEAN : CliCloses(k, clean, puts)
               \/ CliFails(k) \/ SubscriptionCloses(k)
        PROVE  Heeds
    BY <2>2, CliClosesHeeds, CliFailsHeeds, SubscriptionClosesHeeds
  <2> QED
    BY <1>2, <2>1, <2>2, OutsideGateway DEF ChildStep
<1>3. CASE Timer
  BY <1>3, OutsideGateway, RestartHeeds, FinalizeHeeds, PersistHeeds, CleanUpHeeds, KillHeeds
  DEF Timer
<1>4. CASE Gateway
  BY <1>4, GatewayHeeds
<1> QED
  BY <1>1, <1>2, <1>3, <1>4 DEF Next

LEMMA ProgressNext ==
  ASSUME ProgressInv, [Next]_vars
  PROVE  ProgressInv'
<1>1. IInv'
  BY NextInv DEF ProgressInv
<1>2. CASE Next
  BY <1>1, <1>2, NextHeeds DEF ProgressInv, Heeds
<1>3. CASE UNCHANGED vars
  BY <1>1, <1>3 DEF vars, ProgressInv, Announcing, Working, InTurn
<1> QED
  BY <1>2, <1>3

LEMMA ProgressInit ==
  ASSUME Init
  PROVE  ProgressInv
<1>1. IInv
  BY InitInv
<1>2. DOMAIN log = {} /\ DOMAIN runs = {} /\ \A s \in Subs : registry[s] = "none"
  BY EmptySeq DEF Init
<1> QED
  BY <1>1, <1>2 DEF ProgressInv, Announcing, Working, InTurn, Heeded, Patient

(* An active run has the child it needs, or the timer that starts one; and, *)
(* unless one has let its last event pass (hurried), there is a turn or an  *)
(* announcement to come that can end it.                                    *)
THEOREM Progress == Spec => []ProgressInv
<1>1. Init => ProgressInv
  BY ProgressInit
<1>2. ProgressInv /\ [Next]_vars => ProgressInv'
  BY ProgressNext
<1> QED
  BY <1>1, <1>2, PTL DEF Spec

LEMMA NothingComes ==
  ASSUME ProgressInv, Quiet, NEW r \in DOMAIN runs,
         NEW k \in DOMAIN children,
         children[k].run = r, ~children[k].cli, children[k].state # "closed"
  PROVE  \A i \in DOMAIN log : log[i].s = runs[r].s => ~(i > runs[r].seq)
<1>1. Unread(k) = {}
  BY DEF Quiet
<1>2. Reads(k, runs, children, log) /\ children[k] \in Child /\ runs[r].seq \in Nat
  BY ProgressFacts, OneChild, OneRun DEF Consistent
<1>3. children[k].pos <= runs[r].seq /\ children[k].pos \in Nat
  BY <1>2, BoundsAssumption DEF Reads, Child
<1>4. \A i \in DOMAIN log : i \in Nat
  BY ProgressFacts, SeqFacts
<1> QED
  BY <1>1, <1>2, <1>3, <1>4 DEF Unread

(* Once nothing is on its way to the web application any more, no run is    *)
(* left active, of the web session or of a subagent, however the results    *)
(* were announced: unless a run let its last event pass (hurried).          *)
THEOREM QuietRunsAreOver == Spec => []QuietIsFinished
<1>1. ProgressInv => QuietIsFinished
  <2> SUFFICES ASSUME ProgressInv, Quiet, ~hurried,
                      NEW r \in DOMAIN runs, IsActive(runs[r])
               PROVE  FALSE
    BY DEF QuietIsFinished
  <2> DEFINE u == runs[r]
  <2>1. /\ u.child \in DOMAIN children /\ u.s \in Sessions
        /\ Attended(r, runs, children, restarts)
        /\ Awaits(u, log, turns, registry)
    BY OneRun
  <2>2. /\ \A s \in Sessions : ~(turns[s] > 0)
        /\ \A s \in Subs : registry[s] \notin {"running", "due", "queued"}
        /\ restarts = {} /\ ~u.finalizes
        /\ Web \in Sessions
    <3>1. \A s \in Sessions : turns[s] = 0
      BY DEF Quiet
    <3>2. \A s \in Sessions : ~(turns[s] > 0)
      BY <3>1
    <3> QED
      BY <3>2, ProgressFacts DEF Quiet
  <2>3. CASE u.s = Web /\ u.status = "running"
    BY <2>1, <2>3 DEF Attended, Quiet
  <2>4. CASE ~(u.s = Web /\ u.status = "running")
    <3>1. Follows(u)
      BY <2>1, <2>4 DEF IsActive, Follows, Attended
    <3>2. PICK k \in DOMAIN children :
            children[k].run = r /\ ~children[k].cli /\ children[k].state # "closed"
      BY <2>1, <2>2, <3>1 DEF Attended
    <3>3. \A i \in DOMAIN log : log[i].s = u.s => ~(i > u.seq)
      BY <3>2, NothingComes
    <3>4. CASE u.status = "waiting"
      BY <2>1, <2>2, <3>3, <3>4 DEF Awaits, Ahead, Attended
    <3>5. CASE u.status # "waiting"
      <4>1. u.status = "running" /\ u.s \in Subs
        BY <2>1, <2>4, <3>5 DEF IsActive, Sessions
      <4> QED
        BY <2>1, <2>2, <3>3, <4>1 DEF Awaits
    <3> QED
      BY <3>4, <3>5
  <2> QED
    BY <2>3, <2>4
<1> QED
  BY <1>1, Progress, PTL
=============================================================================
