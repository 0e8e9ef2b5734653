----------------------------- MODULE ActiveRuns -----------------------------
(***************************************************************************)
(* The agent runs of the web application (apps/web/lib/active-runs.ts, and *)
(* its routes under apps/web/app/api/chat): one web session, whose agent   *)
(* may spawn subagents with sessions of their own.                         *)
(*                                                                         *)
(* A run of the web session begins with a CLI child process, which prints  *)
(* the events of the session until its turn is over.  If subagents are at  *)
(* work by then, the run waits: a second child subscribes to the session,  *)
(* from the last event seen, for the turn in which the agent announces the *)
(* subagents' results.  The run of a subagent only subscribes.  Everything *)
(* here is one handler of the event loop: of a child's line or end, of a   *)
(* timer, or of a request.  The agents and the registry of subagents       *)
(* (src/agents/subagent-*.ts) run in the gateway, another process.         *)
(*                                                                         *)
(* The model keeps the events that change a run's course, with their place *)
(* in the gateway's stream: a turn spawns a subagent, says something, ends *)
(* or fails.  Of the assistant message it keeps whether it has parts, and  *)
(* whether it is marked as streaming in the file.                          *)
(***************************************************************************)
EXTENDS Integers, Sequences, FiniteSets

CONSTANTS
    Web,            \* the web session
    Subs,           \* the sessions of its subagents
    MaxRuns, MaxChildren, MaxEvents, MaxInputs,  \* bounds
    MaxBoth         \* bound of events and inputs together

ASSUME SessionsAssumption ==
    /\ Web \notin Subs /\ IsFiniteSet(Subs)
    /\ Subs \intersect {"text", "silent", "fail", "end"} = {}
ASSUME BoundsAssumption ==
    {MaxRuns, MaxChildren, MaxEvents, MaxInputs, MaxBoth} \subseteq Nat

VARIABLES
    log,        \* events of the gateway, by globalSeq
    turns,      \* turns[s]: turns of s the gateway has to run or is running
    registry,   \* registry[s]: the subagent's record in subagents/runs.json
    runs,       \* ActiveRun objects, those no longer in the map included
    entry,      \* the map activeRuns: the run of a session, or None
    children,   \* child processes
    restarts,   \* runs with a timer that restarts their subscription
    inputs,
    hurried     \* history: the last event or announcement a run waited for has
                \* passed without ending it

vars == <<log, turns, registry, runs, entry, children, restarts, inputs, hurried>>

None     == 0
Sessions == {Web} \union Subs
Over     == {"fail", "end"}             \* the lifecycle events that end a turn
Said     == {"text", "silent"}          \* assistant text; a silent reply token
What     == Over \union Said \union Subs  \* a subagent: the result of sessions_spawn

\* SubagentRunRecord: no endedAt; an announcement due, or in the announce queue
\* of the web session; cleanupCompletedAt, or the announcement delivered.
Records  == {"none", "running", "due", "queued", "over"}

Child == [run : 1 .. MaxRuns, cli : BOOLEAN, pos : 0 .. MaxEvents, until : Nat,
          state : {"up", "killed", "closed"}]
Run == [s : Sessions, status : {"running", "waiting", "completed", "error"},
        child : 1 .. MaxChildren,       \* childProcess
        sub : 0 .. MaxChildren,         \* _subscribeProcess
        seq : 0 .. MaxEvents,           \* lastGlobalSeq
        ended : BOOLEAN,                \* _lifecycleEnded
        finalizes : BOOLEAN,            \* _finalizeTimer
        persists : BOOLEAN,             \* _persistTimer
        cleanups : Nat,                 \* grace-period timers
        kills : 0 .. MaxChildren,       \* the child whose end stops the SIGKILL timer
        parts : BOOLEAN,                \* accumulated.parts is not empty
        silent : 0 .. MaxChildren,      \* the child whose open text is the only part,
                                        \* and a silent reply token
        streaming : BOOLEAN,            \* _streaming of the message in the file
        seen : Seq(1 .. MaxEvents),     \* history: the events processed
        silenced : BOOLEAN,             \* history: emptied since the last save
        revived : BOOLEAN]              \* history: reactivated

TypeOK ==
    /\ log \in Seq([s : Sessions, what : What]) /\ Len(log) <= MaxEvents
    /\ turns \in [Sessions -> Nat]
    /\ registry \in [Subs -> Records]
    /\ runs \in Seq(Run) /\ Len(runs) <= MaxRuns
    /\ children \in Seq(Child) /\ Len(children) <= MaxChildren
    /\ \A s \in Sessions : entry[s] # None => entry[s] \in DOMAIN runs /\ runs[entry[s]].s = s
    /\ restarts \subseteq DOMAIN runs
    /\ \A r \in DOMAIN runs : LET k == runs[r].sub
                              IN  k # None => children[k].run = r /\ ~children[k].cli
    /\ inputs \in 0 .. MaxInputs /\ hurried \in BOOLEAN

Init ==
    /\ log = <<>> /\ turns = [s \in Sessions |-> 0] /\ registry = [s \in Subs |-> "none"]
    /\ runs = <<>> /\ entry = [s \in Sessions |-> None] /\ children = <<>> /\ restarts = {}
    /\ inputs = 0 /\ hurried = FALSE

-----------------------------------------------------------------------------
(* Parts of the handlers, as functions of a run or of the children.        *)

IsActive(u) == u.status \in {"running", "waiting"}

\* Mutant: a web run that waits for its subagents is taken for one that is over.
FollowsRunning(u) == u.status = "running"

\* What the handlers of a subscription ask before they go on with it: the runs
\* of subagents run, the run of the web session waits.
Follows(u) == u.status = IF u.s = Web THEN "waiting" ELSE "running"

\* emit, of an event that adds to the message: the message is saved soon.
Emitted(u) == [u EXCEPT !.parts = TRUE, !.silent = None, !.persists = TRUE]

\* closeText, for child k: a silent reply is taken out of the message, which
\* is empty then.
TextClosed(u, k) ==
    IF k = u.silent
    THEN [u EXCEPT !.parts = FALSE, !.silent = None, !.silenced = TRUE, !.persists = TRUE]
    ELSE u

\* flushPersistence; an empty message is not saved.
Flushed(u) ==
    [u EXCEPT !.persists = FALSE,
              !.streaming = IF u.parts THEN IsActive(u) ELSE @,
              !.silenced = @ /\ ~u.parts]

\* Mutant: the message is saved before the status is set.
FinishedTooLate(u, status) ==
    [Flushed(u) EXCEPT !.status = status, !.sub = None, !.cleanups = @ + 1]

\* What all ends of a run do: the status, a last save, null for the
\* subscribers (not modelled), the grace period.
Finished(u, status) ==
    [Flushed([u EXCEPT !.status = status]) EXCEPT !.sub = None, !.cleanups = @ + 1]

\* SIGTERM or SIGKILL: the child may go on printing before it closes.
Killed(cs, k) == IF k # None /\ cs[k].state = "up" THEN [cs EXCEPT ![k].state = "killed"] ELSE cs

\* The turns of s that are over.
Ends(s) == Cardinality({i \in DOMAIN log : log[i].s = s /\ log[i].what \in Over})
NewChild(r, cli, pos, until) ==
    [run |-> r, cli |-> cli, pos |-> pos, until |-> until, state |-> "up"]

\* Mutant: the CLI child is taken for a subscription.
NewRunSubscribed(s, k, sub) ==
    [s |-> s, status |-> "running", child |-> k, sub |-> k, seq |-> 0, ended |-> FALSE,
     finalizes |-> FALSE, persists |-> FALSE, cleanups |-> 0, kills |-> None,
     parts |-> FALSE, silent |-> None, streaming |-> FALSE, seen |-> <<>>,
     silenced |-> FALSE, revived |-> FALSE]

NewRun(s, k, sub) ==
    [s |-> s, status |-> "running", child |-> k, sub |-> sub, seq |-> 0, ended |-> FALSE,
     finalizes |-> FALSE, persists |-> FALSE, cleanups |-> 0, kills |-> None,
     parts |-> FALSE, silent |-> None, streaming |-> FALSE, seen |-> <<>>,
     silenced |-> FALSE, revived |-> FALSE]

HasRoomFor(c, r) == Len(children) + c <= MaxChildren /\ Len(runs) + r <= MaxRuns

\* hasRunningSubagentsForParent
HasRunningSubagents ==
    \E s \in Subs : \/ entry[s] # None /\ runs[entry[s]].status = "running"
                    \/ registry[s] = "running"

\* A turn of the web session, or the announcement of a subagent's end by one,
\* is to come after event i.
Ahead(i, lg, t, reg) ==
    \/ t[Web] > 0
    \/ \E s \in Subs : reg[s] \in {"running", "due", "queued"}
    \/ \E j \in DOMAIN lg : j > i /\ lg[j].s = Web

IsLast(i) == ~Ahead(i, log, turns, registry)

\* cleanupRun of run r, on the runs; its subscription is stopped as well.
Removed(rs, r) == [rs EXCEPT ![r].persists = FALSE, ![r].sub = None]

\* startSubscribeRun; persists tells whether a user message was put in.
StartSubscribe(s, rs, cs, persists) ==
    /\ HasRoomFor(1, 1)
    /\ runs' = Append(rs, [NewRun(s, Len(cs) + 1, Len(cs) + 1) EXCEPT !.persists = persists])
    /\ children' = Append(cs, NewChild(Len(rs) + 1, FALSE, 0, 0))
    /\ entry' = [entry EXCEPT ![s] = Len(rs) + 1]

-----------------------------------------------------------------------------
(* Requests.                                                               *)

\* Requests and faults are bounded together.
Input ==
    /\ inputs < MaxInputs /\ inputs + Len(log) < MaxBoth
    /\ inputs' = inputs + 1

\* POST /api/chat, for the web session: 409 while a run is active; startRun,
\* with the cleanupRun of the run before, and subscribeToRun.
Start ==
    /\ Input
    /\ entry[Web] # None => ~IsActive(runs[entry[Web]])
    /\ HasRoomFor(1, 1)
    /\ LET r == Len(runs) + 1
           k == Len(children) + 1
           q == entry[Web]
       IN  /\ runs' = Append(IF q = None THEN runs ELSE Removed(runs, q), NewRun(Web, k, None))
           /\ children' = Append(IF q = None THEN children ELSE Killed(children, runs[q].sub),
                                 NewChild(r, TRUE, Len(log), Ends(Web) + turns[Web] + 1))
           /\ entry' = [entry EXCEPT ![Web] = r]
    /\ turns' = [turns EXCEPT ![Web] = @ + 1]
    /\ UNCHANGED <<log, registry, restarts, hurried>>

\* POST /api/chat, for a subagent: 409 while its run is running;
\* persistSubscribeUserMessage, reactivateSubscribeRun, sendSubagentFollowUp.
FollowUp(s) ==
    /\ Input
    /\ registry[s] # "none"
    /\ IF entry[s] = None
       THEN StartSubscribe(s, runs, children, TRUE)
       ELSE LET r == entry[s]
            IN  /\ ~IsActive(runs[r]) /\ HasRoomFor(1, 0)
                /\ children' = Append(children, NewChild(r, FALSE, runs[r].seq, 0))
                /\ runs' = [runs EXCEPT ![r] =
                     [@ EXCEPT !.status = "running", !.ended = FALSE, !.finalizes = FALSE,
                               !.persists = TRUE, !.parts = FALSE, !.silent = None,
                               !.streaming = FALSE, !.silenced = FALSE, !.revived = TRUE,
                               !.child = Len(children'), !.sub = Len(children')]]
                /\ UNCHANGED entry
    /\ turns' = [turns EXCEPT ![s] = @ + 1]
    /\ UNCHANGED <<log, registry, restarts, hurried>>

\* GET /api/chat/stream, for a subagent that is not in the map.
Watch(s) ==
    /\ Input
    /\ entry[s] = None /\ registry[s] # "none"
    /\ StartSubscribe(s, runs, children, FALSE)
    /\ UNCHANGED <<log, turns, registry, restarts, hurried>>

\* POST /api/chat/stop: abortRun, of a run that is running.  chat.abort is
\* best effort and is left to the gateway.  The SIGKILL of a run of the web
\* session could only go to the CLI child that was sent SIGTERM already.
Stop(s) ==
    /\ Input
    /\ entry[s] # None /\ runs[entry[s]].status = "running"
    /\ LET u == runs[entry[s]]
       IN  /\ runs' = [runs EXCEPT ![entry[s]] =
                [Finished(u, "error") EXCEPT !.kills = IF s = Web THEN None ELSE u.child]]
           /\ children' = Killed(Killed(children, u.sub), u.child)
    /\ UNCHANGED <<log, turns, registry, entry, restarts, hurried>>

-----------------------------------------------------------------------------
(* Lines of the children.                                                  *)

\* The next event of its session that child k prints; it prints no others.
Unread(k) ==
    {i \in DOMAIN log : i > children[k].pos /\ log[i].s = runs[children[k].run].s}

IsNext(k, i) == i \in Unread(k) /\ \A j \in Unread(k) : i <= j

Read(k, i) == [children EXCEPT ![k].pos = i]

\* The turns of the web session that are over before event i.
EndsBefore(i) == Cardinality({j \in 1 .. i - 1 : log[j].s = Web /\ log[j].what \in Over})

\* Every turn of the web session that is read from its start on, and so those
\* of a run that waits, put a status line in the message first.  The CLI child
\* may find an earlier turn under way.
HasStatus(u, k, i) == u.s = Web /\ EndsBefore(i) + 1 >= children[k].until

\* processParentEvent and processEvent, on the run.
Processed(u, k, i) ==
    LET only == log[i].what = "silent" /\ (~u.parts \/ u.silent = k)
        v == CASE HasStatus(u, k, i) -> Emitted(u)
               [] ~HasStatus(u, k, i) /\ log[i].what = "end" ->
                    [TextClosed(u, k) EXCEPT !.persists = TRUE]
               [] ~HasStatus(u, k, i) /\ log[i].what # "end" ->
                    [Emitted(u) EXCEPT !.silent = IF only THEN k ELSE None]
    IN  [v EXCEPT !.seq = IF i > @ THEN i ELSE @, !.seen = Append(@, i)]

\* The rest of it: the result of sessions_spawn starts a run for the subagent.
Spawning(i, rs, cs) ==
    LET s == log[i].what
    IN  IF s \in Subs /\ entry[s] = None
        THEN StartSubscribe(s, rs, cs, FALSE)
        ELSE runs' = rs /\ children' = cs /\ UNCHANGED entry

\* A line of the CLI child, also after the run was stopped.
CliLine(k, i) ==
    /\ children[k].cli /\ children[k].state # "closed" /\ IsNext(k, i)
    /\ LET r == children[k].run
       IN  Spawning(i, [runs EXCEPT ![r] = Processed(@, k, i)], Read(k, i))
    /\ UNCHANGED <<log, turns, registry, restarts, inputs, hurried>>

\* Mutant: an event that was seen before is processed again.
IsNewOrLast(u, i) == i >= u.seq

\* globalSeq is beyond the cursor.
IsNew(u, i) == i > u.seq

\* processParentSubscribeEvent: the end of a turn ends the run if no subagent
\* is at work any more (finalizeWaitingRun).
WebLine(k, i) ==
    /\ ~children[k].cli /\ children[k].state # "closed" /\ IsNext(k, i)
    /\ LET r == children[k].run
           u == runs[r]
           v == Processed(u, k, i)
       IN  /\ u.s = Web
           /\ CASE ~IsNew(u, i) -> runs' = runs /\ children' = Read(k, i) /\ UNCHANGED entry
                [] IsNew(u, i) /\ log[i].what # "end" ->
                     Spawning(i, [runs EXCEPT ![r] = v], Read(k, i))
                [] IsNew(u, i) /\ log[i].what = "end" ->
                     /\ IF HasRunningSubagents
                        THEN runs' = [runs EXCEPT ![r] = Flushed(Emitted(v))] /\ children' = Read(k, i)
                        ELSE IF u.status # "waiting"
                        THEN runs' = [runs EXCEPT ![r] = v] /\ children' = Read(k, i)
                        ELSE /\ runs' = [runs EXCEPT ![r] = Finished(v, "completed")]
                             /\ children' = Killed(Read(k, i), u.sub)
                     /\ UNCHANGED entry
           /\ hurried' = \/ hurried
                         \/ /\ IsNew(u, i) /\ u.status = "waiting" /\ IsLast(i)
                            /\ \/ log[i].what = "fail"
                               \/ log[i].what = "end" /\ HasRunningSubagents
    /\ UNCHANGED <<log, turns, registry, restarts, inputs>>

\* The line handler of wireSubscribeOnlyProcess: the end of a turn sets the
\* finalize timer; a failure ends the run, unless an error was reported to
\* the same child before (agentErrorReported).
SubagentLine(k, i, reported) ==
    /\ ~children[k].cli /\ children[k].state # "closed" /\ IsNext(k, i)
    /\ LET r == children[k].run
           u == runs[r]
           v == Processed(u, k, i)
           fails == log[i].what = "fail" /\ ~reported /\ u.status = "running"
       IN  /\ u.s \in Subs /\ (reported => log[i].what = "fail")
           /\ runs' = [runs EXCEPT ![r] =
                CASE ~IsNew(u, i) -> u
                  [] IsNew(u, i) /\ log[i].what = "end" -> [v EXCEPT !.ended = TRUE, !.finalizes = TRUE]
                  [] IsNew(u, i) /\ fails -> [Finished(v, "error") EXCEPT !.finalizes = FALSE]
                  [] IsNew(u, i) /\ log[i].what # "end" /\ ~fails -> v]
           /\ children' = IF IsNew(u, i) /\ fails THEN Killed(Read(k, i), u.sub) ELSE Read(k, i)
           /\ hurried' = \/ hurried
                         \/ /\ IsNew(u, i) /\ u.status = "running"
                            /\ log[i].what = "fail" /\ reported
    /\ UNCHANGED <<log, turns, registry, entry, restarts, inputs>>

-----------------------------------------------------------------------------
(* Ends of the children, and timers.                                       *)

Closed(cs, k) == [cs EXCEPT ![k] = [@ EXCEPT !.state = "closed", !.pos = 0, !.until = 0]]

\* The CLI child has printed the end of its own turn.
IsServed(k) == EndsBefore(children[k].pos + 1) >= children[k].until

\* The child of r that closes no longer holds up a SIGKILL.
Unlinked(u, k) == [u EXCEPT !.kills = IF @ = k THEN None ELSE @,
                            !.sub = IF @ = k THEN None ELSE @]

\* everSentText: the child has printed text or an error.
SentText(u) == \E n \in DOMAIN u.seen : log[u.seen[n]].what \in Said \union {"fail"}

\* The close handler of wireChildProcess.  A child that is killed by a signal
\* counts as clean.  A text is put in if there was none, or for an error on
\* stderr; otherwise the text is closed.  With subagents at work the run waits
\* (startParentSubscribeStream).
CliCloses(k, clean, puts) ==
    /\ children[k].cli /\ children[k].state # "closed"
    /\ ~puts => SentText(runs[children[k].run])
    /\ IF children[k].state = "killed" \/ (IsServed(k) /\ clean)
       THEN UNCHANGED inputs
       ELSE Input
    /\ LET r == children[k].run
           u == Unlinked(runs[r], k)
           v == IF puts THEN Emitted(u) ELSE TextClosed(u, k)
       IN  IF u.status # "running"
           THEN runs' = [runs EXCEPT ![r] = u] /\ children' = Closed(children, k) /\ UNCHANGED hurried
           ELSE IF clean /\ HasRunningSubagents
           THEN /\ HasRoomFor(1, 0)
                /\ children' = Append(Closed(children, k), NewChild(r, FALSE, u.seq, 0))
                /\ runs' = [runs EXCEPT ![r] =
                     [Flushed([Emitted(v) EXCEPT !.status = "waiting"]) EXCEPT !.sub = Len(children')]]
                /\ hurried' = (hurried \/ IsLast(u.seq))
           ELSE /\ children' = Closed(children, k)
                /\ runs' = [runs EXCEPT ![r] = Finished(v, IF clean THEN "completed" ELSE "error")]
                /\ UNCHANGED hurried
    /\ UNCHANGED <<log, turns, registry, entry, restarts>>

\* The error handler of wireChildProcess: the child could not be spawned.
CliFails(k) ==
    /\ Input
    /\ children[k].cli /\ children[k].state = "up"
    /\ LET u == runs[children[k].run]
       IN  /\ u.status = "running" /\ u.seen = <<>>
           /\ runs' = [runs EXCEPT ![children[k].run] = Finished(Emitted(u), "error")]
    /\ children' = Closed(children, k)
    /\ UNCHANGED <<log, turns, registry, entry, restarts, hurried>>

\* The close handlers of the subscriptions: killed ones end, others by a fault.
SubscriptionCloses(k) ==
    /\ ~children[k].cli /\ children[k].state # "closed"
    /\ IF children[k].state = "killed" THEN UNCHANGED inputs
       ELSE Input
    /\ LET r == children[k].run
           u == Unlinked(runs[r], k)
       IN  IF Follows(u) /\ u.ended
           THEN /\ runs' = [runs EXCEPT ![r] = [Finished(u, "completed") EXCEPT !.finalizes = FALSE]]
                /\ children' = Killed(Closed(children, k), u.sub)
                /\ UNCHANGED restarts
           ELSE /\ runs' = [runs EXCEPT ![r] = u]
                /\ children' = Closed(children, k)
                /\ restarts' = IF Follows(u) THEN restarts \union {r} ELSE restarts
    /\ UNCHANGED <<log, turns, registry, entry, hurried>>

\* Mutant: the timer does not look whether the run has a subscription again.
ResumesAnyway(u) == Follows(u)

\* The subscription is still wanted and still missing.
Resumes(u) == u.sub = None /\ Follows(u)

\* The timer of 300 ms after a subscription has closed.
Restart(r) ==
    /\ r \in restarts /\ restarts' = restarts \ {r}
    /\ LET u == runs[r]
       IN  IF ~Resumes(u)
           THEN UNCHANGED <<runs, children>>
           ELSE /\ HasRoomFor(1, 0)
                /\ children' = Append(children, NewChild(r, FALSE, u.seq, 0))
                /\ runs' = [runs EXCEPT ![r].sub = Len(children'),
                                        ![r].child = IF u.s = Web THEN @ ELSE Len(children')]
    /\ UNCHANGED <<log, turns, registry, entry, inputs, hurried>>

\* The timer of 5 s after the end of a subagent's turn: finalizeSubscribeRun.
Finalize(r) ==
    /\ runs[r].finalizes
    /\ LET u == [runs[r] EXCEPT !.finalizes = FALSE]
       IN  IF u.status = "running"
           THEN /\ runs' = [runs EXCEPT ![r] = Finished(u, "completed")]
                /\ children' = Killed(children, u.sub)
           ELSE runs' = [runs EXCEPT ![r] = u] /\ UNCHANGED children
    /\ UNCHANGED <<log, turns, registry, entry, restarts, inputs, hurried>>

\* The timer of schedulePersist.
Persist(r) ==
    /\ runs[r].persists
    /\ runs' = [runs EXCEPT ![r] = Flushed(@)]
    /\ UNCHANGED <<log, turns, registry, entry, children, restarts, inputs, hurried>>

\* Mutant: the timer does not look whose entry it removes.
IsSomeEntry(r) == entry[runs[r].s] # None

\* activeRuns.get(sessionId) === run
IsEntry(r) == entry[runs[r].s] = r

\* A grace period is over: cleanupRun, if the run still is its session's.
CleanUp(r) ==
    /\ runs[r].cleanups > 0
    /\ LET q  == entry[runs[r].s]
           rs == [runs EXCEPT ![r].cleanups = @ - 1]
       IN  IF IsEntry(r)
           THEN /\ runs' = Removed(rs, q)
                /\ children' = Killed(children, runs[q].sub)
                /\ entry' = [entry EXCEPT ![runs[r].s] = None]
           ELSE runs' = rs /\ UNCHANGED <<entry, children>>
    /\ UNCHANGED <<log, turns, registry, restarts, inputs, hurried>>

\* The SIGKILL of abortRun goes to the run's child of that moment.
Kill(r) ==
    /\ runs[r].kills # None
    /\ runs' = [runs EXCEPT ![r].kills = None]
    /\ children' = Killed(children, runs[r].child)
    /\ UNCHANGED <<log, turns, registry, entry, restarts, inputs, hurried>>

-----------------------------------------------------------------------------
(* The gateway: the turns of the agents, and the registry of subagents.    *)

Printed(s, what) ==
    /\ Len(log) < MaxEvents /\ inputs + Len(log) < MaxBoth
    /\ log' = Append(log, [s |-> s, what |-> what])

\* spawnSubagentDirect, called by the agent of the web session, with
\* registerSubagentRun; the tool result is printed.
Spawn(s) ==
    /\ turns[Web] > 0 /\ registry[s] = "none"
    /\ Printed(Web, s)
    /\ registry' = [registry EXCEPT ![s] = "running"]
    /\ turns' = [turns EXCEPT ![s] = @ + 1]
    /\ UNCHANGED <<runs, entry, children, restarts, inputs, hurried>>

\* The agent of s says something.
Say(s, what) ==
    /\ turns[s] > 0
    /\ Printed(s, what)
    /\ UNCHANGED <<turns, registry, runs, entry, children, restarts, inputs, hurried>>

\* The lifecycle event that ends the turn of s.
EndTurn(s, what) ==
    /\ turns[s] > 0
    /\ IF what = "fail" THEN Input ELSE UNCHANGED inputs
    /\ Printed(s, what)
    /\ turns' = [turns EXCEPT ![s] = @ - 1]
    /\ UNCHANGED <<registry, runs, entry, children, restarts, hurried>>

\* completeSubagentRun, on the first end of a turn of s, or when agent.wait
\* times out before it.
Complete(s) ==
    /\ registry[s] = "running"
    /\ IF Ends(s) > 0 THEN UNCHANGED inputs ELSE Input
    /\ registry' = [registry EXCEPT ![s] = "due"]
    /\ UNCHANGED <<log, turns, runs, entry, children, restarts, hurried>>

\* The first turn of s is over, or may not have begun: none is under way that
\* has to settle.
Settled(s) == Ends(s) > 0 \/ \A i \in DOMAIN log : log[i].s # s

\* runSubagentAnnounceFlow, once the subagent has settled: the gateway accepts
\* the announcement (sendSubagentAnnounceDirectly), for a turn of the web
\* session.  That the call may time out after this, and be made again, changes
\* nothing: it has the same idempotency key.
AnnounceDirectly(s) ==
    /\ registry[s] = "due" /\ Settled(s)
    /\ registry' = [registry EXCEPT ![s] = "over"]
    /\ turns' = [turns EXCEPT ![Web] = @ + 1]
    /\ UNCHANGED <<log, runs, entry, children, restarts, inputs, hurried>>

\* The same if the call has failed and the web session has a turn under way:
\* its agent is told in this turn, or the announcement is queued
\* (maybeQueueSubagentAnnounce).
AnnounceInstead(s, steered) ==
    /\ Input
    /\ registry[s] = "due" /\ Settled(s) /\ turns[Web] > 0
    /\ registry' = [registry EXCEPT ![s] = IF steered THEN "over" ELSE "queued"]
    /\ UNCHANGED <<log, turns, runs, entry, children, restarts, hurried>>

\* The drain of the announce queue sends some of them, for one turn; when the
\* call fails it tries again.
SendQueued(S) ==
    /\ S # {} /\ \A s \in S : registry[s] = "queued"
    /\ registry' = [s \in Subs |-> IF s \in S THEN "over" ELSE registry[s]]
    /\ turns' = [turns EXCEPT ![Web] = @ + 1]
    /\ UNCHANGED <<log, runs, entry, children, restarts, inputs, hurried>>

\* finalizeSubagentCleanup, after the last attempt: the calls have failed, or
\* another turn of the subagent was under way each time.
GiveUp(s) ==
    /\ registry[s] = "due"
    /\ IF turns[s] > 0 THEN UNCHANGED inputs ELSE Input
    /\ registry' = [registry EXCEPT ![s] = "over"]
    /\ hurried' = (hurried \/ turns[Web] = 0)
    /\ UNCHANGED <<log, turns, runs, entry, children, restarts>>

\* killSubagentRun, called by the agent of the web session: the end of the
\* aborted turn is not announced (markSubagentRunTerminated).
Terminate(s) ==
    /\ Input
    /\ turns[Web] > 0 /\ registry[s] = "running"
    /\ registry' = [registry EXCEPT ![s] = "over"]
    /\ UNCHANGED <<log, turns, runs, entry, children, restarts, hurried>>

-----------------------------------------------------------------------------
Request ==
    \/ Start
    \/ \E s \in Subs : FollowUp(s)
    \/ \E s \in Subs : Watch(s)
    \/ \E s \in Sessions : Stop(s)

ChildStep ==
    \E k \in DOMAIN children :
      \/ \E i \in Unread(k) : \/ CliLine(k, i) \/ WebLine(k, i)
                                \/ \E reported \in BOOLEAN : SubagentLine(k, i, reported)
      \/ \E clean, puts \in BOOLEAN : CliCloses(k, clean, puts)
      \/ CliFails(k)
      \/ SubscriptionCloses(k)

Timer ==
    \E r \in DOMAIN runs :
      Restart(r) \/ Finalize(r) \/ Persist(r) \/ CleanUp(r) \/ Kill(r)

Gateway ==
    \/ \E s \in Subs : \/ Spawn(s) \/ Complete(s) \/ AnnounceDirectly(s)
                       \/ \E steered \in BOOLEAN : AnnounceInstead(s, steered)
                       \/ GiveUp(s) \/ Terminate(s)
    \/ \E S \in SUBSET Subs : SendQueued(S)
    \/ \E s \in Sessions, what \in Said : Say(s, what)
    \/ \E s \in Sessions, what \in Over : EndTurn(s, what)

Next == Request \/ ChildStep \/ Timer \/ Gateway

Spec == Init /\ [][Next]_vars
-----------------------------------------------------------------------------
(* Properties.                                                             *)

\* A run processes the events of its session once each, in order and without
\* a gap, across the CLI child, the subscriptions that follow it, their
\* restarts and children that go on printing after they were stopped.
EventsOnce ==
    \A r \in DOMAIN runs :
      LET e == runs[r].seen
      IN  \A n \in 1 .. Len(e) - 1 :
            /\ e[n] < e[n + 1]
            /\ \A i \in e[n] + 1 .. e[n + 1] - 1 : log[i].s # runs[r].s

\* A run has one child process at a time, those apart that were told to stop.
OneLiveChild ==
    \A r \in DOMAIN runs :
      Cardinality({k \in DOMAIN children : children[k].run = r /\ children[k].state = "up"}) <= 1

\* Whichever way a run finishes, its message is not left marked as streaming,
\* whatever children print and timers save after it, but for a message that a
\* silent reply was taken out of and left empty.
FinishedIsSaved ==
    \A r \in DOMAIN runs : ~IsActive(runs[r]) /\ runs[r].streaming => runs[r].silenced

\* Requests find the run that is active: grace periods and the start of the
\* next run remove no active run, but for one that was reactivated.
ActiveIsFound ==
    \A r \in DOMAIN runs :
      IsActive(runs[r]) /\ ~runs[r].revived => entry[runs[r].s] = r

\* Nothing is on its way to the web application any more.
Quiet ==
    /\ \A s \in Sessions : turns[s] = 0
    /\ \A s \in Subs : registry[s] \in {"none", "over"}
    /\ restarts = {}
    /\ \A k \in DOMAIN children :
         children[k].state = "closed" \/ (children[k].state = "up" /\ ~children[k].cli /\ Unread(k) = {})
    /\ \A r \in DOMAIN runs : ~runs[r].finalizes

\* "Called when the last subagent finishes and the parent's
\* announcement-triggered turn completes" (finalizeWaitingRun).
NobodyWaitsInVain == Quiet => \A r \in DOMAIN runs : runs[r].status # "waiting"

\* The same and more, however results are announced: late, in a turn of its
\* own, one for several, in the turn that is under way, or not at all after a
\* kill.  Left out is the run that has let its last event pass: the failure of
\* a turn it waits for, or its end while the run of a subagent has not been
\* finalized; a failure after another error of the subagent; and the
\* announcement that was given up.
QuietIsFinished == Quiet /\ ~hurried => \A r \in DOMAIN runs : ~IsActive(runs[r])

-----------------------------------------------------------------------------
(* The inductive invariant, in parts about runs rs, children cs, the map en *)
(* and the log lg.                                                          *)

Shaped(rs, cs, en) ==
    /\ rs \in Seq(Run) /\ Len(rs) <= MaxRuns
    /\ cs \in Seq(Child) /\ Len(cs) <= MaxChildren
    /\ en \in [Sessions -> Nat]

\* A subscription is closed or told to stop before the run forgets it, and a
\* web run has none before its CLI child has closed.
RunLinks(r, rs, cs) ==
    LET u == rs[r]
    IN  /\ {u.child, u.sub, u.kills} \subseteq DOMAIN cs \union {None} /\ u.child # None
        /\ u.sub # None => cs[u.sub].run = r /\ ~cs[u.sub].cli
        /\ ~IsActive(u) => u.sub = None
        /\ u.s = Web /\ u.status = "waiting" => cs[u.child].state = "closed"

ChildLinks(k, rs, cs) ==
    LET r == cs[k].run
    IN  /\ r \in DOMAIN rs
        /\ cs[k].cli => rs[r].s = Web /\ rs[r].child = k
        /\ ~cs[k].cli /\ rs[r].s = Web => cs[rs[r].child].state = "closed"
        /\ ~cs[k].cli /\ cs[k].state = "up" => rs[r].sub = k

EntryLinks(s, rs, en) == en[s] # None => en[s] \in DOMAIN rs /\ rs[en[s]].s = s

Linked(rs, cs, en) ==
    /\ Shaped(rs, cs, en)
    /\ \A r \in DOMAIN rs : RunLinks(r, rs, cs)
    /\ \A k \in DOMAIN cs : ChildLinks(k, rs, cs)
    /\ \A s \in Sessions : EntryLinks(s, rs, en)

\* The message in the file is streaming only while the run is active and has
\* parts to save, so that the last save cannot be left out; or it was emptied.
Saved(u) == u.streaming => (u.parts /\ IsActive(u)) \/ u.silenced

\* The grace period of a run begins when it is over.
Found(r, rs, en) ==
    ~rs[r].revived => /\ IsActive(rs[r]) => en[rs[r].s] = r
                      /\ rs[r].cleanups > 0 => ~IsActive(rs[r])

\* The cursor of a run is the last event it has seen ...
Gapless(u, lg) ==
    LET e == u.seen
    IN  \A n \in 1 .. Len(e) - 1 :
          /\ e[n] < e[n + 1]
          /\ \A i \in e[n] + 1 .. e[n + 1] - 1 : lg[i].s # u.s

Cursor(u, lg) ==
    /\ u.seq <= Len(lg)
    /\ u.seen \in Seq(1 .. Len(lg))
    /\ u.seq = IF u.seen = <<>> THEN 0 ELSE u.seen[Len(u.seen)]
    /\ Gapless(u, lg)

\* ... where its CLI child is, and which its subscriptions are not ahead of.
Reads(k, rs, cs, lg) ==
    LET u == rs[cs[k].run]
    IN  cs[k].state # "closed" =>
          /\ cs[k].pos <= Len(lg)
          /\ IF cs[k].cli THEN u.seq <= cs[k].pos /\ u.seq \in {0, cs[k].pos}
                          ELSE cs[k].pos <= u.seq

Consistent(rs, cs, en, lg) ==
    /\ lg \in Seq([s : Sessions, what : What]) /\ Len(lg) <= MaxEvents
    /\ Linked(rs, cs, en)
    /\ \A r \in DOMAIN rs : Saved(rs[r]) /\ Found(r, rs, en) /\ Cursor(rs[r], lg)
    /\ \A k \in DOMAIN cs : Reads(k, rs, cs, lg)

IInv ==
    /\ Consistent(runs, children, entry, log)
    /\ turns \in [Sessions -> Nat]
    /\ registry \in [Subs -> Records]
    /\ restarts \subseteq DOMAIN runs
    /\ inputs \in 0 .. MaxInputs /\ hurried \in BOOLEAN

-----------------------------------------------------------------------------
(* The inductive invariant of QuietIsFinished: what ends an active run is   *)
(* on its way.                                                              *)

\* A run has the child it needs, at least one that was told to stop and will
\* be followed by another, or the timer that starts one.
Attended(r, rs, cs, re) ==
    LET u == rs[r]
    IN  /\ u.status = "waiting" => u.s = Web
        /\ u.s = Web /\ u.status = "running" =>
             LET c == cs[u.child] IN c.run = r /\ c.cli /\ c.state # "closed"
        /\ u.sub # None => cs[u.sub].state # "closed"
        /\ Follows(u) => \/ r \in re
                         \/ \E k \in DOMAIN cs : cs[k].run = r /\ ~cs[k].cli /\ cs[k].state # "closed"

\* A waiting run has something ahead of it.  The run of a subagent has its
\* timer set, or the end of a turn is ahead of it.
Awaits(u, lg, t, reg) ==
    /\ u.status = "waiting" => Ahead(u.seq, lg, t, reg)
    /\ u.s \in Subs /\ u.status = "running" /\ ~u.finalizes =>
         \/ t[u.s] > 0
         \/ \E i \in DOMAIN lg : i > u.seq /\ lg[i].s = u.s /\ lg[i].what \in Over

\* A subagent is at work, or has been ...
Working(s) ==
    registry[s] # "none" =>
      turns[s] > 0 \/ \E i \in DOMAIN log : log[i].s = s /\ log[i].what \in Over

\* ... and what is printed is printed in a turn, whose end comes later.
InTurn(i) ==
    /\ log[i].what \in Subs => log[i].s = Web /\ registry[log[i].what] # "none"
    /\ log[i].s = Web /\ log[i].what \notin Over =>
         turns[Web] > 0 \/ \E j \in DOMAIN log : j > i /\ log[j].s = Web

Announcing ==
    /\ \A s \in Subs : Working(s)
    /\ \A i \in DOMAIN log : InTurn(i)

Heeded(rs, cs, re) == \A r \in DOMAIN rs : Attended(r, rs, cs, re)
Patient(rs, lg, t, reg) == \A r \in DOMAIN rs : Awaits(rs[r], lg, t, reg)

ProgressInv ==
    /\ IInv
    /\ Announcing
    /\ Heeded(runs, children, restarts)
    /\ ~hurried => Patient(runs, log, turns, registry)
=============================================================================
