--------------------------- MODULE CircuitBreaker ---------------------------
(***************************************************************************)
(* CircuitBreakerProvider of src/llm/circuit_breaker.rs and the calls that *)
(* go through it at the same time.  check_allowed, record_success and      *)
(* record_failure each run under the mutex of the state, so each is one    *)
(* step; the call of the inner provider lies between them, unlocked, and   *)
(* its result may be recorded long after it was obtained, or never.        *)
(***************************************************************************)
EXTENDS Integers, FiniteSets

CONSTANTS
  Calls,                       (* concurrent callers                         *)
  failure_threshold,
  recovery_timeout,            (* in ticks                                   *)
  half_open_successes_needed,
  NoInstant                    (* opened_at = None                           *)

ASSUME ConfigAssumption ==
  /\ failure_threshold \in Nat
  /\ recovery_timeout \in Nat
  /\ half_open_successes_needed \in Nat
  /\ NoInstant \notin Nat

VARIABLES
  state,
  consecutive_failures,
  opened_for,           (* time since opened_at, up to the recovery timeout  *)
  half_open_successes,
  call,                 (* how far each caller has come                      *)
  healthy,              (* the backend answers every call, and well          *)
  streak,   (* history: transient failures recorded since the last success, *)
            (* up to the threshold                                           *)
  wins,     (* history: successes recorded half-open since the last opening  *)
  veterans  (* history: calls under way when the circuit last opened         *)

breaker == <<state, consecutive_failures, opened_for, half_open_successes>>
history == <<streak, wins, veterans>>
vars    == <<breaker, call, healthy, history>>

Results  == {"ok", "transient", "client"}
Admitted == {"inner"} \cup Results
Under    == {c \in Calls : call[c] \in Admitted}

TypeOK ==
  /\ state \in {"Closed", "Open", "HalfOpen"}
  /\ consecutive_failures \in Nat
  /\ opened_for \in (0..recovery_timeout) \cup {NoInstant}
  /\ half_open_successes \in Nat
  /\ call \in [Calls -> {"idle", "asking"} \cup Admitted]
  /\ healthy \in BOOLEAN
  /\ streak \in 0..failure_threshold
  /\ wins \in Nat
  /\ veterans \in SUBSET Calls

Init ==
  /\ state = "Closed"
  /\ consecutive_failures = 0
  /\ opened_for = NoInstant
  /\ half_open_successes = 0
  /\ call = [c \in Calls |-> "idle"]
  /\ healthy = TRUE
  /\ streak = 0
  /\ wins = 0
  /\ veterans = {}

-----------------------------------------------------------------------------
(* check_allowed *)

Ask(c) ==
  /\ call[c] = "idle"
  /\ call' = [call EXCEPT ![c] = "asking"]
  /\ UNCHANGED <<breaker, healthy, history>>

(* Mutant: every call that is let through starts the half-open period anew. *)
PassRestartsProof(c) ==
  /\ state # "Open"
  /\ call' = [call EXCEPT ![c] = "inner"]
  /\ half_open_successes' = 0 /\ wins' = 0
  /\ UNCHANGED <<state, consecutive_failures, opened_for, streak, veterans>>

Pass(c) ==
  /\ state # "Open"
  /\ call' = [call EXCEPT ![c] = "inner"]
  /\ UNCHANGED <<breaker, history>>

Reject(c) ==
  /\ state = "Open" /\ opened_for # NoInstant
  /\ opened_for < recovery_timeout
  /\ call' = [call EXCEPT ![c] = "idle"]
  /\ UNCHANGED <<breaker, history>>

(* Mutant: the successes of an earlier half-open period are kept.           *)
ProbeKeepingSuccesses(c) ==
  /\ state = "Open"
  /\ opened_for \in {recovery_timeout, NoInstant}
  /\ call' = [call EXCEPT ![c] = "inner"]
  /\ state' = IF opened_for = NoInstant THEN "Closed" ELSE "HalfOpen"
  /\ UNCHANGED <<consecutive_failures, opened_for, half_open_successes, history>>

(* Mutant: the elapsed time is not looked at.                               *)
ProbeAtOnce(c) ==
  /\ state = "Open"
  /\ call' = [call EXCEPT ![c] = "inner"]
  /\ state' = IF opened_for = NoInstant THEN "Closed" ELSE "HalfOpen"
  /\ half_open_successes' = 0
  /\ UNCHANGED <<consecutive_failures, opened_for, history>>

(* The recovery timeout is over; "recover gracefully" if opened_at is None. *)
Probe(c) ==
  /\ state = "Open"
  /\ opened_for \in {recovery_timeout, NoInstant}
  /\ call' = [call EXCEPT ![c] = "inner"]
  /\ state' = IF opened_for = NoInstant THEN "Closed" ELSE "HalfOpen"
  /\ half_open_successes' =
       IF opened_for = NoInstant THEN half_open_successes ELSE 0
  /\ UNCHANGED <<consecutive_failures, opened_for, history>>

check_allowed(c) ==
  /\ call[c] = "asking"
  /\ Pass(c) \/ Reject(c) \/ Probe(c)
  /\ UNCHANGED healthy

-----------------------------------------------------------------------------
(* record_success *)

Close ==
  /\ state' = "Closed"
  /\ consecutive_failures' = 0
  /\ opened_for' = NoInstant

(* Mutant: the circuit closes with the failures that opened it still        *)
(* counted.                                                                 *)
SuccessKeepsCount(c) ==
  /\ call[c] = "ok"
  /\ \/ /\ state = "Closed"
        /\ consecutive_failures' = 0
        /\ UNCHANGED <<state, opened_for, half_open_successes, wins>>
     \/ /\ state = "HalfOpen"
        /\ half_open_successes' = half_open_successes + 1
        /\ wins' = wins + 1
        /\ IF half_open_successes' >= half_open_successes_needed
             THEN /\ state' = "Closed"
                  /\ opened_for' = NoInstant
                  /\ UNCHANGED consecutive_failures
             ELSE UNCHANGED <<state, consecutive_failures, opened_for>>
     \/ /\ state = "Open"
        /\ Close
        /\ UNCHANGED <<half_open_successes, wins>>
  /\ streak' = 0
  /\ UNCHANGED veterans

record_success(c) ==
  /\ call[c] = "ok"
  /\ \/ /\ state = "Closed"
        /\ consecutive_failures' = 0
        /\ UNCHANGED <<state, opened_for, half_open_successes, wins>>
     \/ /\ state = "HalfOpen"
        /\ half_open_successes' = half_open_successes + 1
        /\ wins' = wins + 1
        /\ IF half_open_successes' >= half_open_successes_needed
             THEN Close
             ELSE UNCHANGED <<state, consecutive_failures, opened_for>>
     \/ /\ state = "Open"          (* "Shouldn't get here"                   *)
        /\ Close
        /\ UNCHANGED <<half_open_successes, wins>>
  /\ streak' = 0
  /\ UNCHANGED veterans

-----------------------------------------------------------------------------
(* record_failure *)

(* Mutant: the instant of the opening is not taken.                         *)
OpenUndated(c) ==
  /\ state' = "Open"
  /\ UNCHANGED opened_for
  /\ wins' = 0
  /\ veterans' = Under \ {c}

Open(c) ==
  /\ state' = "Open"
  /\ opened_for' = 0
  /\ wins' = 0
  /\ veterans' = Under \ {c}

LongerStreak == IF streak < failure_threshold THEN streak + 1 ELSE streak

record_failure(c) ==
  /\ call[c] = "transient"
  /\ \/ /\ state = "Closed"
        /\ consecutive_failures' = consecutive_failures + 1
        /\ IF consecutive_failures' >= failure_threshold
             THEN Open(c)
             ELSE UNCHANGED <<state, opened_for, wins, veterans>>
        /\ UNCHANGED half_open_successes
     \/ /\ state = "HalfOpen"
        /\ Open(c)
        /\ half_open_successes' = 0
        /\ UNCHANGED consecutive_failures
     \/ /\ state = "Open"
        /\ UNCHANGED <<breaker, wins, veterans>>
  /\ streak' = LongerStreak

(* An error that is the caller's fault is not counted.                      *)
IgnoredFailure(c) ==
  /\ call[c] = "client"
  /\ UNCHANGED <<breaker, history>>

Record(c) ==
  /\ record_success(c) \/ record_failure(c) \/ IgnoredFailure(c)
  /\ call' = [call EXCEPT ![c] = "idle"]
  /\ UNCHANGED healthy

-----------------------------------------------------------------------------
(* The inner provider, the callers and the clock *)

Respond(c) ==
  /\ call[c] = "inner"
  /\ \E r \in IF healthy THEN {"ok"} ELSE Results :
       call' = [call EXCEPT ![c] = r]
  /\ UNCHANGED <<breaker, healthy, history>>

(* The future of the call is dropped, at a timeout or a disconnect: nothing *)
(* is recorded.                                                             *)
Abandon(c) ==
  /\ ~healthy
  /\ call[c] # "idle"
  /\ call' = [call EXCEPT ![c] = "idle"]
  /\ UNCHANGED <<breaker, healthy, history>>

BackendChanges ==
  /\ healthy' = ~healthy
  /\ UNCHANGED <<breaker, call, history>>

Tick ==
  /\ opened_for \in 0..recovery_timeout - 1
  /\ opened_for' = opened_for + 1
  /\ UNCHANGED <<state, consecutive_failures, half_open_successes, call,
                 healthy, history>>

Next ==
  \/ \E c \in Calls : \/ Ask(c) \/ check_allowed(c) \/ Respond(c)
                      \/ Record(c) \/ Abandon(c)
  \/ BackendChanges \/ Tick

Spec == Init /\ [][Next]_vars

(* Tasks that can run are run, a provider answers or its client times out,  *)
(* and time passes.  Nobody has to call.                                    *)
FairSpec ==
  /\ Spec
  /\ \A c \in Calls : /\ WF_vars(check_allowed(c))
                      /\ WF_vars(Respond(c))
                      /\ WF_vars(Record(c))
  /\ WF_vars(Tick)

-----------------------------------------------------------------------------
(* Properties *)

(* A closed circuit has counted exactly the transient failures since the    *)
(* last success: neither an earlier outage nor a late result is in it.      *)
StreakCounted == state = "Closed" => consecutive_failures = streak

(* "opened_at should always be Some when Open": the branch of check_allowed *)
(* that closes a circuit without opened_at is never taken.                  *)
OpenHasInstant == state # "Closed" => opened_for # NoInstant

(* A call that is under way while the circuit is open was under way when it *)
(* opened.                                                                  *)
OnlyVeterans == state = "Open" => Under \subseteq veterans

(* The successes that can close the circuit are those of this half-open     *)
(* period.                                                                  *)
ProofCounted ==
  /\ state = "HalfOpen" => half_open_successes = wins
  /\ state = "Open" => wins = 0

(* The inductive invariant.                                                 *)
IInv == /\ TypeOK
        /\ StreakCounted
        /\ OpenHasInstant
        /\ OnlyVeterans
        /\ ProofCounted

(* The circuit opens from closed only after failure_threshold transient     *)
(* failures in a row, whatever order concurrent calls report in.            *)
TripsOnStreak ==
  [][state = "Closed" /\ state' = "Open" => streak' = failure_threshold]_vars

(* A half-open circuit closes only on the successes needed, all recorded    *)
(* since it last opened.                                                    *)
ClosesOnProof ==
  [][state = "HalfOpen" /\ state' = "Closed"
       => wins' >= half_open_successes_needed]_vars

(* An open circuit stays open for the recovery timeout, unless a call from  *)
(* before the opening succeeds late.                                        *)
OpenIsKept ==
  [][state = "Open" /\ state' # "Open" =>
       \/ opened_for = recovery_timeout
       \/ \E c \in veterans : call[c] = "ok" /\ call'[c] = "idle"]_vars

(* Once the backend is healthy for good and everybody keeps calling, the    *)
(* circuit closes for good: no late failure and no dropped probe leaves it  *)
(* open or half-open for ever.                                              *)
Recovers ==
  <>[]healthy /\ (\A c \in Calls : []<>(call[c] = "asking"))
    => <>[](state = "Closed")
=============================================================================
