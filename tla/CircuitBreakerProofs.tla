----------------------- MODULE CircuitBreakerProofs ------------------------
(***************************************************************************)
(* Proofs about CircuitBreaker, for any callers and any configuration.     *)
(*                                                                         *)
(* IInv is inductive.  StreakCounted needs OpenHasInstant: the branch of   *)
(* check_allowed that finds no instant would close the circuit without     *)
(* resetting its count.  ProofCounted and OnlyVeterans tie the state to    *)
(* the history of which the action properties speak.                       *)
(***************************************************************************)
EXTENDS CircuitBreaker, TLAPS

LEMMA InitInv == Init => IInv
<1> USE ConfigAssumption
<1> SUFFICES ASSUME Init PROVE IInv
  OBVIOUS
<1>1. TypeOK
  BY DEF Init, TypeOK
<1> QED
  BY <1>1 DEF Init, IInv, StreakCounted, OpenHasInstant, OnlyVeterans,
              ProofCounted

(* A step that changes neither the breaker nor its history, and starts no   *)
(* call, keeps the invariant.                                               *)
LEMMA OutsideStep ==
  ASSUME IInv, UNCHANGED <<breaker, history>>,
         call' \in [Calls -> {"idle", "asking"} \cup Admitted],
         healthy' \in BOOLEAN, state = "Open" => Under' \subseteq Under
  PROVE  IInv'
<1>1. TypeOK'
  BY DEF IInv, TypeOK, breaker, history
<1>2. OnlyVeterans'
  BY DEF IInv, OnlyVeterans, breaker, history
<1> QED
  BY <1>1, <1>2 DEF IInv, StreakCounted, OpenHasInstant, ProofCounted,
                    breaker, history

LEMMA CheckStep ==
  ASSUME IInv, NEW c \in Calls, check_allowed(c)
  PROVE  IInv'
<1>1. call[c] = "asking" /\ UNCHANGED healthy
  BY DEF check_allowed
<1>2. CASE Pass(c)
  <2>1. UNCHANGED <<breaker, history>> /\ state # "Open"
    BY <1>2 DEF Pass
  <2>2. call' \in [Calls -> {"idle", "asking"} \cup Admitted]
    BY <1>2 DEF Pass, IInv, TypeOK, Admitted
  <2> QED
    BY <1>1, <2>1, <2>2, OutsideStep DEF IInv, TypeOK
<1>3. CASE Reject(c)
  <2>1. UNCHANGED <<breaker, history>>
    BY <1>3 DEF Reject
  <2>2. call' \in [Calls -> {"idle", "asking"} \cup Admitted]
    BY <1>3 DEF Reject, IInv, TypeOK
  <2>3. Under' \subseteq Under
    BY <1>3 DEF Reject, IInv, TypeOK, Under, Admitted, Results
  <2> QED
    BY <1>1, <2>1, <2>2, <2>3, OutsideStep DEF IInv, TypeOK
<1>4. CASE Probe(c)
  <2>1. opened_for # NoInstant
    BY <1>4 DEF Probe, IInv, OpenHasInstant
  <2>2. state' = "HalfOpen" /\ half_open_successes' = 0
    BY <1>4, <2>1 DEF Probe
  <2>3. wins' = 0
    BY <1>4 DEF Probe, IInv, ProofCounted, history
  <2>4. TypeOK'
    BY <1>1, <1>4, <2>2 DEF Probe, IInv, TypeOK, Admitted, history
  <2> QED
    BY <1>4, <2>1, <2>2, <2>3, <2>4
    DEF Probe, IInv, StreakCounted, OpenHasInstant, OnlyVeterans,
        ProofCounted
<1> QED
  BY <1>2, <1>3, <1>4 DEF check_allowed

LEMMA SuccessStep ==
  ASSUME IInv, NEW c \in Calls, record_success(c),
         call' = [call EXCEPT ![c] = "idle"], UNCHANGED healthy
  PROVE  IInv'
<1> USE ConfigAssumption
<1>1. call' \in [Calls -> {"idle", "asking"} \cup Admitted]
  BY DEF IInv, TypeOK
<1>2. Under' \subseteq Under
  BY DEF IInv, TypeOK, Under, Admitted, Results
<1>3. TypeOK'
  BY <1>1 DEF record_success, Close, IInv, TypeOK
<1>4. StreakCounted'
  BY DEF record_success, Close, IInv, TypeOK, StreakCounted
<1>5. OpenHasInstant'
  BY DEF record_success, Close, IInv, TypeOK, OpenHasInstant
<1>6. OnlyVeterans'
  BY <1>2 DEF record_success, Close, IInv, TypeOK, OnlyVeterans
<1>7. ProofCounted'
  BY DEF record_success, Close, IInv, TypeOK, ProofCounted
<1> QED
  BY <1>3, <1>4, <1>5, <1>6, <1>7 DEF IInv

LEMMA FailureStep ==
  ASSUME IInv, NEW c \in Calls, record_failure(c),
         call' = [call EXCEPT ![c] = "idle"], UNCHANGED healthy
  PROVE  IInv'
<1> USE ConfigAssumption
<1>1. call' \in [Calls -> {"idle", "asking"} \cup Admitted]
  BY DEF IInv, TypeOK
<1>2. Under' \subseteq Under \ {c}
  BY DEF IInv, TypeOK, Under, Admitted, Results
<1>3. TypeOK'
  <2>1. streak' \in 0..failure_threshold
    BY DEF record_failure, LongerStreak, IInv, TypeOK
  <2>2. veterans' \in SUBSET Calls
    BY DEF record_failure, Open, Under, breaker, IInv, TypeOK
  <2> QED
    BY <1>1, <2>1, <2>2 DEF record_failure, Open, breaker, IInv, TypeOK
<1>4. StreakCounted'
  BY DEF record_failure, Open, LongerStreak, breaker, IInv, TypeOK,
         StreakCounted
<1>5. OpenHasInstant'
  BY DEF record_failure, Open, breaker, IInv, TypeOK, OpenHasInstant
<1>6. OnlyVeterans'
  BY <1>2 DEF record_failure, Open, breaker, IInv, TypeOK, OnlyVeterans
<1>7. ProofCounted'
  BY DEF record_failure, Open, breaker, IInv, TypeOK, ProofCounted
<1> QED
  BY <1>3, <1>4, <1>5, <1>6, <1>7 DEF IInv

LEMMA TickStep ==
  ASSUME IInv, Tick
  PROVE  IInv'
<1> USE ConfigAssumption
<1>1. TypeOK'
  BY DEF Tick, IInv, TypeOK, history
<1>2. OpenHasInstant'
  BY DEF Tick, IInv, TypeOK, OpenHasInstant
<1>3. Under' = Under
  BY DEF Tick, Under
<1> QED
  BY <1>1, <1>2, <1>3
  DEF Tick, IInv, StreakCounted, OnlyVeterans, ProofCounted, history

LEMMA NextStep ==
  ASSUME IInv, [Next]_vars
  PROVE  IInv'
<1>1. ASSUME NEW c \in Calls, Ask(c)
      PROVE  IInv'
  <2>1. call' \in [Calls -> {"idle", "asking"} \cup Admitted]
    BY <1>1 DEF Ask, IInv, TypeOK
  <2>2. Under' \subseteq Under
    BY <1>1 DEF Ask, IInv, TypeOK, Under, Admitted, Results
  <2> QED
    BY <1>1, <2>1, <2>2, OutsideStep DEF Ask, IInv, TypeOK
<1>2. ASSUME NEW c \in Calls, check_allowed(c)
      PROVE  IInv'
  BY <1>2, CheckStep
<1>3. ASSUME NEW c \in Calls, Respond(c)
      PROVE  IInv'
  <2>1. PICK r \in Results : call' = [call EXCEPT ![c] = r]
    BY <1>3 DEF Respond, Results
  <2>2. call' \in [Calls -> {"idle", "asking"} \cup Admitted]
    BY <2>1 DEF IInv, TypeOK, Admitted
  <2>3. Under' \subseteq Under
    BY <1>3, <2>1 DEF Respond, IInv, TypeOK, Under, Admitted
  <2> QED
    BY <1>3, <2>2, <2>3, OutsideStep DEF Respond, IInv, TypeOK
<1>4. ASSUME NEW c \in Calls, Record(c)
      PROVE  IInv'
  <2>1. call' = [call EXCEPT ![c] = "idle"] /\ UNCHANGED healthy
    BY <1>4 DEF Record
  <2>2. CASE record_success(c)
    BY <2>1, <2>2, SuccessStep
  <2>3. CASE record_failure(c)
    BY <2>1, <2>3, FailureStep
  <2>4. CASE IgnoredFailure(c)
    <3>1. call' \in [Calls -> {"idle", "asking"} \cup Admitted]
      BY <2>1 DEF IInv, TypeOK
    <3>2. Under' \subseteq Under
      BY <2>1 DEF IInv, TypeOK, Under, Admitted, Results
    <3> QED
      BY <2>1, <2>4, <3>1, <3>2, OutsideStep DEF IgnoredFailure, IInv, TypeOK
  <2> QED
    BY <1>4, <2>2, <2>3, <2>4 DEF Record
<1>5. ASSUME NEW c \in Calls, Abandon(c)
      PROVE  IInv'
  <2>1. call' \in [Calls -> {"idle", "asking"} \cup Admitted]
    BY <1>5 DEF Abandon, IInv, TypeOK
  <2>2. Under' \subseteq Under
    BY <1>5 DEF Abandon, IInv, TypeOK, Under, Admitted, Results
  <2> QED
    BY <1>5, <2>1, <2>2, OutsideStep DEF Abandon, IInv, TypeOK
<1>6. CASE BackendChanges
  <2>1. UNCHANGED call /\ healthy' \in BOOLEAN /\ UNCHANGED <<breaker, history>>
    BY <1>6 DEF BackendChanges, IInv, TypeOK
  <2>2. Under' = Under /\ call \in [Calls -> {"idle", "asking"} \cup Admitted]
    BY <2>1 DEF Under, IInv, TypeOK
  <2> QED
    BY <2>1, <2>2, OutsideStep
<1>7. CASE Tick
  BY <1>7, TickStep
<1>8. CASE UNCHANGED vars
  <2>1. UNCHANGED <<breaker, history>> /\ UNCHANGED call /\ UNCHANGED healthy
    BY <1>8 DEF vars
  <2>2. Under' = Under
    BY <2>1 DEF Under
  <2> QED
    BY <2>1, <2>2, OutsideStep DEF IInv, TypeOK
<1> QED
  BY <1>1, <1>2, <1>3, <1>4, <1>5, <1>6, <1>7, <1>8 DEF Next

(* The inductive invariant of the breaker: what a closed circuit has        *)
(* counted, that an open one knows when it opened, and which calls can      *)
(* still report to it.                                                      *)
THEOREM Invariance == Spec => []IInv
BY InitInv, NextStep, PTL DEF Spec

(* record_failure trips the circuit on failure_threshold failures in a row, *)
(* in whatever order concurrent calls report.                               *)
THEOREM TripOnlyOnStreak == Spec => TripsOnStreak
<1>1. IInv /\ [Next]_vars =>
        (state = "Closed" /\ state' = "Open" => streak' = failure_threshold)
  <2> USE ConfigAssumption
  <2> SUFFICES ASSUME IInv, [Next]_vars, state = "Closed", state' = "Open"
               PROVE  streak' = failure_threshold
    OBVIOUS
  <2>1. PICK c \in Calls : record_failure(c)
    BY DEF Next, vars, breaker, Ask, check_allowed, Pass, Reject, Probe, Respond,
           Record, record_success, Close, IgnoredFailure, Abandon,
           BackendChanges, Tick
  <2> QED
    BY <2>1 DEF record_failure, LongerStreak, IInv, TypeOK, StreakCounted
<1> QED
  BY <1>1, Invariance, PTL DEF Spec, TripsOnStreak

(* record_success closes a half-open circuit on successes of this half-open *)
(* period only: none is left over from an earlier one.                      *)
THEOREM CloseOnlyOnProof == Spec => ClosesOnProof
<1>1. IInv /\ [Next]_vars =>
        (state = "HalfOpen" /\ state' = "Closed"
           => wins' >= half_open_successes_needed)
  <2> USE ConfigAssumption
  <2> SUFFICES ASSUME IInv, [Next]_vars, state = "HalfOpen", state' = "Closed"
               PROVE  wins' >= half_open_successes_needed
    OBVIOUS
  <2>1. PICK c \in Calls : record_success(c)
    BY DEF Next, vars, breaker, Ask, check_allowed, Pass, Reject, Probe, Respond,
           Record, record_failure, Open, IgnoredFailure, Abandon,
           BackendChanges, Tick
  <2> QED
    BY <2>1 DEF record_success, IInv, TypeOK, ProofCounted
<1> QED
  BY <1>1, Invariance, PTL DEF Spec, ClosesOnProof

(* check_allowed admits nothing before the recovery timeout, so only the    *)
(* success of a call from before the opening can cut it short.              *)
THEOREM OpenUntilTimeout == Spec => OpenIsKept
<1>1. IInv /\ [Next]_vars =>
        (state = "Open" /\ state' # "Open" =>
           \/ opened_for = recovery_timeout
           \/ \E c \in veterans : call[c] = "ok" /\ call'[c] = "idle")
  <2> SUFFICES ASSUME IInv, [Next]_vars, state = "Open", state' # "Open"
               PROVE  \/ opened_for = recovery_timeout
                      \/ \E c \in veterans : call[c] = "ok" /\ call'[c] = "idle"
    OBVIOUS
  <2>1. PICK c \in Calls : \/ check_allowed(c) /\ Probe(c)
                           \/ Record(c) /\ record_success(c)
    BY DEF Next, vars, breaker, Ask, check_allowed, Pass, Reject, Respond,
           Record, record_failure, IgnoredFailure, Abandon, BackendChanges, Tick
  <2>2. CASE Probe(c)
    BY <2>2 DEF Probe, IInv, OpenHasInstant
  <2>3. CASE Record(c) /\ record_success(c)
    <3>1. call[c] = "ok" /\ call'[c] = "idle"
      BY <2>3 DEF Record, record_success, IInv, TypeOK
    <3>2. c \in veterans
      BY <3>1 DEF IInv, OnlyVeterans, Under, Admitted, Results
    <3> QED
      BY <3>1, <3>2
  <2> QED
    BY <2>1, <2>2, <2>3
<1> QED
  BY <1>1, Invariance, PTL DEF Spec, OpenIsKept
=============================================================================
