----------------------------- MODULE JobStates -----------------------------
(***************************************************************************)
(* The state machine of one agent job: the enumeration JobState and its    *)
(* three predicates (src/src/context/state.rs).  "Absent" is not a state   *)
(* of the code: it stands for an identifier no context was created for.    *)
(***************************************************************************)

JobState == {"Pending", "InProgress", "Completed", "Submitted", "Accepted",
             "Failed", "Stuck", "Cancelled"}

(* Mutant: a completed job may still be cancelled. *)
TransitionsCancelCompleted ==
  { <<"Pending", "InProgress">>,    <<"Pending", "Cancelled">>,
    <<"InProgress", "Completed">>,  <<"InProgress", "Failed">>,
    <<"InProgress", "Stuck">>,      <<"InProgress", "Cancelled">>,
    <<"Completed", "Submitted">>,   <<"Completed", "Cancelled">>,
    <<"Completed", "Failed">>,
    <<"Submitted", "Accepted">>,    <<"Submitted", "Failed">>,
    <<"Stuck", "InProgress">>,      <<"Stuck", "Failed">>,
    <<"Stuck", "Cancelled">> }

(* The pairs JobState::can_transition_to matches. *)
Transitions ==
  { <<"Pending", "InProgress">>,    <<"Pending", "Cancelled">>,
    <<"InProgress", "Completed">>,  <<"InProgress", "Failed">>,
    <<"InProgress", "Stuck">>,      <<"InProgress", "Cancelled">>,
    <<"Completed", "Submitted">>,   <<"Completed", "Failed">>,
    <<"Submitted", "Accepted">>,    <<"Submitted", "Failed">>,
    <<"Stuck", "InProgress">>,      <<"Stuck", "Failed">>,
    <<"Stuck", "Cancelled">> }

CanTransition(from, to) == <<from, to>> \in Transitions

Terminal == {"Accepted", "Failed", "Cancelled"}

(* is_active is the negation of is_terminal: a Completed job is active. *)
IsActive(s) == s \in JobState \ Terminal
=============================================================================
