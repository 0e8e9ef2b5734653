------------------------------ MODULE JobBoard ------------------------------
(***************************************************************************)
(* What the job subsystem promises about the state of its jobs, without    *)
(* workers, scheduler or database: which lives a job can have.  It is      *)
(* stricter than JobState::can_transition_to: a job starts once, recovers  *)
(* at most once, Completed, Failed and Cancelled are for good, a stuck job *)
(* never fails, and no more than Limit jobs are active at a time.          *)
(***************************************************************************)
EXTENDS Naturals, FiniteSets, JobStates

CONSTANTS Jobs,    (* the jobs that can be admitted                         *)
          Limit    (* how many may be active                                *)

VARIABLES phase,     (* the state of each job, "Absent" before it is admitted *)
          recovered  (* the jobs that were stuck and recovered                *)

vars == <<phase, recovered>>

Active == {j \in Jobs : IsActive(phase[j])}

Init == /\ phase = [j \in Jobs |-> "Absent"]
        /\ recovered = {}

Move(j, from, to) == /\ phase[j] \in from
                     /\ phase' = [phase EXCEPT ![j] = to]

Admit(j) == /\ Cardinality(Active) < Limit
            /\ Move(j, {"Absent"}, "Pending")
            /\ UNCHANGED recovered

Start(j) == Move(j, {"Pending"}, "InProgress") /\ UNCHANGED recovered

End(j) == /\ \E to \in {"Completed", "Failed"} : Move(j, {"InProgress"}, to)
          /\ UNCHANGED recovered

(* Only a job that has not been recovered yet can get stuck. *)
GetStuck(j) == /\ j \notin recovered
               /\ Move(j, {"InProgress"}, "Stuck")
               /\ UNCHANGED recovered

Recover(j) == /\ Move(j, {"Stuck"}, "InProgress")
              /\ recovered' = recovered \cup {j}

Cancel(j) == /\ Move(j, {"Pending", "InProgress", "Stuck"}, "Cancelled")
             /\ UNCHANGED recovered

Next == \E j \in Jobs : \/ Admit(j) \/ Start(j) \/ End(j)
                        \/ GetStuck(j) \/ Recover(j) \/ Cancel(j)

Spec == Init /\ [][Next]_vars
=============================================================================
