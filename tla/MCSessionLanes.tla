--------------------------- MODULE MCSessionLanes ---------------------------
EXTENDS SessionLanes, TLC

CONSTANTS r1, r2, r3, r4, s1, s2, main, cron

(* r1 and r2 share a session, r3 and r4 another one; r2 runs on its own      *)
(* global lane.                                                             *)
MCSessionOf == [r \in Runs |-> IF r \in {r1, r2} THEN s1 ELSE s2]
MCGlobalOf  == [r \in Runs |-> IF r = r2 THEN cron ELSE main]
=============================================================================
