--------------------------- MODULE MCCronService ---------------------------
(* A small instance of CronService.                                        *)
EXTENDS CronService

CONSTANTS a, b

MCJob(kind, t) ==
    [kind |-> kind, t |-> t, keep |-> FALSE, enabled |-> TRUE, next |-> t, mark |-> NoTime,
     status |-> "none", errs |-> 0, bad |-> 0]

\* A periodic job that is due when the process starts.
MCInitial == a :> MCJob("every", 1)

MCDrafts == {[kind |-> "at", t |-> 2, keep |-> FALSE], [kind |-> "cron", t |-> 1, keep |-> FALSE]}

MCPatches == {[what |-> "on"], [what |-> "off"],
              [what |-> "schedule", kind |-> "broken", t |-> 1]}

MCBackoff == <<1, 2>>
=============================================================================
