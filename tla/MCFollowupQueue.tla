-------------------------- MODULE MCFollowupQueue --------------------------
(* Small instances of FollowupQueue.                                       *)
EXTENDS FollowupQueue

\* Three messages of a channel, the third delivered twice, with one of
\* another channel in between.
MCRoute == <<"a", "a", "a", "b", "a">>
MCId    == <<1, 2, 3, 4, 3>>

\* A session whose cap is reached by its second or third queued message, and
\* whose mode and drop policy are changed between messages.
MCSettings ==
    {[mode |-> "collect",  cap |-> 2, drop |-> "summarize"],
     [mode |-> "followup", cap |-> 2, drop |-> "old"],
     [mode |-> "followup", cap |-> 1, drop |-> "new"]}

\* The documented defaults with a small cap.
MCCollect == {[mode |-> "collect", cap |-> 2, drop |-> "summarize"]}

MCOneRoute4 == <<"a", "a", "a", "a">>
MCOwnIds4   == <<1, 2, 3, 4>>
=============================================================================
