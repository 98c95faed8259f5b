------------------------------- MODULE MCEngine -------------------------------
EXTENDS Engine

MCReasons == {"write", "resume", "probe"}

\* Nothing, the selection, or the whole payload is verified.
MCCompletions ==
    {[selected |-> FALSE, whole |-> FALSE, empty |-> FALSE],
     [selected |-> TRUE, whole |-> FALSE, empty |-> FALSE],
     [selected |-> TRUE, whole |-> TRUE, empty |-> FALSE]}

Incomplete == {[selected |-> FALSE, whole |-> FALSE, empty |-> FALSE]}
=============================================================================
