--------------------------- MODULE MCQueueBudget ---------------------------
(* A small instance of QueueBudget: a startup, an unusable line, a line    *)
(* that leaves room in the budget and one that takes all of it.            *)
EXTENDS QueueBudget

FourLines ==
    {[startup |-> TRUE, bytes |-> 1]}
        \cup {[startup |-> FALSE, bytes |-> b] : b \in 0 .. MaxBytes}
============================================================================
