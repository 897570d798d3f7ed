----------------------------- MODULE OutboxLog -----------------------------
(***************************************************************************)
(* What the relay promises of the outbox as a log: lines are read in       *)
(* order and each once in a session, a session takes up where the durable  *)
(* cursor points, and lines are passed over only when there is no cursor   *)
(* or the file it points into is gone.                                     *)
(***************************************************************************)
EXTENDS Integers

VARIABLES
    complete,  \* lines in the log
    read,      \* the line consumed last
    saved,     \* the line the durable cursor is at, or Nothing
    kept,      \* the file the cursor points into is there
    open       \* a session runs

logVars == <<complete, read, saved, kept, open>>

Nothing == -1

LogInit ==
    complete = 0 /\ read = 0 /\ saved = Nothing /\ kept = FALSE /\ open = FALSE

Write == complete' = complete + 1 /\ UNCHANGED <<read, saved, kept, open>>

(* A rotation takes the file of the cursor away. *)
Forget == kept /\ kept' = FALSE /\ UNCHANGED <<complete, read, saved, open>>

Save == saved' = read' /\ kept' = TRUE
MaySave == Save \/ UNCHANGED <<saved, kept>>

Resume ==
    /\ ~ open /\ open' = TRUE
    /\ kept /\ read' = saved
    /\ UNCHANGED <<complete, saved, kept>>

(* Without a cursor a session begins at the end: the past is not replayed. *)
Bootstrap ==
    /\ ~ open /\ open' = TRUE
    /\ ~ kept /\ read' = complete
    /\ MaySave /\ UNCHANGED complete

Consume ==
    /\ open
    /\ \/ read' = read + 1
       \/ ~ kept /\ read' \in read + 1 .. complete
    /\ read' <= complete
    /\ MaySave /\ UNCHANGED <<complete, open>>

Checkpoint == open /\ Save /\ UNCHANGED <<complete, read, open>>

Close == open /\ open' = FALSE /\ MaySave /\ UNCHANGED <<complete, read>>

LogNext ==
    Write \/ Forget \/ Resume \/ Bootstrap \/ Consume \/ Checkpoint \/ Close

LogSpec == LogInit /\ [][LogNext]_logVars
============================================================================
