---------------------------- MODULE MCLogLoading ----------------------------
(* Three files of one type, after a type that goes first and has none; the *)
(* receivers keep one name in memory.                                      *)
EXTENDS LogLoading

CONSTANTS request, impression

MCFile == 1..3
MCTypeOf == [f \in File |-> request]
MCRecords == [f \in File |-> IF f = 1 THEN 2 ELSE 1]
MCPriority == [t \in LogType |-> IF t = request THEN 0 ELSE 1]

(* A stop finds a thread at work on a file, between two records.           *)
StopInterrupts ==
    <<interrupter, facade>> = <<TRUE, TRUE>> /\ ~(interrupter' /\ facade') =>
        \E c \in Thread : thread[c].line = 1

(* A stop or a fault.                                                      *)
OneStory == faults' = 0 \/ (interrupter' /\ facade')
=============================================================================
