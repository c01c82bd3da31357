---------------------- MODULE MCTransactionProfileMap -----------------------
EXTENDS TransactionProfileMap

CONSTANTS
    First,      \* a client: the clients are alike, it begins when none is active
    FirstKey    \* a key: the keys are alike, it is written first

Begins(c) == txn[c] = Outside /\ (txn'[c] # Outside \/ (c \in waiting' /\ c \notin waiting))
Idle(c) == txn[c] = Outside /\ c \notin waiting
AtRest == dumps = {} /\ merge.step = "none" /\ status = "up" /\ restarts = 0

(* No transaction begins once nothing more can be written. Clients meet     *)
(* while no task is under way and not after a restart, at one key, or at    *)
(* two where one of them is between the halves of its read; a stop meets    *)
(* one client.                                                              *)
FewTransactions ==
    /\ \A c \in Client : Begins(c) =>
        /\ written < MaxWrites
        /\ IF \A d \in Client \ {c} : Idle(d) THEN c = First
           ELSE AtRest /\ \A d \in Client \ {c} :
                    \/ txn[d].key = txn'[c].key
                    \/ snapshot[d] # None
    /\ status' = "stopping" => \A c, d \in Client : Idle(c) \/ Idle(d) \/ c = d

(* After the last write the transactions end before the tasks go on.       *)
TransactionsEnd ==
    (written = MaxWrites /\ \E c \in Client : txn[c] # Outside /\ c \notin waiting) =>
        <<tasks, removing, status, old>>' = <<tasks, removing, status, old>>

(* What is removed was there.                                              *)
WritesTell ==
    /\ \A c \in Client : known[c] # None /\ known'[c] # None /\ known'[c].entry.erased =>
        ~known[c].entry.erased
    /\ written = 0 => \A c \in Client : txn'[c].key \in {None, FirstKey}

(* One of a refusing map, a restart, a failed merge and expired profiles.  *)
OneStory == (IF nonblock' THEN 1 ELSE 0) + restarts' + failures' + old' <= 1
=============================================================================
