------------------------ MODULE TransactionProfileMap -----------------------
(***************************************************************************)
(* TransactionProfileMap over LevelProfileMap, as the servers use it: a    *)
(* thread opens a transaction on a key, reads the profile, perhaps writes  *)
(* it back or removes it, and closes the transaction.                      *)
(***************************************************************************)
EXTENDS LevelProfileMap, TransactionMap

VARIABLE
    known       \* what a client's transaction has read or written, or None,
                \* and if a level was put in front between the halves of the read

transactions == <<opened, lockCount, owner, txn, known>>
vars == <<levelVars, transactions>>

Init ==
    /\ LevelInit
    /\ TransactionInit
    /\ known = [c \in Client |-> None]

(* get_transaction: the priority is used for the precondition and is not   *)
(* handed on, the transaction's own calls have the default one.            *)
GetTransaction(c) ==
    /\ status \in {"up", "stopping"}
    /\ txn[c].step = "outside" /\ c \notin waiting
    /\ \E k \in Key : OpenNew(c, k) \/ Join(c, k)
    /\ UNCHANGED <<levelVars, known>>

GetBackgroundTransaction(c) ==
    /\ status \in {"up", "stopping"}
    /\ txn[c].step = "outside"
    /\ WaitBackground(c)
    /\ UNCHANGED transactions

IsOpen(c) == txn[c].step = "open" /\ c \notin waiting

(* get_profile of an open transaction: the lists first, the search after.   *)
ReadBegin(c) ==
    /\ IsOpen(c) /\ known[c] = None
    /\ TakeSnapshot(c)
    /\ UNCHANGED transactions

ReadEnd(c) ==
    /\ IsOpen(c) /\ snapshot[c] # None
    /\ known' = [known EXCEPT ![c] = [entry |-> SearchSnapshot(c, txn[c].key),
                                      missed |-> snapshot[c].emptied]]
    /\ DropSnapshot(c)
    /\ UNCHANGED <<opened, lockCount, owner, txn>>

Write(c) ==
    /\ IsOpen(c) /\ known[c] # None
    /\ \E erased \in BOOLEAN :
        /\ Put(txn[c].key, erased)
        /\ known' = [known EXCEPT ![c] = [entry |-> [ver |-> written + 1, erased |-> erased],
                                          missed |-> FALSE]]
    /\ UNCHANGED <<opened, lockCount, owner, txn>>

WaitForRoom(c) ==
    /\ IsOpen(c) /\ known[c] # None
    /\ written < MaxWrites
    /\ Wait(c)
    /\ UNCHANGED transactions

(* The end of the call, or the exception of a refused write.               *)
EndTransaction(c) ==
    /\ IsOpen(c) /\ known[c] # None
    /\ known' = [known EXCEPT ![c] = None]
    /\ Close(c)
    /\ UNCHANGED levelVars

Leave(c) ==
    /\ Lock(c) \/ Unlock(c) \/ Release(c)
    /\ UNCHANGED <<levelVars, known>>

ClientNext(c) ==
    \/ GetTransaction(c) \/ GetBackgroundTransaction(c)
    \/ ReadBegin(c) \/ ReadEnd(c)
    \/ Write(c) \/ WaitForRoom(c) \/ EndTransaction(c) \/ Leave(c)

ForgetTransactions ==
    /\ opened' = [k \in Key |-> None]
    /\ lockCount' = [h \in Holder |-> 0]
    /\ owner' = [h \in Holder |-> None]
    /\ txn' = [c \in Client |-> Outside]
    /\ known' = [c \in Client |-> None]

TaskNext == (Dump \/ Merge) /\ UNCHANGED transactions

Finish == (AllDumped \/ AllMerged) /\ UNCHANGED transactions

ProcessNext ==
    \/ (Deactivate \/ WaitObject \/ Start \/ StartAmongRemoved \/ GrowOld)
       /\ UNCHANGED transactions
    \/ Finish
    \/ Crash /\ ForgetTransactions

Next ==
    \/ \E c \in Client : ClientNext(c)
    \/ TaskNext
    \/ ProcessNext

(* The runners of tasks go on, and so does a stop. Nobody has to begin a   *)
(* call, to end it, to stop the map or to start it.                        *)
Fairness ==
    WF_vars((Dump \/ BeginMerge \/ SwapMerged \/ CountMerged \/ Recheck
             \/ (\E level \in removing : Unlink(level)) \/ AllDumped \/ AllMerged)
            /\ UNCHANGED transactions)

Spec == Init /\ [][Next]_vars /\ Fairness

-----------------------------------------------------------------------------
(* What is asked of the schedule *)

(* "trust that all operations to storage finished" (wait_object).          *)
StopFindsNoCall ==
    status = "stopping" /\ status' = "dumping" =>
        \A c \in Client : txn[c] = Outside /\ c \notin waiting

-----------------------------------------------------------------------------
(* Properties *)

(* "only one Transaction object can be created for each key": however a    *)
(* holder is shared, let go and created again, two clients never have open  *)
(* transactions on one key.                                                *)
OneTransactionPerKey ==
    \A c, d \in Client :
        (txn[c].step = "open" /\ txn[d].step = "open" /\ txn[c].key = txn[d].key) => c = d

Store == INSTANCE ProfileStore WITH
    Version <- 1..MaxWrites, store <- Visible, durable <- OnDisk,
    removed <- UNION {DOMAIN level.profiles : level \in removing},
    life <- CASE status = "down" -> "stopped"
              [] status \in {"crashed", "torn"} -> status
              [] OTHER -> "running"

(* What a transaction has read is still what the map shows when it writes, *)
(* so that a profile is made from the last one; only a read that a level    *)
(* was put in front of, between its halves, can have found an older one.    *)
TransactionReadsLast ==
    \A c \in Client : (txn[c].step = "open" /\ known[c] # None) =>
        LET shown == Visible[txn[c].key]
        IN  \/ Store!SameOrExpired(known[c].entry, shown)
            \/ known[c].missed /\ known[c].entry.ver < shown.ver

(* "not found" (FileWriterTest): a profile that is there is found by a      *)
(* read.  This does not hold, and no run has it: a profile is missed when   *)
(* the writable level is taken meanwhile.                                  *)
SavedProfileIsFound ==
    \A c \in Client : (txn[c].step = "open" /\ known[c] # None) =>
        (~Visible[txn[c].key].erased => ~known[c].entry.erased)

(* Whenever two dumped levels 0 are in the list, a merge is under way or a *)
(* dump is about to ask for one: no order of dumps and merges, failures     *)
(* and restarts leaves the levels 0 to pile up unmerged.                   *)
MergeIsScheduled ==
    MergeCheck(levels) /\ status \in {"up", "stopping", "dumping"} =>
        merge.step # "none" \/ \E task \in dumps : task.merge

(* undumped_size_ and levels0_, kept by differences in other tasks than     *)
(* the lists they count, are what the lists hold, but for the tasks that    *)
(* have changed the lists and not counted yet.                              *)
CountersMatchLevels ==
    ~Down =>
        /\ undumped = AreaSize(rw) + SumOver([task \in dumps |-> task.area],
                                             {task \in dumps : task.step # "enqueue"})
        /\ levels0 = Cardinality({i \in DOMAIN levels : levels[i].index = 0})
                      + (IF merge.step = "count" THEN merge.gone - merge.came ELSE 0)

(* The map on levels is a profile store.                                   *)
ImplementsStore == Store!StoreSpec

(* A writer that waits for room is woken, by the dumps and merges alone.   *)
BlockedWriteProceeds ==
    LET writers == {c \in waiting : txn[c].step = "open"}
    IN  writers # {} ~> writers = {}

(* A stop comes to its end: dump() does not wait for ever.                 *)
StopCompletes == status = "dumping" ~> Down
=============================================================================
