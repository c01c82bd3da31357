--------------------------- MODULE TransactionMap ---------------------------
(***************************************************************************)
(* TransactionMap of ProfilingCommons: one holder per key while someone    *)
(* refers to it; a transaction is open while its client has the holder's   *)
(* lock.  The map forgets a holder when the last reference to it is gone,  *)
(* both under the lock of the key's portion.                               *)
(***************************************************************************)
EXTENDS Integers, FiniteSets, ProfileUsers

CONSTANT
    MaxWaiters      \* max_waiters_; 0: as many as come

VARIABLES
    opened,     \* open_transaction_map: the holder of a key, or None
    lockCount,  \* lock_count_ of each holder
    owner,      \* who has lock_ of each holder, or None
    txn         \* where a client stands, with which key and holder

transactionVars == <<opened, lockCount, owner, txn>>

(* A client refers to one holder at most: so many can exist at a time.     *)
Holder == 1..Cardinality(Client)

ASSUME TransactionMapAssumption ==
    MaxWaiters \in Nat /\ IsFiniteSet(Client) /\ None \notin Holder

Outside == [step |-> "outside", key |-> None, holder |-> None]

TransactionInit ==
    /\ opened = [k \in Key |-> None]
    /\ lockCount = [h \in Holder |-> 0]
    /\ owner = [h \in Holder |-> None]
    /\ txn = [c \in Client |-> Outside]

References(h) == {c \in Client : txn[c].holder = h}
Unused == CHOOSE h \in Holder : References(h) = {}

(* get_transaction for a key nobody has: the new holder is locked before    *)
(* the map shows it.                                                       *)
OpenNew(c, k) ==
    /\ opened[k] = None
    /\ opened' = [opened EXCEPT ![k] = Unused]
    /\ lockCount' = [lockCount EXCEPT ![Unused] = 1]
    /\ owner' = [owner EXCEPT ![Unused] = c]
    /\ txn' = [txn EXCEPT ![c] = [step |-> "open", key |-> k, holder |-> Unused]]

TooMany(h) == MaxWaiters # 0 /\ lockCount[h] >= MaxWaiters

(* Someone has it: the client takes a reference, to wait or to be refused.  *)
Join(c, k) ==
    /\ opened[k] # None
    /\ \/ /\ lockCount' = [lockCount EXCEPT ![opened[k]] = @ + 1]
          /\ txn' = [txn EXCEPT ![c] = [step |-> "locking", key |-> k, holder |-> opened[k]]]
          /\ UNCHANGED <<opened, owner>>
       \/ /\ TooMany(opened[k])
          /\ txn' = [txn EXCEPT ![c] = [step |-> "releasing", key |-> k, holder |-> opened[k]]]
          /\ UNCHANGED <<opened, lockCount, owner>>

Lock(c) ==
    /\ txn[c].step = "locking"
    /\ owner[txn[c].holder] = None
    /\ owner' = [owner EXCEPT ![txn[c].holder] = c]
    /\ txn' = [txn EXCEPT ![c].step = "open"]
    /\ UNCHANGED <<opened, lockCount>>

(* ~TransactionBase: counted off first, unlocked next, released last.      *)
Close(c) ==
    /\ txn[c].step = "open"
    /\ lockCount' = [lockCount EXCEPT ![txn[c].holder] = @ - 1]
    /\ txn' = [txn EXCEPT ![c].step = "unlocking"]
    /\ UNCHANGED <<opened, owner>>

Unlock(c) ==
    /\ txn[c].step = "unlocking"
    /\ owner' = [owner EXCEPT ![txn[c].holder] = None]
    /\ txn' = [txn EXCEPT ![c].step = "releasing"]
    /\ UNCHANGED <<opened, lockCount>>

(* Mutant: whoever closes takes the holder out of the map. *)
LastReference_Any(c) == txn[c].holder # None

LastReference(c) == References(txn[c].holder) = {c}

(* remove_ref_no_delete_ and close_i_, under the portion's lock.           *)
Release(c) ==
    /\ txn[c].step = "releasing"
    /\ txn' = [txn EXCEPT ![c] = Outside]
    /\ IF LastReference(c)
       THEN opened' = [opened EXCEPT ![txn[c].key] = None]
       ELSE UNCHANGED opened
    /\ UNCHANGED <<lockCount, owner>>
=============================================================================
