-------------------- MODULE TransactionProfileMap_proofs --------------------
(***************************************************************************)
(* Proofs about TransactionProfileMap, for any finite set of clients and    *)
(* any keys and bounds of the map.  Two clients never have open             *)
(* transactions on one key, by an invariant that relates the map of         *)
(* holders, the references to them and their locks.  Dumped levels 0 do not *)
(* pile up without a merge that is coming.  The counters of what is not     *)
(* dumped and not merged fit the lists, by an invariant about the order of  *)
(* the levels, the block of them a merge was made of, and who dumps what.   *)
(* With what a file has of its level, and the versions of a key in the      *)
(* order of the levels, the map is a profile store; and a transaction has   *)
(* read what its key shows.                                                *)
(***************************************************************************)
EXTENDS TransactionProfileMap, Sums_proofs, SequenceTheorems

Steps == {"outside", "locking", "open", "unlocking", "releasing"}

TransactionType ==
    /\ opened \in [Key -> Holder \cup {None}]
    /\ owner \in [Holder -> Client \cup {None}]
    /\ txn \in [Client -> [step : Steps, key : Key \cup {None}, holder : Holder \cup {None}]]

(* A client outside refers to no holder, every other one to the holder the *)
(* map has for its key.                                                    *)
ReferencesOpened ==
    \A c \in Client :
        IF txn[c].step = "outside" THEN txn[c].holder = None
        ELSE /\ txn[c].key \in Key /\ txn[c].holder \in Holder
             /\ opened[txn[c].key] = txn[c].holder

(* A holder in the map has a reference and one key.                        *)
OpenedIsReferred ==
    \A k \in Key : opened[k] # None =>
        /\ \E c \in Client : txn[c].holder = opened[k]
        /\ \A l \in Key : opened[l] = opened[k] => l = k

(* Who has an open transaction, or is about to unlock, has the lock.       *)
OpenIsOwner ==
    \A c \in Client : txn[c].step \in {"open", "unlocking"} => owner[txn[c].holder] = c

TransactionInv ==
    TransactionType /\ ReferencesOpened /\ OpenedIsReferred /\ OpenIsOwner

(* There is a holder to create for a client that has none: the others      *)
(* refer to one each, and there are as many holders as clients.            *)
LEMMA UnusedExists ==
    ASSUME TransactionType, NEW c \in Client, txn[c].holder = None
    PROVE  Unused \in Holder /\ References(Unused) = {}
<1>1. /\ Cardinality(Client) \in Nat
      /\ IsFiniteSet(Client \ {c})
      /\ Cardinality(Client \ {c}) = Cardinality(Client) - 1
  BY TransactionMapAssumption, FS_CardinalityType, FS_RemoveElement
<1>2. IsFiniteSet(Holder) /\ Cardinality(Holder) = Cardinality(Client)
  <2>1. Cardinality(Client) # 0
    BY TransactionMapAssumption, FS_EmptySet
  <2> QED  BY <1>1, <2>1, FS_Interval DEF Holder
<1>3. ASSUME \A h \in Holder : References(h) # {} PROVE FALSE
  <2> DEFINE f == [h \in Holder |-> CHOOSE d \in Client : txn[d].holder = h]
  <2>1. \A h \in Holder : f[h] \in Client /\ txn[f[h]].holder = h
    BY <1>3 DEF References
  <2>2. \A h \in Holder : f[h] # c
    BY <2>1, TransactionMapAssumption
  <2>3. f \in [Holder -> Client \ {c}]
    BY <2>1, <2>2
  <2> HIDE DEF f
  <2>4. \E h, i \in Holder : h # i /\ f[h] = f[i]
    BY <1>1, <1>2, <2>3, FS_PigeonHole
  <2> QED  BY <2>1, <2>4
<1> QED  BY <1>3 DEF Unused

LEMMA InitTransactions == Init => TransactionInv
<1> SUFFICES ASSUME Init PROVE TransactionInv
  OBVIOUS
<1> USE DEF Init, TransactionInit, Outside
<1>1. TransactionType
  BY DEF TransactionType, Steps
<1>2. ReferencesOpened /\ OpenedIsReferred /\ OpenIsOwner
  BY DEF ReferencesOpened, OpenedIsReferred, OpenIsOwner
<1> QED  BY <1>1, <1>2 DEF TransactionInv

LEMMA OpenNewKeeps ==
    ASSUME TransactionInv, NEW c \in Client, NEW k \in Key,
           txn[c].step = "outside", OpenNew(c, k)
    PROVE  TransactionInv'
<1> USE DEF TransactionInv
<1> DEFINE h == Unused
<1>1. txn[c].holder = None
  BY DEF ReferencesOpened
<1>2. h \in Holder /\ h # None /\ \A d \in Client : txn[d].holder # h
  BY <1>1, UnusedExists, TransactionMapAssumption DEF References
<1>3. /\ opened[k] = None
      /\ opened' = [opened EXCEPT ![k] = h]
      /\ owner' = [owner EXCEPT ![h] = c]
      /\ txn' = [txn EXCEPT ![c] = [step |-> "open", key |-> k, holder |-> h]]
  BY DEF OpenNew
<1> HIDE DEF h
<1>4. TransactionType'
  BY <1>2, <1>3 DEF TransactionType, Steps
<1>5. \A d \in Client \ {c} : txn'[d] = txn[d]
  BY <1>3 DEF TransactionType
<1>6. txn'[c] = [step |-> "open", key |-> k, holder |-> h] /\ opened'[k] = h
  BY <1>3 DEF TransactionType
<1>7. \A l \in Key \ {k} : opened'[l] = opened[l] /\ opened[l] # h
  BY <1>2, <1>3 DEF TransactionType, OpenedIsReferred
<1>8. ReferencesOpened'
  <2> SUFFICES ASSUME NEW d \in Client \ {c}, txn[d].step # "outside"
               PROVE  txn[d].key # k
    BY <1>2, <1>5, <1>6, <1>7 DEF ReferencesOpened
  <2> QED  BY <1>3, TransactionMapAssumption DEF ReferencesOpened
<1>9. OpenedIsReferred'
  <2> SUFFICES ASSUME NEW l \in Key, opened'[l] # None
               PROVE  /\ \E d \in Client : txn'[d].holder = opened'[l]
                      /\ \A m \in Key : opened'[m] = opened'[l] => m = l
    BY DEF OpenedIsReferred
  <2>1. CASE l = k
    BY <2>1, <1>6, <1>7
  <2>2. CASE l # k
    <3>1. PICK d \in Client : txn[d].holder = opened[l]
      BY <2>2, <1>7 DEF OpenedIsReferred
    <3>2. d # c
      BY <3>1, <2>2, <1>1, <1>7
    <3>3. txn'[d].holder = opened'[l]
      BY <3>1, <3>2, <2>2, <1>5, <1>7
    <3>4. \A m \in Key : opened'[m] = opened'[l] => m = l
      BY <2>2, <1>6, <1>7 DEF OpenedIsReferred
    <3> QED  BY <3>3, <3>4
  <2> QED  BY <2>1, <2>2
<1>10. OpenIsOwner'
  BY <1>2, <1>3, <1>5, <1>6 DEF OpenIsOwner, TransactionType, ReferencesOpened
<1> QED  BY <1>4, <1>8, <1>9, <1>10

(* A step that only moves a client on within its reference.                *)
LEMMA ReferenceKept ==
    ASSUME TransactionInv, NEW c \in Client, NEW s \in Steps \ {"outside"},
           txn[c].step # "outside",
           txn' = [txn EXCEPT ![c].step = s], UNCHANGED opened
    PROVE  ReferencesOpened' /\ OpenedIsReferred'
<1>1. \A d \in Client : /\ txn'[d].holder = txn[d].holder /\ txn'[d].key = txn[d].key
                        /\ txn'[d].step = IF d = c THEN s ELSE txn[d].step
  BY DEF TransactionInv, TransactionType
<1> QED  BY <1>1 DEF TransactionInv, ReferencesOpened, OpenedIsReferred, Steps

LEMMA JoinKeeps ==
    ASSUME TransactionInv, NEW c \in Client, NEW k \in Key,
           txn[c].step = "outside", Join(c, k)
    PROVE  TransactionInv'
<1> USE DEF TransactionInv
<1>1. PICK s \in {"locking", "releasing"} :
         txn' = [txn EXCEPT ![c] = [step |-> s, key |-> k, holder |-> opened[k]]]
  BY DEF Join
<1>2. UNCHANGED <<opened, owner>> /\ opened[k] # None /\ opened[k] \in Holder
  BY DEF Join, TransactionType
<1>3. TransactionType'
  BY <1>1, <1>2 DEF TransactionType, Steps
<1>4. /\ txn'[c] = [step |-> s, key |-> k, holder |-> opened[k]]
      /\ \A d \in Client \ {c} : txn'[d] = txn[d]
  BY <1>1 DEF TransactionType
<1>5. ReferencesOpened' /\ OpenIsOwner'
  BY <1>2, <1>4 DEF ReferencesOpened, OpenIsOwner
<1>6. OpenedIsReferred'
  <2>1. ASSUME NEW l \in Key, opened[l] # None
        PROVE  \E d \in Client : txn'[d].holder = opened[l]
    <3>1. PICK d \in Client : txn[d].holder = opened[l]
      BY <2>1 DEF OpenedIsReferred
    <3>2. txn[c].holder = None
      BY DEF ReferencesOpened
    <3> QED  BY <3>1, <3>2, <2>1, <1>4
  <2> QED  BY <2>1, <1>2 DEF OpenedIsReferred
<1> QED  BY <1>3, <1>5, <1>6

LEMMA LockKeeps ==
    ASSUME TransactionInv, NEW c \in Client, Lock(c)
    PROVE  TransactionInv'
<1> USE DEF TransactionInv
<1>1. /\ txn[c].step = "locking" /\ txn' = [txn EXCEPT ![c].step = "open"]
      /\ owner[txn[c].holder] = None /\ owner' = [owner EXCEPT ![txn[c].holder] = c]
      /\ UNCHANGED opened
  BY DEF Lock
<1>2. txn[c].holder \in Holder
  BY <1>1 DEF ReferencesOpened
<1>3. TransactionType'
  BY <1>1, <1>2 DEF TransactionType, Steps
<1>4. ReferencesOpened' /\ OpenedIsReferred'
  BY <1>1, ReferenceKept DEF Steps
<1>5. OpenIsOwner'
  <2> SUFFICES ASSUME NEW d \in Client, txn'[d].step \in {"open", "unlocking"}
               PROVE  owner'[txn'[d].holder] = d
    BY DEF OpenIsOwner
  <2>1. txn'[d].holder = txn[d].holder
    BY <1>1 DEF TransactionType
  <2>2. CASE d = c
    BY <2>1, <2>2, <1>1, <1>2 DEF TransactionType
  <2>3. CASE d # c
    <3>1. txn[d].step \in {"open", "unlocking"}
      BY <2>3, <1>1 DEF TransactionType
    <3>2. owner[txn[d].holder] = d /\ txn[d].holder \in Holder
      BY <3>1 DEF OpenIsOwner, ReferencesOpened
    <3>3. txn[d].holder # txn[c].holder
      BY <3>2, <1>1, ProfileUsersAssumption
    <3> QED  BY <2>1, <3>2, <3>3, <1>1, <1>2 DEF TransactionType
  <2> QED  BY <2>2, <2>3
<1> QED  BY <1>3, <1>4, <1>5

LEMMA CloseKeeps ==
    ASSUME TransactionInv, NEW c \in Client, Close(c)
    PROVE  TransactionInv'
<1> USE DEF TransactionInv
<1>1. /\ txn[c].step = "open" /\ txn' = [txn EXCEPT ![c].step = "unlocking"]
      /\ UNCHANGED <<opened, owner>>
  BY DEF Close
<1>2. TransactionType'
  BY <1>1 DEF TransactionType, Steps
<1>3. ReferencesOpened' /\ OpenedIsReferred'
  BY <1>1, ReferenceKept DEF Steps
<1>4. OpenIsOwner'
  BY <1>1 DEF OpenIsOwner, TransactionType
<1> QED  BY <1>2, <1>3, <1>4

LEMMA UnlockKeeps ==
    ASSUME TransactionInv, NEW c \in Client, Unlock(c)
    PROVE  TransactionInv'
<1> USE DEF TransactionInv
<1>1. /\ txn[c].step = "unlocking" /\ txn' = [txn EXCEPT ![c].step = "releasing"]
      /\ owner' = [owner EXCEPT ![txn[c].holder] = None] /\ UNCHANGED opened
  BY DEF Unlock
<1>2. txn[c].holder \in Holder /\ owner[txn[c].holder] = c
  BY <1>1 DEF ReferencesOpened, OpenIsOwner
<1>3. TransactionType'
  BY <1>1, <1>2 DEF TransactionType, Steps
<1>4. ReferencesOpened' /\ OpenedIsReferred'
  BY <1>1, ReferenceKept DEF Steps
<1>5. OpenIsOwner'
  <2> SUFFICES ASSUME NEW d \in Client, txn'[d].step \in {"open", "unlocking"}
               PROVE  owner'[txn'[d].holder] = d
    BY DEF OpenIsOwner
  <2>1. /\ d # c /\ txn'[d] = txn[d]
    BY <1>1 DEF TransactionType
  <2>2. owner[txn[d].holder] = d /\ txn[d].holder \in Holder
    BY <2>1 DEF OpenIsOwner, ReferencesOpened
  <2> QED  BY <2>1, <2>2, <1>1, <1>2 DEF TransactionType
<1> QED  BY <1>3, <1>4, <1>5

LEMMA ReleaseKeeps ==
    ASSUME TransactionInv, NEW c \in Client, Release(c)
    PROVE  TransactionInv'
<1> USE DEF TransactionInv
<1> DEFINE h == txn[c].holder
           k == txn[c].key
<1>1. /\ txn[c].step = "releasing" /\ txn' = [txn EXCEPT ![c] = Outside]
      /\ UNCHANGED owner
      /\ opened' = IF LastReference(c) THEN [opened EXCEPT ![k] = None] ELSE opened
  BY DEF Release
<1>2. h \in Holder /\ k \in Key /\ opened[k] = h
  BY <1>1 DEF ReferencesOpened
<1>3. TransactionType'
  BY <1>1, <1>2 DEF TransactionType, Steps, Outside
<1>4. txn'[c] = Outside /\ \A d \in Client \ {c} : txn'[d] = txn[d]
  BY <1>1 DEF TransactionType
<1>5. OpenIsOwner'
  BY <1>1, <1>4 DEF OpenIsOwner, Outside
<1>6. LastReference(c) <=> \A d \in Client \ {c} : txn[d].holder # h
  BY DEF LastReference, References
<1>7. \A l \in Key : opened'[l] = IF LastReference(c) /\ l = k THEN None ELSE opened[l]
  BY <1>1 DEF TransactionType
<1> HIDE DEF h, k
<1>8. ReferencesOpened'
  <2> SUFFICES ASSUME NEW d \in Client, txn'[d].step # "outside"
               PROVE  /\ txn'[d].key \in Key /\ txn'[d].holder \in Holder
                      /\ opened'[txn'[d].key] = txn'[d].holder
    BY <1>4 DEF ReferencesOpened, Outside
  <2>1. d # c /\ txn'[d] = txn[d]
    BY <1>4 DEF Outside
  <2>2. txn[d].key \in Key /\ txn[d].holder \in Holder /\ opened[txn[d].key] = txn[d].holder
    BY <2>1 DEF ReferencesOpened
  <2>3. ~(LastReference(c) /\ txn[d].key = k)
    BY <2>1, <2>2, <1>2, <1>6
  <2> QED  BY <2>1, <2>2, <2>3, <1>7
<1>9. OpenedIsReferred'
  <2> SUFFICES ASSUME NEW l \in Key, opened'[l] # None
               PROVE  /\ \E d \in Client : txn'[d].holder = opened'[l]
                      /\ \A m \in Key : opened'[m] = opened'[l] => m = l
    BY DEF OpenedIsReferred
  <2>1. opened'[l] = opened[l] /\ ~(LastReference(c) /\ l = k)
    BY <1>7
  <2>2. \A m \in Key : opened'[m] = opened'[l] => m = l
    BY <2>1, <1>7 DEF OpenedIsReferred
  <2>3. PICK d \in Client : txn[d].holder = opened[l]
    BY <2>1 DEF OpenedIsReferred
  <2>4. CASE d # c
    BY <2>1, <2>2, <2>3, <2>4, <1>4
  <2>5. CASE d = c
    <3>1. opened[l] = h /\ l = k
      BY <2>1, <2>3, <2>5, <1>2 DEF OpenedIsReferred, h
    <3>2. PICK e \in Client \ {c} : txn[e].holder = h
      BY <3>1, <2>1, <1>6
    <3> QED  BY <2>1, <2>2, <3>1, <3>2, <1>4
  <2> QED  BY <2>4, <2>5
<1> QED  BY <1>3, <1>5, <1>8, <1>9

LEMMA StepKeepsTransactions == TransactionInv /\ [Next]_vars => TransactionInv'
<1> SUFFICES ASSUME TransactionInv, [Next]_vars PROVE TransactionInv'
  OBVIOUS
<1>1. ASSUME UNCHANGED <<opened, owner, txn>> PROVE TransactionInv'
  BY <1>1 DEF TransactionInv, TransactionType, ReferencesOpened, OpenedIsReferred, OpenIsOwner,
              References
<1>2. ASSUME NEW c \in Client, ClientNext(c) PROVE TransactionInv'
  <2>1. CASE GetTransaction(c)
    BY <2>1, OpenNewKeeps, JoinKeeps DEF GetTransaction
  <2>2. CASE GetBackgroundTransaction(c)
    BY <2>2, <1>1 DEF GetBackgroundTransaction, transactions
  <2>3. CASE ReadBegin(c) \/ WaitForRoom(c)
    BY <2>3, <1>1 DEF ReadBegin, WaitForRoom, transactions
  <2>4. CASE ReadEnd(c) \/ Write(c)
    BY <2>4, <1>1 DEF ReadEnd, Write
  <2>5. CASE EndTransaction(c)
    BY <2>5, CloseKeeps DEF EndTransaction
  <2>6. CASE Leave(c)
    BY <2>6, LockKeeps, UnlockKeeps, ReleaseKeeps DEF Leave
  <2> QED  BY <1>2, <2>1, <2>2, <2>3, <2>4, <2>5, <2>6 DEF ClientNext
<1>3. CASE TaskNext
  BY <1>3, <1>1 DEF TaskNext, transactions
<1>4. ASSUME ForgetTransactions PROVE TransactionInv'
  <2>1. TransactionType'
    BY <1>4 DEF ForgetTransactions, TransactionType, Outside, Steps
  <2>2. ReferencesOpened' /\ OpenedIsReferred' /\ OpenIsOwner'
    BY <1>4 DEF ForgetTransactions, ReferencesOpened, OpenedIsReferred, OpenIsOwner, Outside
  <2> QED  BY <2>1, <2>2 DEF TransactionInv
<1>5. CASE ProcessNext
  BY <1>5, <1>1, <1>4 DEF ProcessNext, Finish, transactions
<1>6. CASE UNCHANGED vars
  BY <1>6, <1>1 DEF vars, transactions
<1> QED  BY <1>2, <1>3, <1>5, <1>6 DEF Next

LEMMA OpenExcludes == TransactionInv => OneTransactionPerKey
<1> SUFFICES ASSUME TransactionInv, NEW c \in Client, NEW d \in Client,
                    txn[c].step = "open", txn[d].step = "open", txn[c].key = txn[d].key
             PROVE  c = d
  BY DEF OneTransactionPerKey
<1>1. txn[c].holder = txn[d].holder
  BY DEF TransactionInv, ReferencesOpened
<1> QED  BY <1>1 DEF TransactionInv, OpenIsOwner

(* However a holder is joined, let go of and created again, and whatever    *)
(* the levels, the tasks, a stop or a crash do meanwhile, a key has one    *)
(* open transaction ("TransactionMap must guarantee that only one           *)
(* Transaction object can be created for each key").                       *)
THEOREM ExclusiveTransactions == Spec => []OneTransactionPerKey
BY OpenExcludes, InitTransactions, StepKeepsTransactions, PTL DEF Spec

-----------------------------------------------------------------------------
(* The levels: the list of them is a sequence of levels, whatever is put in *)
(* front of it, dumped, merged or loaded.                                  *)

IsLevel(l) ==
    l = [index |-> l.index, sub_index |-> l.sub_index, profiles |-> l.profiles,
         stored |-> l.stored, file |-> l.file]

IsTask(t) ==
    /\ t = [sub_index |-> t.sub_index, step |-> t.step, upto |-> t.upto, area |-> t.area,
            merge |-> t.merge]
    /\ t.merge \in BOOLEAN

IsList(list) == list \in Seq(Range(list)) /\ \A l \in Range(list) : IsLevel(l)

DumpedLevel0(level) == level.index = 0 /\ Dumped(level)

MergeInv ==
    /\ IsList(levels)
    /\ \A task \in dumps : IsTask(task)
    /\ merge.step = "swap" => IsLevel(merge.result)
    /\ MergeIsScheduled

LEMMA ListOfLevels ==
    ASSUME NEW S, NEW list \in Seq(S), \A l \in S : IsLevel(l)
    PROVE  IsList(list)
<1>1. list \in [1..Len(list) -> S] /\ Len(list) \in Nat
  BY LenProperties
<1>2. Range(list) \subseteq S
  BY <1>1 DEF Range
<1>3. list \in [1..Len(list) -> Range(list)]
  BY <1>1 DEF Range
<1> HIDE DEF IsLevel
<1>4. list \in Seq(Range(list))
  BY <1>1, <1>3, SeqDef
<1> QED  BY <1>2, <1>4 DEF IsList

LEMMA ListProperties ==
    ASSUME NEW list, IsList(list)
    PROVE  /\ Len(list) \in Nat /\ DOMAIN list = 1..Len(list)
           /\ IsFiniteSet(DOMAIN list)
           /\ \A i \in DOMAIN list : list[i] \in Range(list) /\ IsLevel(list[i])
<1>1. /\ Len(list) \in Nat /\ DOMAIN list = 1..Len(list)
  BY LenProperties DEF IsList
<1>2. \A i \in DOMAIN list : list[i] \in Range(list)
  BY DEF Range
<1> QED  BY <1>1, <1>2, FS_Interval DEF IsList

(* The place of each rank exists: as many ranks as places, none taken twice. *)
LEMMA RankExists ==
    ASSUME NEW S \in SUBSET Nat, IsFiniteSet(S), NEW n \in 1..Cardinality(S)
    PROVE  \E i \in S : Cardinality({j \in S : j <= i}) = n
<1> DEFINE upto(i) == {j \in S : j <= i}
           rank == [i \in S |-> Cardinality(upto(i))]
<1>1. \A i \in S : IsFiniteSet(upto(i)) /\ Cardinality(upto(i)) \in 1..Cardinality(S)
  <2> SUFFICES ASSUME NEW i \in S
               PROVE  IsFiniteSet(upto(i)) /\ Cardinality(upto(i)) \in 1..Cardinality(S)
    OBVIOUS
  <2>1. IsFiniteSet(upto(i)) /\ Cardinality(upto(i)) <= Cardinality(S)
    BY FS_Subset
  <2>2. i \in upto(i)
    OBVIOUS
  <2>3. Cardinality(upto(i)) # 0
    BY <2>1, <2>2, FS_EmptySet
  <2> QED  BY <2>1, <2>3, FS_CardinalityType
<1>2. ASSUME NEW i \in S, NEW k \in S, i < k PROVE rank[i] < rank[k]
  <2> i \in Nat /\ k \in Nat /\ \A j \in S : j \in Nat
    OBVIOUS
  <2>0. \A j \in S : j <= i => j <= k
    BY <1>2
  <2>1. upto(i) \in SUBSET upto(k)
    BY <2>0
  <2>2. k \in upto(k) /\ k \notin upto(i)
    BY <1>2
  <2>3. /\ Cardinality(upto(i)) <= Cardinality(upto(k))
        /\ Cardinality(upto(i)) # Cardinality(upto(k))
    BY <2>1, <2>2, <1>1, FS_Subset
  <2> QED  BY <2>3, <1>1, FS_CardinalityType
<1>3. rank \in Injection(S, 1..Cardinality(S))
  <2>1. \A i \in S : rank[i] \in Nat
    BY <1>1
  <2>2. \A i, k \in S : rank[i] = rank[k] => i = k
    BY <1>2, <2>1
  <2>3. rank \in [S -> 1..Cardinality(S)]
    BY <1>1
  <2> QED  BY <2>2, <2>3 DEF Injection, IsInjective
<1> HIDE DEF rank
<1>4. Cardinality(S) = Cardinality(1..Cardinality(S)) /\ IsFiniteSet(1..Cardinality(S))
  BY FS_CardinalityType, FS_Interval
<1>5. rank \in Surjection(S, 1..Cardinality(S))
  BY <1>3, <1>4, FS_Injection
<1>6. PICK i \in S : rank[i] = n
  BY <1>5 DEF Surjection
<1> QED  BY <1>6 DEF rank

LEMMA KeptIsList ==
    ASSUME NEW list, IsList(list), NEW places \in SUBSET DOMAIN list
    PROVE  IsList(Kept(list, places))
<1>1. places \in SUBSET Nat /\ IsFiniteSet(places) /\ Cardinality(places) \in Nat
  BY ListProperties, FS_Subset, FS_CardinalityType
<1> DEFINE place(n) == CHOOSE i \in places : Cardinality({j \in places : j <= i}) = n
<1>2. \A n \in 1..Cardinality(places) : place(n) \in places
  BY <1>1, RankExists
<1>3. \A n \in 1..Cardinality(places) : list[place(n)] \in Range(list)
  BY <1>2, ListProperties
<1> HIDE DEF place
<1>4. [n \in 1..Cardinality(places) |-> list[place(n)]] \in Seq(Range(list))
  BY <1>1, <1>3, SeqDef
<1>5. Kept(list, places) \in Seq(Range(list))
  BY <1>4 DEF Kept, place
<1> QED  BY <1>5, ListOfLevels DEF IsList

LEMMA InsertIsList ==
    ASSUME NEW list, IsList(list), NEW level, IsLevel(level)
    PROVE  IsList(Insert(list, level))
<1> DEFINE S == Range(list) \cup {level}
           places == {i \in DOMAIN list : Before(list[i], level)}
           n == Cardinality(places)
<1>1. list \in Seq(S) /\ \A l \in S : IsLevel(l)
  BY SeqMonotonic DEF IsList
<1>2. n \in Nat /\ n <= Len(list)
  <2>1. IsFiniteSet(places) /\ n <= Cardinality(DOMAIN list)
    BY ListProperties, FS_Subset
  <2>2. Cardinality(DOMAIN list) = Len(list)
    BY ListProperties, FS_Interval
  <2> QED  BY <2>1, <2>2, FS_CardinalityType
<1> HIDE DEF n, S
<1>3. DOMAIN list = 1..Len(list) /\ \A i \in 1..Len(list) : list[i] \in S
  BY <1>1, ElementOfSeq, LenProperties
<1>4. SubSeq(list, 1, n) \in Seq(S) /\ SubSeq(list, n + 1, Len(list)) \in Seq(S)
  BY <1>2, <1>3, SubSeqProperties, ListProperties
<1>5. <<level>> \in Seq(S)
  BY DEF S
<1>6. SubSeq(list, 1, n) \o <<level>> \o SubSeq(list, n + 1, Len(list)) \in Seq(S)
  BY <1>4, <1>5, ConcatProperties
<1>7. Insert(list, level) \in Seq(S)
  BY <1>6 DEF Insert, n
<1> QED  BY <1>1, <1>7, ListOfLevels

LEMMA FilesIsList ==
    ASSUME IsList(levels)
    PROVE  IsList(Files)
<1> DEFINE renamed == Kept(levels, {i \in DOMAIN levels : levels[i].stored # "memory"})
<1>1. IsList(renamed)
  BY KeptIsList
<1> HIDE DEF renamed
<1> DEFINE S == {FileOf(l) : l \in Range(renamed)}
<1>2. \A l \in S : IsLevel(l)
  <2> SUFFICES ASSUME NEW l, IsLevel(l) PROVE IsLevel(FileOf(l))
    BY <1>1 DEF IsList
  <2> QED  BY DEF FileOf, IsLevel
<1>3. /\ Len(renamed) \in Nat /\ DOMAIN renamed = 1..Len(renamed)
      /\ \A i \in DOMAIN renamed : FileOf(renamed[i]) \in S
  BY <1>1, ListProperties
<1> HIDE DEF S
<1>4. [i \in DOMAIN renamed |-> FileOf(renamed[i])] \in Seq(S)
  BY <1>3, SeqDef
<1>5. Files \in Seq(S)
  BY <1>4 DEF Files, renamed
<1> QED  BY <1>2, <1>5, ListOfLevels

(* No level 0 of the second list is dumped but for those that were in the   *)
(* first, k places before.                                                 *)
LEMMA FewerDumped ==
    ASSUME NEW one, IsList(one), NEW two, DOMAIN two \subseteq Int, NEW k \in Int,
           \A i \in DOMAIN two : DumpedLevel0(two[i]) =>
               i - k \in DOMAIN one /\ DumpedLevel0(one[i - k])
    PROVE  MergeCheck(two) => MergeCheck(one)
<1> DEFINE S == {i \in DOMAIN one : DumpedLevel0(one[i])}
           T == {i \in DOMAIN two : DumpedLevel0(two[i])}
           f == [i \in T |-> i - k]
<1>1. IsFiniteSet(S)
  BY ListProperties, FS_Subset
<1>2. f \in Injection(T, S)
  BY DEF Injection, IsInjective
<1> HIDE DEF f
<1>3. IsFiniteSet(T) /\ Cardinality(T) <= Cardinality(S)
  BY <1>1, <1>2, FS_Injection
<1>4. Cardinality(T) \in Nat /\ Cardinality(S) \in Nat
  BY <1>1, <1>3, FS_CardinalityType
<1>5. (MergeCheck(one) <=> Cardinality(S) > 1) /\ (MergeCheck(two) <=> Cardinality(T) > 1)
  BY DEF MergeCheck, DumpedLevel0
<1> QED  BY <1>3, <1>4, <1>5

(* A level, or a task, that gets a new value in a field is one.            *)
LEMMA ReplacedField ==
    ASSUME NEW l, IsLevel(l), NEW e
    PROVE  /\ IsLevel([l EXCEPT !.stored = e]) /\ [l EXCEPT !.stored = e].stored = e
           /\ IsLevel([l EXCEPT !.profiles = e])
           /\ IsLevel([l EXCEPT !.file = e]) /\ [l EXCEPT !.file = e].stored = l.stored
<1>1. IsLevel([l EXCEPT !.stored = e]) /\ [l EXCEPT !.stored = e].stored = e
  BY DEF IsLevel
<1>2. IsLevel([l EXCEPT !.profiles = e])
  BY DEF IsLevel
<1>3. IsLevel([l EXCEPT !.file = e]) /\ [l EXCEPT !.file = e].stored = l.stored
  BY DEF IsLevel
<1> QED  BY <1>1, <1>2, <1>3

LEMMA ReplacedFields ==
    ASSUME NEW l, IsLevel(l), NEW s, NEW p, NEW f
    PROVE  /\ IsLevel([l EXCEPT !.stored = s, !.file = f])
           /\ [l EXCEPT !.stored = s, !.file = f].stored = s
           /\ IsLevel([l EXCEPT !.stored = s, !.profiles = p, !.file = f])
<1>1. [l EXCEPT !.stored = s, !.file = f] = [[l EXCEPT !.stored = s] EXCEPT !.file = f]
  OBVIOUS
<1>2. [l EXCEPT !.stored = s, !.profiles = p, !.file = f] =
          [[[l EXCEPT !.stored = s] EXCEPT !.profiles = p] EXCEPT !.file = f]
  OBVIOUS
<1>3. IsLevel([l EXCEPT !.stored = s]) /\ [l EXCEPT !.stored = s].stored = s
  BY ReplacedField
<1>4. IsLevel([[l EXCEPT !.stored = s] EXCEPT !.profiles = p])
  BY <1>3, ReplacedField
<1>5. /\ IsLevel([[l EXCEPT !.stored = s] EXCEPT !.file = f])
      /\ [[l EXCEPT !.stored = s] EXCEPT !.file = f].stored = s
      /\ IsLevel([[[l EXCEPT !.stored = s] EXCEPT !.profiles = p] EXCEPT !.file = f])
  BY <1>3, <1>4, ReplacedField
<1> QED  BY <1>1, <1>2, <1>5

LEMMA MovedTask ==
    ASSUME NEW t, IsTask(t), NEW e
    PROVE  IsTask([t EXCEPT !.step = e]) /\ [t EXCEPT !.step = e].merge = t.merge
BY DEF IsTask

LEMMA ExchangeKeeps ==
    ASSUME MergeInv, NEW profiles, Exchange(profiles)
    PROVE  /\ IsList(levels') /\ \A task \in dumps' : IsTask(task)
           /\ dumps \subseteq dumps'
           /\ MergeCheck(levels') => MergeCheck(levels)
<1>1. CASE profiles = NoProfiles
  BY <1>1 DEF Exchange, MergeInv
<1>2. CASE profiles # NoProfiles
  <2> DEFINE new == [index |-> 0, sub_index |-> NewSubIndex, profiles |-> profiles,
                     stored |-> "memory", file |-> NoProfiles]
             S == Range(levels) \cup {new}
  <2>1. levels' = <<new>> \o levels
    BY <1>2 DEF Exchange
  <2>2. IsLevel(new) /\ ~DumpedLevel0(new)
    BY DEF IsLevel, DumpedLevel0, Dumped
  <2> HIDE DEF new
  <2>3. levels \in Seq(S) /\ <<new>> \in Seq(S) /\ \A l \in S : IsLevel(l)
    BY <2>2, SeqMonotonic DEF MergeInv, IsList
  <2> HIDE DEF S
  <2>4. /\ levels' \in Seq(S) /\ Len(levels') = 1 + Len(levels)
        /\ \A i \in 1..(1 + Len(levels)) :
              levels'[i] = IF i <= 1 THEN <<new>>[i] ELSE levels[i - 1]
    BY <2>1, <2>3, ConcatProperties
  <2>5. IsList(levels')
    BY <2>3, <2>4, ListOfLevels
  <2>6. \A i \in DOMAIN levels' : DumpedLevel0(levels'[i]) =>
            i - 1 \in DOMAIN levels /\ DumpedLevel0(levels[i - 1])
    <3>1. /\ DOMAIN levels' = 1..(1 + Len(levels)) /\ DOMAIN levels = 1..Len(levels)
          /\ Len(levels) \in Nat
      BY <2>4, <2>5, ListProperties DEF MergeInv
    <3>2. levels'[1] = new
      BY <2>4, <3>1
    <3> QED  BY <2>2, <2>4, <3>1, <3>2
  <2>7. MergeCheck(levels') => MergeCheck(levels)
    <3>1. DOMAIN levels' \subseteq Int
      BY <2>5, ListProperties
    <3> QED  BY <2>6, <3>1, FewerDumped DEF MergeInv
  <2>8. dumps \subseteq dumps' /\ \A task \in dumps' : IsTask(task)
    <3> DEFINE t == [sub_index |-> NewSubIndex, step |-> "write",
                     upto |-> Max({profiles[k].ver : k \in DOMAIN profiles}),
                     area |-> AreaSize(profiles), merge |-> FALSE]
    <3>1. dumps' = dumps \cup {t}
      BY <1>2 DEF Exchange
    <3>2. IsTask(t)
      BY DEF IsTask
    <3> HIDE DEF t
    <3> QED  BY <3>1, <3>2 DEF MergeInv
  <2> QED  BY <2>5, <2>7, <2>8
<1> QED  BY <1>1, <1>2

(* A level that is written or swapped for its file stays in its place.     *)
LEMMA ReplacedIsList ==
    ASSUME IsList(levels), NEW i, NEW level, IsLevel(level),
           levels' = [levels EXCEPT ![i] = level]
    PROVE  IsList(levels')
<1> DEFINE S == Range(levels) \cup {level}
<1>1. /\ Len(levels) \in Nat /\ DOMAIN levels = 1..Len(levels)
      /\ \A j \in DOMAIN levels : levels[j] \in S
  BY ListProperties
<1>2. \A l \in S : IsLevel(l)
  BY DEF IsList
<1> HIDE DEF S
<1>3. level \in S
  BY DEF S
<1>4. levels' \in [1..Len(levels) -> S]
  BY <1>1, <1>3
<1>5. levels' \in Seq(S)
  BY <1>1, <1>4, SeqDef
<1> QED  BY <1>2, <1>5, ListOfLevels

LEMMA WriteLevelKeeps ==
    ASSUME MergeInv, NEW task \in dumps, WriteLevel(task)
    PROVE  MergeInv'
<1> DEFINE i == DumpedLevel(task)
<1>1. /\ levels' = [levels EXCEPT ![i].stored = "written",
                                  ![i].file = Unexpired(levels[i].profiles)]
      /\ dumps' = (dumps \ {task}) \cup {[task EXCEPT !.step = "swap"]}
      /\ UNCHANGED <<merge, status>>
  BY DEF WriteLevel, DumpMove, counters
<1> HIDE DEF i
<1> DEFINE level == [levels[i] EXCEPT !.stored = "written",
                                      !.file = Unexpired(levels[i].profiles)]
<1>2. IsTask([task EXCEPT !.step = "swap"]) /\ [task EXCEPT !.step = "swap"].merge = task.merge
  BY MovedTask DEF MergeInv
<1>3. /\ Len(levels) \in Nat /\ DOMAIN levels = 1..Len(levels)
      /\ \A j \in DOMAIN levels : IsLevel(levels[j])
  BY ListProperties DEF MergeInv
<1>4. CASE i \in DOMAIN levels
  <2>1. IsLevel(level) /\ level.stored = "written"
    BY <1>3, <1>4, ReplacedFields
  <2>2. levels' = [levels EXCEPT ![i] = level]
    BY <1>1, <1>4
  <2> HIDE DEF level
  <2>3. IsList(levels')
    BY <2>1, <2>2, ReplacedIsList DEF MergeInv
  <2>4. /\ DOMAIN levels' = DOMAIN levels /\ levels'[i] = level
        /\ \A j \in DOMAIN levels : j # i => levels'[j] = levels[j]
    BY <2>2, <1>4
  <2>5. MergeCheck(levels') => MergeCheck(levels)
    <3>1. \A j \in DOMAIN levels' : DumpedLevel0(levels'[j]) =>
              j - 0 \in DOMAIN levels /\ DumpedLevel0(levels[j - 0])
      BY <1>3, <2>1, <2>4 DEF DumpedLevel0, Dumped
    <3>2. IsList(levels) /\ DOMAIN levels' \subseteq Int
      BY <1>3, <2>4 DEF MergeInv
    <3> QED  BY <3>1, <3>2, FewerDumped
  <2> QED  BY <1>1, <1>2, <2>3, <2>5 DEF MergeInv, MergeIsScheduled
<1>5. CASE i \notin DOMAIN levels
  <2>1. levels' = levels
    BY <1>1, <1>3, <1>5, LenProperties DEF MergeInv, IsList
  <2> QED  BY <1>1, <1>2, <2>1 DEF MergeInv, MergeIsScheduled
<1> QED  BY <1>4, <1>5

(* The task that swaps the second level 0 for its file asks for the merge. *)
LEMMA SwapLevelKeeps ==
    ASSUME MergeInv, NEW task \in dumps, SwapLevel(task)
    PROVE  MergeInv'
<1> DEFINE i == DumpedLevel(task)
           new == [task EXCEPT !.step = "count", !.merge = MergeCheck(levels')]
<1>1. /\ levels' = [levels EXCEPT ![i].stored = "file", ![i].profiles = levels[i].file,
                                  ![i].file = NoProfiles]
      /\ dumps' = (dumps \ {task}) \cup {new}
      /\ UNCHANGED merge
  BY DEF SwapLevel
<1> HIDE DEF i
<1> DEFINE level == [levels[i] EXCEPT !.stored = "file", !.profiles = levels[i].file,
                                      !.file = NoProfiles]
<1>2. MergeCheck(levels') \in BOOLEAN
  BY DEF MergeCheck
<1>3. IsTask(new) /\ new.merge = MergeCheck(levels')
  <2>1. IsTask(task)
    BY DEF MergeInv
  <2> DEFINE m == MergeCheck(levels')
  <2>2. m \in BOOLEAN /\ new = [task EXCEPT !.step = "count", !.merge = m]
    BY <1>2
  <2> HIDE DEF m, new
  <2>3. new = [[task EXCEPT !.step = "count"] EXCEPT !.merge = m]
    BY <2>2
  <2> DEFINE counting == [task EXCEPT !.step = "count"]
  <2>4. IsTask(counting)
    BY <2>1, MovedTask
  <2> HIDE DEF counting
  <2>5. IsTask([counting EXCEPT !.merge = m]) /\ [counting EXCEPT !.merge = m].merge = m
    BY <2>2, <2>4 DEF IsTask
  <2> QED  BY <2>3, <2>5 DEF m, counting
<1>4. /\ Len(levels) \in Nat /\ DOMAIN levels = 1..Len(levels)
      /\ \A j \in DOMAIN levels : IsLevel(levels[j])
  BY ListProperties DEF MergeInv
<1>5. IsList(levels')
  <2>1. CASE i \in DOMAIN levels
    <3>1. IsLevel(level)
      BY <1>4, <2>1, ReplacedFields
    <3>2. levels' = [levels EXCEPT ![i] = level]
      BY <1>1, <2>1
    <3> QED  BY <3>1, <3>2, ReplacedIsList DEF MergeInv
  <2>2. CASE i \notin DOMAIN levels
    <3>1. levels' = levels
      BY <1>1, <1>4, <2>2, LenProperties DEF MergeInv, IsList
    <3> QED  BY <3>1 DEF MergeInv
  <2> QED  BY <2>1, <2>2
<1> HIDE DEF new
<1> QED  BY <1>1, <1>3, <1>5 DEF MergeInv, MergeIsScheduled

LEMMA TaskKeepsMerge ==
    ASSUME MergeInv, Dump \/ Merge
    PROVE  MergeInv'
<1>1. ASSUME NEW task \in dumps, CountDumped(task) PROVE MergeInv'
  <2>1. /\ dumps' = (dumps \ {task}) \cup {[task EXCEPT !.step = "enqueue"]}
        /\ UNCHANGED <<levels, merge, status>>
    BY <1>1 DEF CountDumped, DumpMove, counters
  <2>2. /\ IsTask([task EXCEPT !.step = "enqueue"])
        /\ [task EXCEPT !.step = "enqueue"].merge = task.merge
    BY MovedTask DEF MergeInv
  <2> QED  BY <2>1, <2>2 DEF MergeInv, MergeIsScheduled
<1>2. ASSUME NEW task \in dumps, EnqueueMerge(task) PROVE MergeInv'
  BY <1>2 DEF EnqueueMerge, MergeInv, MergeIsScheduled, IsTask
<1>3. CASE BeginMerge
  <2>1. UNCHANGED <<levels, dumps, status>> /\ merge'.step # "none"
    BY <1>3 DEF BeginMerge
  <2>2. merge'.step = "swap" => IsLevel(merge'.result)
    BY <1>3 DEF BeginMerge, MergedLevel, IsLevel
  <2> QED  BY <2>1, <2>2 DEF MergeInv, MergeIsScheduled
<1>4. CASE InterruptMerge \/ FailMerge \/ CountMerged
  BY <1>4 DEF InterruptMerge, FailMerge, CountMerged, MergeInv, MergeIsScheduled
<1>5. CASE SwapMerged
  <2>1. IsList(levels')
    BY <1>5, KeptIsList, InsertIsList DEF SwapMerged, MergeInv
  <2>2. UNCHANGED dumps /\ merge'.step = "count"
    BY <1>5 DEF SwapMerged
  <2> QED  BY <2>1, <2>2 DEF MergeInv, MergeIsScheduled
<1>6. CASE Recheck
  BY <1>6 DEF Recheck, StopMerge, MergeInv, MergeIsScheduled
<1>7. CASE \E level \in removing : Unlink(level)
  BY <1>7 DEF Unlink, tasks, MergeInv, MergeIsScheduled
<1> QED
  BY <1>1, <1>2, <1>3, <1>4, <1>5, <1>6, <1>7, WriteLevelKeeps, SwapLevelKeeps DEF Dump, Merge

(* A start among files that were to be removed is the last of a process.   *)
TornMap == status = "torn"

LEMMA TornIsLast ==
    [Next]_vars => (TornMap' <=> TornMap \/ (StartAmongRemoved /\ UNCHANGED transactions))
<1> SUFFICES ASSUME [Next]_vars
             PROVE  status' = "torn" <=>
                        status = "torn" \/ (StartAmongRemoved /\ UNCHANGED transactions)
  BY DEF TornMap
<1>0. StartAmongRemoved => status # "torn" /\ status' = "torn"
  BY DEF StartAmongRemoved
<1>1. ASSUME NEW c \in Client, ClientNext(c) PROVE status' = status
  <2>1. CASE Write(c)
    BY <2>1 DEF Write, Put
  <2>2. CASE ~Write(c)
    BY <1>1, <2>2 DEF ClientNext, GetTransaction, GetBackgroundTransaction, ReadBegin,
       ReadEnd, WaitForRoom, EndTransaction, Leave, WaitBackground, TakeSnapshot, DropSnapshot, Wait,
       levelVars
  <2> QED  BY <2>1, <2>2
<1>2. CASE TaskNext
  <2> SUFFICES status' = status
    BY <1>0
  <2>1. CASE Dump
    BY <2>1 DEF Dump, WriteLevel, SwapLevel, CountDumped, EnqueueMerge
  <2>2. CASE Merge
    BY <2>2 DEF Merge, BeginMerge, InterruptMerge, FailMerge, SwapMerged, CountMerged, Recheck, Unlink
  <2> QED  BY <1>2, <2>1, <2>2 DEF TaskNext
<1>3. CASE ProcessNext
  <2>1. CASE Deactivate \/ WaitObject \/ Start \/ GrowOld \/ Finish \/ Crash
    BY <1>0, <2>1 DEF Finish, Deactivate, WaitObject, Start, GrowOld, AllDumped, AllMerged, Crash, Down
  <2>2. CASE StartAmongRemoved /\ UNCHANGED transactions
    BY <1>0, <2>2
  <2> QED  BY <1>3, <2>1, <2>2 DEF ProcessNext
<1>4. CASE UNCHANGED vars
  BY <1>0, <1>4 DEF vars, levelVars
<1> QED  BY <1>0, <1>1, <1>2, <1>3, <1>4 DEF Next

LEMMA InitMerge == Init => MergeInv
<1> SUFFICES ASSUME Init PROVE MergeInv
  OBVIOUS
<1>1. levels = <<>> /\ dumps = {} /\ merge = [step |-> "none"]
  BY DEF Init, LevelInit
<1>2. IsList(levels)
  BY <1>1 DEF IsList, Range
<1>3. ~MergeCheck(levels)
  BY <1>1, FS_EmptySet DEF MergeCheck
<1> QED  BY <1>1, <1>2, <1>3 DEF MergeInv, MergeIsScheduled

LEMMA StepKeepsMerge == MergeInv /\ [Next]_vars => MergeInv' \/ TornMap'
<1> SUFFICES ASSUME MergeInv, [Next]_vars, ~TornMap' PROVE MergeInv'
  OBVIOUS
<1>1. ASSUME UNCHANGED <<levels, dumps, merge, status>> PROVE MergeInv'
  BY <1>1 DEF MergeInv, MergeIsScheduled
<1>2. ASSUME NEW c \in Client, ClientNext(c) PROVE MergeInv'
  <2>1. CASE Write(c)
    <3>1. PICK erased \in BOOLEAN : Put(txn[c].key, erased)
      BY <2>1 DEF Write
    <3>2. /\ UNCHANGED <<merge, status>>
          /\ \/ UNCHANGED <<levels, dumps>>
             \/ \E profiles : Exchange(profiles)
      BY <3>1 DEF Put
    <3> QED  BY <3>2, <1>1, ExchangeKeeps DEF MergeInv, MergeIsScheduled
  <2>2. CASE ~Write(c)
    BY <1>2, <2>2, <1>1 DEF ClientNext, GetTransaction, GetBackgroundTransaction, ReadBegin,
       ReadEnd, WaitForRoom, EndTransaction, Leave, WaitBackground, TakeSnapshot, DropSnapshot, Wait,
       levelVars, tasks
  <2> QED  BY <2>1, <2>2
<1>3. CASE TaskNext
  BY <1>3, TaskKeepsMerge DEF TaskNext
<1>4. CASE Deactivate \/ WaitObject
  <2>1. PICK profiles : Exchange(profiles)
    BY <1>4 DEF Deactivate, WaitObject
  <2>2. UNCHANGED merge /\ status \in {"up", "stopping"}
    BY <1>4 DEF Deactivate, WaitObject
  <2> QED  BY <2>1, <2>2, ExchangeKeeps DEF MergeInv, MergeIsScheduled
<1>5. CASE Start
  BY <1>5 DEF Start, MergeInv, MergeIsScheduled
<1>6. CASE GrowOld
  BY <1>6, <1>1 DEF GrowOld, tasks
<1>7. CASE AllDumped
  BY <1>7 DEF AllDumped, tasks, MergeInv, MergeIsScheduled
<1>8. CASE AllMerged \/ Crash
  <2>1. /\ IsList(levels') /\ dumps' = {} /\ merge'.step = "none"
        /\ status' \in {"down", "crashed"}
    BY <1>8, FilesIsList DEF AllMerged, Crash, MergeInv
  <2> QED  BY <2>1 DEF MergeInv, MergeIsScheduled
<1>9. CASE UNCHANGED vars
  BY <1>9, <1>1 DEF vars, levelVars
<1>10. ~StartAmongRemoved
  BY DEF StartAmongRemoved, TornMap
<1> QED  BY <1>2, <1>3, <1>4, <1>5, <1>6, <1>7, <1>8, <1>9, <1>10 DEF Next, ProcessNext, Finish

(* Whatever the order in which dumps and merges end, fail and are begun     *)
(* again, and whatever a stop or a crash leaves to load, two dumped levels 0 *)
(* have a merge coming ("dump_mem_level_ can cancel merge enqueue inside    *)
(* this lock if merge already in progress").                               *)
THEOREM LevelsAreMerged == Spec => []MergeIsScheduled
<1>1. MergeInv \/ TornMap => MergeIsScheduled
  BY DEF MergeInv, MergeIsScheduled, TornMap
<1>2. (MergeInv \/ TornMap) /\ [Next]_vars => MergeInv' \/ TornMap'
  BY StepKeepsMerge, TornIsLast
<1> QED  BY <1>1, <1>2, InitMerge, PTL DEF Spec

-----------------------------------------------------------------------------
(* Lists of profiles: of each key the first that has it is found.          *)

LEMMA LeastIs ==
    ASSUME NEW S \in SUBSET Nat, S # {}
    PROVE  Min(S) \in S /\ \A n \in S : Min(S) <= n
BY Smallest DEF Min

LEMMA GreatestIs ==
    ASSUME NEW S \in SUBSET Nat, S # {}, NEW bound \in Nat, \A n \in S : n <= bound
    PROVE  Max(S) \in S /\ \A n \in S : n <= Max(S)
<1> DEFINE T == {bound - n : n \in S}
<1>1. PICK m \in T : \A n \in T : m <= n
  <2>1. \A n \in S : bound - n \in Nat
    OBVIOUS
  <2>2. T \in SUBSET Nat /\ T # {}
    BY <2>1
  <2> QED  BY <2>2, Smallest
<1>2. PICK top \in S : m = bound - top
  BY <1>1
<1>3. \A n \in S : n <= top
  <2> SUFFICES ASSUME NEW n \in S PROVE n <= top
    OBVIOUS
  <2>1. m <= bound - n
    BY <1>1
  <2> QED  BY <1>2, <2>1
<1> QED  BY <1>2, <1>3 DEF Max

(* What expires keeps its number: what a reader is shown may lose a        *)
(* profile whose time is over, and no other.                               *)
Expires(before, after, time) ==
    /\ after.ver = before.ver
    /\ after.erased = before.erased \/ (after.erased /\ after.ver <= time)

LEMMA ExpiresIs ==
    \A before, after : Store!SameOrExpired(before, after) <=> Expires(before, after, old)
BY DEF Store!SameOrExpired, Expires

LEMMA ExpiresSame == \A before, time : Expires(before, before, time)
BY DEF Expires

LEMMA ExpiresOn ==
    ASSUME NEW before, NEW between, NEW after, NEW time,
           Expires(before, between, time), Expires(between, after, time)
    PROVE  Expires(before, after, time)
BY DEF Expires

LEMMA ExpiresLater ==
    ASSUME NEW before, NEW after, before.ver \in Int, NEW time \in Int, NEW later \in Int, time <= later,
           Expires(before, after, time)
    PROVE  Expires(before, after, later)
BY DEF Expires

(* The place of the list at which a key is found.                          *)
FoundAt(list, k, m) ==
    /\ m \in DOMAIN list /\ k \in DOMAIN list[m]
    /\ \A i \in DOMAIN list : i < m => k \notin DOMAIN list[i]

Absent(list, k) == \A i \in DOMAIN list : k \notin DOMAIN list[i]

LEMMA SearchAbsent ==
    ASSUME NEW list, NEW k, Absent(list, k)
    PROVE  Search(list, k) = Nothing
BY DEF Search, Absent

LEMMA SearchFound ==
    ASSUME NEW list, NEW n \in Nat, DOMAIN list = 1..n, NEW k, NEW m, FoundAt(list, k, m)
    PROVE  Search(list, k) = list[m][k]
<1> DEFINE having == {i \in DOMAIN list : k \in DOMAIN list[i]}
<1>1. m \in having /\ having \in SUBSET Nat /\ having # {}
  BY DEF FoundAt
<1>2. Min(having) \in having /\ Min(having) <= m
  BY <1>1, LeastIs
<1>3. ~(Min(having) < m)
  BY <1>2 DEF FoundAt
<1>4. Min(having) = m
  BY <1>1, <1>2, <1>3
<1>5. Search(list, k) = IF having = {} THEN Nothing ELSE list[Min(having)][k]
  BY DEF Search
<1> QED  BY <1>1, <1>4, <1>5

LEMMA FoundOrAbsent ==
    ASSUME NEW list, NEW n \in Nat, DOMAIN list = 1..n, NEW k
    PROVE  Absent(list, k) \/ \E m \in 1..n : FoundAt(list, k, m)
<1> DEFINE having == {i \in DOMAIN list : k \in DOMAIN list[i]}
<1>1. CASE having = {}
  BY <1>1 DEF Absent
<1>2. CASE having # {}
  <2>1. having \in SUBSET Nat
    OBVIOUS
  <2>2. PICK m \in having : \A i \in having : m <= i
    BY <1>2, <2>1, Smallest
  <2>3. \A i \in DOMAIN list : i < m => k \notin DOMAIN list[i]
    BY <2>1, <2>2
  <2> QED  BY <2>2, <2>3 DEF FoundAt
<1> QED  BY <1>1, <1>2

(* A block of the list that gives way to one element, in which each key    *)
(* stands for the one that was found in the block.                         *)
BlockReplaced(one, n, a, b, two) ==
    /\ n \in Nat /\ a \in 1..n /\ b \in a..n
    /\ DOMAIN one = 1..n /\ DOMAIN two = 1..(n - (b - a))
    /\ \A i \in 1..(a - 1) : two[i] = one[i]
    /\ \A i \in (a + 1)..(n - (b - a)) : two[i] = one[i + (b - a)]

LEMMA SearchReplaced ==
    ASSUME NEW one, NEW n, NEW a, NEW b, NEW two, BlockReplaced(one, n, a, b, two), NEW k, NEW time,
           k \in DOMAIN two[a] <=> \E j \in a..b : k \in DOMAIN one[j],
           \A m \in a..b : k \in DOMAIN one[m] /\ (\A i \in a..(m - 1) : k \notin DOMAIN one[i])
               => Expires(one[m][k], two[a][k], time)
    PROVE  Expires(Search(one, k), Search(two, k), time)
<1> n \in Nat /\ a \in Nat /\ b \in Nat /\ 1 <= a /\ a <= b /\ b <= n /\ n - (b - a) \in Nat
  BY DEF BlockReplaced
<1>0. DOMAIN one = 1..n /\ DOMAIN two = 1..(n - (b - a))
  BY DEF BlockReplaced
<1>1. CASE Absent(one, k)
  <2>1. \A j \in a..b : k \notin DOMAIN one[j]
    BY <1>0, <1>1 DEF Absent
  <2>2. ASSUME NEW i \in DOMAIN two PROVE k \notin DOMAIN two[i]
    <3>1. CASE i < a
      <4>1. i \in 1..(a - 1) /\ i \in DOMAIN one
        BY <1>0, <3>1
      <4> QED  BY <1>1, <4>1 DEF Absent, BlockReplaced
    <3>2. CASE i = a
      BY <2>1, <3>2
    <3>3. CASE i > a
      <4>1. i \in (a + 1)..(n - (b - a)) /\ i + (b - a) \in DOMAIN one
        BY <1>0, <3>3
      <4> QED  BY <1>1, <4>1 DEF Absent, BlockReplaced
    <3> QED  BY <1>0, <3>1, <3>2, <3>3
  <2>3. Absent(two, k)
    BY <2>2 DEF Absent
  <2> QED  BY <1>1, <2>3, SearchAbsent, ExpiresSame
<1>2. ASSUME NEW m \in 1..n, FoundAt(one, k, m) PROVE Expires(Search(one, k), Search(two, k), time)
  <2>0. Search(one, k) = one[m][k] /\ k \in DOMAIN one[m]
    BY <1>0, <1>2, SearchFound DEF FoundAt
  <2>1. \A i \in 1..(m - 1) : k \notin DOMAIN one[i]
    BY <1>0, <1>2 DEF FoundAt
  <2>2. ASSUME NEW p, FoundAt(two, k, p) PROVE Search(two, k) = two[p][k]
    BY <1>0, <2>2, SearchFound
  <2>3. CASE m < a
    <3>1. ASSUME NEW i \in 1..m PROVE two[i] = one[i] /\ i \in DOMAIN two
      <4>1. i \in 1..(a - 1) /\ i \in 1..(n - (b - a))
        BY <2>3
      <4> QED  BY <1>0, <4>1 DEF BlockReplaced
    <3>2. FoundAt(two, k, m)
      <4>1. m \in DOMAIN two /\ k \in DOMAIN two[m]
        BY <2>0, <3>1
      <4>2. ASSUME NEW i \in DOMAIN two, i < m PROVE k \notin DOMAIN two[i]
        <5>1. i \in 1..(m - 1) /\ i \in 1..m
          BY <1>0, <4>2
        <5> QED  BY <2>1, <3>1, <5>1
      <4> QED  BY <4>1, <4>2 DEF FoundAt
    <3> QED  BY <2>0, <2>2, <3>1, <3>2, ExpiresSame
  <2>4. CASE m \in a..b
    <3>1. k \in DOMAIN two[a] /\ a \in DOMAIN two
      BY <1>0, <2>0, <2>4
    <3>2. \A i \in DOMAIN two : i < a => k \notin DOMAIN two[i]
      BY <1>0, <2>1, <2>4 DEF BlockReplaced
    <3>3. Search(two, k) = two[a][k]
      BY <2>2, <3>1, <3>2 DEF FoundAt
    <3>4. \A i \in a..(m - 1) : k \notin DOMAIN one[i]
      BY <2>1
    <3> QED  BY <2>0, <2>4, <3>3, <3>4
  <2>5. CASE m > b
    <3> DEFINE p == m - (b - a)
    <3>1. p \in (a + 1)..(n - (b - a)) /\ p + (b - a) = m
      BY <2>5
    <3>2. two[p] = one[m] /\ p \in DOMAIN two
      BY <1>0, <3>1 DEF BlockReplaced
    <3>3. ASSUME NEW i \in DOMAIN two, i < p PROVE k \notin DOMAIN two[i]
      <4>1. CASE i < a
        BY <1>0, <2>1, <2>5, <4>1 DEF BlockReplaced
      <4>2. CASE i = a
        BY <2>1, <2>5, <4>2
      <4>3. CASE i > a
        <5>1. i \in (a + 1)..(n - (b - a)) /\ i + (b - a) \in 1..(m - 1)
          BY <1>0, <3>3, <4>3
        <5> QED  BY <2>1, <5>1 DEF BlockReplaced
      <4> QED  BY <1>0, <4>1, <4>2, <4>3
    <3> HIDE DEF p
    <3>4. Search(two, k) = two[p][k]
      BY <2>0, <2>2, <3>2, <3>3 DEF FoundAt
    <3> QED  BY <2>0, <3>2, <3>4, ExpiresSame
  <2> QED  BY <2>3, <2>4, <2>5
<1> QED  BY <1>0, <1>1, <1>2, FoundOrAbsent

(* An element in front of a list is searched first.                        *)
LEMMA SearchBehind ==
    ASSUME NEW n \in Nat, NEW list, DOMAIN list = 1..n, NEW all, DOMAIN all = 1..(n + 1),
           \A i \in 1..n : all[i + 1] = list[i], NEW k
    PROVE  Search(all, k) = IF k \in DOMAIN all[1] THEN all[1][k] ELSE Search(list, k)
<1>1. CASE k \in DOMAIN all[1]
  <2>1. 1 \in DOMAIN all /\ \A i \in DOMAIN all : ~(i < 1)
    OBVIOUS
  <2>2. FoundAt(all, k, 1)
    BY <1>1, <2>1 DEF FoundAt
  <2>3. Search(all, k) = all[1][k]
    BY <2>2, SearchFound
  <2> QED  BY <1>1, <2>3
<1>2. CASE k \notin DOMAIN all[1]
  <2>1. CASE Absent(list, k)
    <3>1. \A i \in DOMAIN all : i = 1 \/ (i - 1 \in 1..n /\ all[i] = list[i - 1])
      OBVIOUS
    <3>2. Absent(all, k)
      BY <1>2, <2>1, <3>1 DEF Absent
    <3> QED  BY <1>2, <2>1, <3>2, SearchAbsent
  <2>2. ASSUME NEW m \in 1..n, FoundAt(list, k, m) PROVE Search(all, k) = Search(list, k)
    <3>1. \A i \in DOMAIN all : i < m + 1 => k \notin DOMAIN all[i]
      <4> SUFFICES ASSUME NEW i \in DOMAIN all, i < m + 1 PROVE k \notin DOMAIN all[i]
        OBVIOUS
      <4>1. CASE i = 1
        BY <1>2, <4>1
      <4>2. CASE i # 1
        <5>1. i - 1 \in 1..n /\ all[i] = list[i - 1] /\ i - 1 < m
          BY <4>2
        <5> QED  BY <2>2, <5>1 DEF FoundAt
      <4> QED  BY <4>1, <4>2
    <3>2. FoundAt(all, k, m + 1) /\ all[m + 1] = list[m]
      BY <2>2, <3>1 DEF FoundAt
    <3>3. Search(all, k) = all[m + 1][k]
      BY <3>2, SearchFound
    <3> QED  BY <2>2, <3>2, <3>3, SearchFound
  <2> QED  BY <1>2, <2>1, <2>2, FoundOrAbsent
<1> QED  BY <1>1, <1>2

LEMMA SearchFront ==
    ASSUME NEW p, NEW S, NEW list \in Seq(S), NEW k
    PROVE  Search(<<p>> \o list, k) = IF k \in DOMAIN p THEN p[k] ELSE Search(list, k)
<1> DEFINE all == <<p>> \o list
           n == Len(list)
<1>1. n \in Nat /\ DOMAIN list = 1..n /\ \A i \in 1..n : list[i] \in S
  BY LenProperties, ElementOfSeq
<1>2. DOMAIN all = 1..(n + 1) /\ all[1] = p /\ \A i \in 1..n : all[i + 1] = list[i]
  <2> DEFINE T == S \cup {p}
  <2>1. list \in Seq(T) /\ <<p>> \in Seq(T) /\ Len(<<p>>) = 1
    BY SeqMonotonic
  <2>2. /\ all \in Seq(T) /\ Len(all) = 1 + n
        /\ \A i \in 1..(1 + n) : all[i] = IF i <= 1 THEN <<p>>[i] ELSE list[i - 1]
    BY <2>1, ConcatProperties
  <2>3. DOMAIN all = 1..(1 + n)
    BY <2>2, LenProperties
  <2> QED  BY <1>1, <2>2, <2>3
<1> HIDE DEF all, n
<1>3. Search(all, k) = IF k \in DOMAIN all[1] THEN all[1][k] ELSE Search(list, k)
  BY <1>1, <1>2, SearchBehind
<1> QED  BY <1>2, <1>3 DEF all

-----------------------------------------------------------------------------
(* What is kept of a list stays in its order.                              *)

Rank(S, i) == Cardinality({j \in S : j <= i})
Place(S, n) == CHOOSE i \in S : Rank(S, i) = n

LEMMA RankGrows ==
    ASSUME NEW S \in SUBSET Nat, IsFiniteSet(S)
    PROVE  /\ \A i \in S : Rank(S, i) \in 1..Cardinality(S)
           /\ \A i, k \in S : i < k => Rank(S, i) < Rank(S, k)
<1> DEFINE upto(i) == {j \in S : j <= i}
<1>1. ASSUME NEW i \in S PROVE IsFiniteSet(upto(i)) /\ Cardinality(upto(i)) \in 1..Cardinality(S)
  <2>1. IsFiniteSet(upto(i)) /\ Cardinality(upto(i)) <= Cardinality(S)
    BY FS_Subset
  <2>2. Cardinality(upto(i)) # 0
    BY <2>1, FS_EmptySet
  <2> QED  BY <2>1, <2>2, FS_CardinalityType
<1>2. ASSUME NEW i \in S, NEW k \in S, i < k PROVE Cardinality(upto(i)) < Cardinality(upto(k))
  <2> i \in Nat /\ k \in Nat /\ \A j \in S : j \in Nat
    OBVIOUS
  <2>0. \A j \in S : j <= i => j <= k
    BY <1>2
  <2>a. upto(i) \in SUBSET upto(k)
    BY <2>0
  <2>b. k \in upto(k) /\ k \notin upto(i)
    BY <1>2
  <2>1. upto(i) \in SUBSET upto(k) /\ k \in upto(k) /\ k \notin upto(i)
    BY <2>a, <2>b
  <2>2. /\ Cardinality(upto(i)) <= Cardinality(upto(k))
        /\ Cardinality(upto(i)) # Cardinality(upto(k))
    BY <2>1, <1>1, FS_Subset
  <2> QED  BY <2>2, <1>1, FS_CardinalityType
<1> QED  BY <1>1, <1>2 DEF Rank

LEMMA PlaceIs ==
    ASSUME NEW S \in SUBSET Nat, IsFiniteSet(S)
    PROVE  /\ Cardinality(S) \in Nat
           /\ \A n \in 1..Cardinality(S) : Place(S, n) \in S /\ Rank(S, Place(S, n)) = n
           /\ \A i \in S : Rank(S, i) \in 1..Cardinality(S) /\ Place(S, Rank(S, i)) = i
           /\ \A n, m \in 1..Cardinality(S) : n < m => Place(S, n) < Place(S, m)
<1>0. Cardinality(S) \in Nat
  BY FS_CardinalityType
<1>1. ASSUME NEW n \in 1..Cardinality(S) PROVE Place(S, n) \in S /\ Rank(S, Place(S, n)) = n
  BY RankExists DEF Place, Rank
<1>2. \A i, k \in S : Rank(S, i) = Rank(S, k) => i = k
  <2> SUFFICES ASSUME NEW i \in S, NEW k \in S, Rank(S, i) = Rank(S, k) PROVE i = k
    OBVIOUS
  <2>1. Rank(S, i) \in Nat /\ ~(i < k) /\ ~(k < i)
    BY RankGrows
  <2>2. i \in Nat /\ k \in Nat
    OBVIOUS
  <2> QED  BY <2>1, <2>2
<1>3. ASSUME NEW i \in S PROVE Rank(S, i) \in 1..Cardinality(S) /\ Place(S, Rank(S, i)) = i
  <2>1. Rank(S, i) \in 1..Cardinality(S)
    BY RankGrows
  <2>2. Place(S, Rank(S, i)) \in S /\ Rank(S, Place(S, Rank(S, i))) = Rank(S, i)
    BY <1>1, <2>1
  <2> QED  BY <1>2, <2>1, <2>2
<1>4. ASSUME NEW n \in 1..Cardinality(S), NEW m \in 1..Cardinality(S), n < m
      PROVE  Place(S, n) < Place(S, m)
  <2> DEFINE i == Place(S, n)
             k == Place(S, m)
  <2>1. i \in S /\ k \in S /\ i \in Nat /\ k \in Nat /\ Rank(S, i) = n /\ Rank(S, k) = m
    BY <1>1
  <2> HIDE DEF i, k
  <2>2. ~(k < i) /\ i # k
    <3>1. k < i => Rank(S, k) < Rank(S, i)
      BY <2>1, RankGrows
    <3> QED  BY <1>4, <2>1, <3>1
  <2> QED  BY <2>1, <2>2 DEF i, k
<1> QED  BY <1>0, <1>1, <1>3, <1>4

LEMMA KeptIs ==
    ASSUME NEW list, NEW S \in SUBSET Nat, IsFiniteSet(S)
    PROVE  /\ DOMAIN Kept(list, S) = 1..Cardinality(S)
           /\ \A n \in 1..Cardinality(S) : Kept(list, S)[n] = list[Place(S, n)]
BY DEF Kept, Place, Rank

LEMMA IntervalSize ==
    ASSUME NEW a \in Int, NEW b \in Int
    PROVE  IsFiniteSet(a..b) /\ Cardinality(a..b) = IF a > b THEN 0 ELSE b - a + 1
BY FS_Interval

(* Two ranges of a list, one behind the other.                             *)
Ranges(b, c, d) == (1..b) \cup (c..d)

LEMMA RangesSize ==
    ASSUME NEW b \in Int, NEW c \in Int, NEW d \in Int, 0 <= b, b < c, c <= d + 1
    PROVE  /\ IsFiniteSet(Ranges(b, c, d))
           /\ Cardinality(Ranges(b, c, d)) = b + (d - c + 1)
<1>1. (1..b) \cap (c..d) = {}
  OBVIOUS
<1>2. /\ IsFiniteSet(1..b) /\ Cardinality(1..b) = b
      /\ IsFiniteSet(c..d) /\ Cardinality(c..d) = d - c + 1
  <2>1. (IF 1 > b THEN 0 ELSE b - 1 + 1) = b
    OBVIOUS
  <2>2. (IF c > d THEN 0 ELSE d - c + 1) = d - c + 1
    OBVIOUS
  <2>3. IsFiniteSet(1..b) /\ Cardinality(1..b) = IF 1 > b THEN 0 ELSE b - 1 + 1
    BY IntervalSize
  <2>4. IsFiniteSet(c..d) /\ Cardinality(c..d) = IF c > d THEN 0 ELSE d - c + 1
    BY IntervalSize
  <2> QED  BY <2>1, <2>2, <2>3, <2>4
<1>3. /\ IsFiniteSet((1..b) \cup (c..d))
      /\ Cardinality((1..b) \cup (c..d)) = Cardinality(1..b) + Cardinality(c..d) - Cardinality({})
  <2>1. IsFiniteSet(1..b) /\ IsFiniteSet(c..d) /\ (1..b) \cap (c..d) = {}
    BY <1>1, <1>2
  <2> QED  BY <2>1, FS_Union
<1>4. b + (d - c + 1) = b + (d - c + 1) - 0
  OBVIOUS
<1> QED  BY <1>2, <1>3, <1>4, FS_EmptySet DEF Ranges

(* Without a block a list is what was before it and what was after it.     *)
LEMMA KeptAroundBlock ==
    ASSUME NEW list, NEW n \in Nat, DOMAIN list = 1..n, NEW a \in 1..n, NEW b \in a..n
    PROVE  LET kept == Kept(list, DOMAIN list \ (a..b))
           IN  /\ DOMAIN kept = 1..(n - (b - a) - 1)
               /\ \A i \in 1..(a - 1) : kept[i] = list[i]
               /\ \A i \in a..(n - (b - a) - 1) : kept[i] = list[i + (b - a) + 1]
<1> DEFINE S == (1..(a - 1)) \cup ((b + 1)..n)
<1>1. DOMAIN list \ (a..b) = S /\ S \in SUBSET Nat
  OBVIOUS
<1>2. IsFiniteSet(S) /\ Cardinality(S) = n - (b - a) - 1
  <2> DEFINE x == a - 1
             y == b + 1
  <2>1. x \in Int /\ y \in Int /\ 0 <= x /\ x < y /\ y <= n + 1
    OBVIOUS
  <2>2. S = Ranges(x, y, n) /\ x + (n - y + 1) = n - (b - a) - 1
    BY DEF Ranges
  <2> HIDE DEF x, y, S
  <2>3. /\ IsFiniteSet(Ranges(x, y, n))
        /\ Cardinality(Ranges(x, y, n)) = x + (n - y + 1)
    BY <2>1, RangesSize
  <2> QED  BY <2>2, <2>3
<1>3. \A i \in 1..(a - 1) : i \in S /\ Rank(S, i) = i
  <2> SUFFICES ASSUME NEW i \in 1..(a - 1) PROVE i \in S /\ Rank(S, i) = i
    OBVIOUS
  <2>1. {j \in S : j <= i} = 1..i
    OBVIOUS
  <2>2. Cardinality(1..i) = i
    BY IntervalSize
  <2> QED  BY <2>1, <2>2 DEF Rank
<1>4. \A i \in a..(n - (b - a) - 1) : i + (b - a) + 1 \in S /\ Rank(S, i + (b - a) + 1) = i
  <2> SUFFICES ASSUME NEW i \in a..(n - (b - a) - 1)
               PROVE  i + (b - a) + 1 \in S /\ Rank(S, i + (b - a) + 1) = i
    OBVIOUS
  <2> DEFINE p == i + (b - a) + 1
  <2>1. p \in (b + 1)..n
    OBVIOUS
  <2>2. {j \in S : j <= p} = (1..(a - 1)) \cup ((b + 1)..p)
    BY <2>1
  <2>3. Cardinality((1..(a - 1)) \cup ((b + 1)..p)) = i
    <3> DEFINE x == a - 1
               y == b + 1
    <3>1. x \in Int /\ y \in Int /\ p \in Int /\ 0 <= x /\ x < y /\ y <= p + 1
      BY <2>1
    <3>2. x + (p - y + 1) = i
      OBVIOUS
    <3> HIDE DEF x, y, p
    <3>3. Cardinality(Ranges(x, y, p)) = x + (p - y + 1)
      BY <3>1, RangesSize
    <3> QED  BY <3>2, <3>3 DEF x, y, Ranges
  <2> HIDE DEF S
  <2>5. Rank(S, p) = i
    BY <2>2, <2>3 DEF Rank
  <2> QED  BY <2>1, <2>5 DEF S
<1> HIDE DEF S
<1>5. \A i \in S : Place(S, Rank(S, i)) = i
  BY <1>1, <1>2, PlaceIs
<1>6. /\ DOMAIN Kept(list, S) = 1..Cardinality(S)
      /\ \A m \in 1..Cardinality(S) : Kept(list, S)[m] = list[Place(S, m)]
  BY <1>1, <1>2, KeptIs
<1>7. \A i \in 1..(a - 1) : Kept(list, S)[i] = list[i]
  <2> SUFFICES ASSUME NEW i \in 1..(a - 1) PROVE Kept(list, S)[i] = list[i]
    OBVIOUS
  <2>1. Place(S, i) = i
    BY <1>3, <1>5
  <2>2. i \in 1..Cardinality(S)
    BY <1>2
  <2> QED  BY <1>6, <2>1, <2>2
<1>8. \A i \in a..(n - (b - a) - 1) : Kept(list, S)[i] = list[i + (b - a) + 1]
  <2> SUFFICES ASSUME NEW i \in a..(n - (b - a) - 1)
               PROVE  Kept(list, S)[i] = list[i + (b - a) + 1]
    OBVIOUS
  <2>1. Place(S, i) = i + (b - a) + 1
    BY <1>4, <1>5
  <2>2. i \in 1..Cardinality(S)
    BY <1>2
  <2> QED  BY <1>6, <2>1, <2>2
<1> QED  BY <1>1, <1>2, <1>6, <1>7, <1>8

(* A level that lies between what is before it and what is after it is     *)
(* inserted there.                                                         *)
LEMMA InsertAtPlace ==
    ASSUME NEW list, IsList(list), NEW level, NEW a \in 1..(Len(list) + 1),
           \A i \in 1..(a - 1) : Before(list[i], level),
           \A i \in a..Len(list) : ~Before(list[i], level)
    PROVE  /\ DOMAIN Insert(list, level) = 1..(Len(list) + 1)
           /\ \A i \in 1..(a - 1) : Insert(list, level)[i] = list[i]
           /\ Insert(list, level)[a] = level
           /\ \A i \in (a + 1)..(Len(list) + 1) : Insert(list, level)[i] = list[i - 1]
<1> DEFINE n == Len(list)
           S == Range(list) \cup {level}
           head == SubSeq(list, 1, a - 1)
           tail == SubSeq(list, a, n)
<1>1. n \in Nat /\ DOMAIN list = 1..n /\ list \in Seq(S) /\ \A i \in 1..n : list[i] \in S
  BY ListProperties, SeqMonotonic DEF IsList
<1>2. {i \in DOMAIN list : Before(list[i], level)} = 1..(a - 1)
  BY <1>1
<1>3. Cardinality(1..(a - 1)) = a - 1
  BY <1>1, IntervalSize
<1>4. Insert(list, level) = head \o <<level>> \o tail
  <2> DEFINE places == {i \in DOMAIN list : Before(list[i], level)}
  <2>1. Insert(list, level) = SubSeq(list, 1, Cardinality(places)) \o <<level>>
                                  \o SubSeq(list, Cardinality(places) + 1, Len(list))
    BY DEF Insert
  <2>2. Cardinality(places) = a - 1
    BY <1>2, <1>3
  <2>3. (a - 1) + 1 = a
    BY <1>1
  <2> HIDE DEF places
  <2> QED  BY <2>1, <2>2, <2>3
<1>5. /\ head \in Seq(S) /\ Len(head) = a - 1
      /\ \A i \in 1..(a - 1) : head[i] = list[i]
  <2>1. 1..(a - 1) \subseteq DOMAIN list
    BY <1>1
  <2> QED  BY <1>1, <2>1, SubSeqProperties
<1>6. /\ tail \in Seq(S) /\ Len(tail) = n - a + 1
      /\ \A i \in 1..(n - a + 1) : tail[i] = list[a + i - 1]
  <2>1. a..n \subseteq DOMAIN list
    BY <1>1
  <2> QED  BY <1>1, <2>1, SubSeqProperties
<1> HIDE DEF head, tail
<1> DEFINE front == head \o <<level>>
<1>7. <<level>> \in Seq(S) /\ Len(<<level>>) = 1
  BY DEF S
<1>8. /\ front \in Seq(S) /\ Len(front) = a
      /\ \A i \in 1..a : front[i] = IF i <= a - 1 THEN head[i] ELSE <<level>>[i - (a - 1)]
  BY <1>1, <1>5, <1>7, ConcatProperties
<1> HIDE DEF front
<1> DEFINE all == front \o tail
<1>9. /\ all \in Seq(S) /\ Len(all) = n + 1
      /\ \A i \in 1..(n + 1) : all[i] = IF i <= a THEN front[i] ELSE tail[i - a]
  <2>1. /\ all \in Seq(S) /\ Len(all) = Len(front) + Len(tail)
        /\ \A i \in 1..(Len(front) + Len(tail)) :
              all[i] = IF i <= Len(front) THEN front[i] ELSE tail[i - Len(front)]
    BY <1>6, <1>8, ConcatProperties
  <2>2. Len(front) + Len(tail) = n + 1
    BY <1>1, <1>6, <1>8
  <2> QED  BY <1>8, <2>1, <2>2
<1>10. DOMAIN all = 1..(n + 1)
  BY <1>9, LenProperties
<1>11. Insert(list, level) = all
  BY <1>4 DEF front
<1> HIDE DEF all
<1>12. \A i \in 1..(a - 1) : all[i] = list[i]
  <2> SUFFICES ASSUME NEW i \in 1..(a - 1) PROVE all[i] = list[i]
    OBVIOUS
  <2>1. i \in 1..(n + 1) /\ i <= a /\ i \in 1..a /\ i <= a - 1
    BY <1>1
  <2>2. all[i] = front[i]
    BY <1>9, <2>1
  <2>3. front[i] = head[i]
    BY <1>8, <2>1
  <2> QED  BY <1>5, <2>2, <2>3
<1>13. all[a] = level
  <2>1. all[a] = front[a] /\ front[a] = <<level>>[1]
    BY <1>1, <1>8, <1>9
  <2> QED  BY <2>1
<1>14. \A i \in (a + 1)..(n + 1) : all[i] = list[i - 1]
  <2> SUFFICES ASSUME NEW i \in (a + 1)..(n + 1) PROVE all[i] = list[i - 1]
    OBVIOUS
  <2>1. all[i] = tail[i - a] /\ i - a \in 1..(n - a + 1)
    BY <1>1, <1>9
  <2>2. tail[i - a] = list[a + (i - a) - 1] /\ a + (i - a) - 1 = i - 1
    BY <1>1, <1>6, <2>1
  <2> QED  BY <2>1, <2>2
<1> QED  BY <1>10, <1>11, <1>12, <1>13, <1>14

-----------------------------------------------------------------------------
(* Profiles, the writes up to one number, and the room they take.          *)

IsProfiles(p, last) ==
    /\ p = [k \in DOMAIN p |-> p[k]]
    /\ DOMAIN p \in SUBSET Key /\ IsFiniteSet(DOMAIN p)
    /\ \A k \in DOMAIN p : p[k] \in [ver : 1..last, erased : BOOLEAN]

Room(p) == [k \in DOMAIN p |-> IF p[k].erased THEN 1 ELSE 2]

LEMMA NoProfilesIs ==
    /\ DOMAIN NoProfiles = {} /\ AreaSize(NoProfiles) = 0
    /\ \A last : IsProfiles(NoProfiles, last)
    /\ \A p, last : IsProfiles(p, last) /\ DOMAIN p = {} => p = NoProfiles
<1>1. DOMAIN NoProfiles = {}
  BY DEF NoProfiles
<1>2. AreaSize(NoProfiles) = 0
  BY <1>1, SumEmpty DEF AreaSize
<1>3. \A last : IsProfiles(NoProfiles, last)
  BY FS_EmptySet DEF IsProfiles, NoProfiles
<1>4. \A p, last : IsProfiles(p, last) /\ DOMAIN p = {} => p = NoProfiles
  BY DEF IsProfiles, NoProfiles
<1> QED  BY <1>1, <1>2, <1>3, <1>4

LEMMA AreaIs ==
    ASSUME NEW p, NEW last, IsProfiles(p, last)
    PROVE  /\ AreaSize(p) = SumOver(Room(p), DOMAIN p) /\ AreaSize(p) \in Nat
           /\ p # NoProfiles => AreaSize(p) # 0
           /\ \A k \in DOMAIN p : Room(p)[k] \in {1, 2}
<1>1. \A k \in DOMAIN p : Room(p)[k] \in {1, 2}
  BY DEF Room
<1>2. AreaSize(p) = SumOver(Room(p), DOMAIN p)
  BY DEF AreaSize, Room
<1>3. IsFiniteSet(DOMAIN p)
  BY DEF IsProfiles
<1>4. \A k \in DOMAIN p : Room(p)[k] \in Nat
  BY <1>1
<1>5. AreaSize(p) \in Nat
  BY <1>2, <1>3, <1>4, SumNotNegative
<1>6. ASSUME p # NoProfiles PROVE AreaSize(p) # 0
  <2>1. PICK k \in DOMAIN p : TRUE
    BY <1>6, NoProfilesIs
  <2>2. SumOver(Room(p), DOMAIN p) = Room(p)[k] + SumOver(Room(p), DOMAIN p \ {k})
    <3>1. \A i \in DOMAIN p : Room(p)[i] \in Int
      BY <1>1
    <3> QED  BY <1>3, <3>1, SumRemove
  <2>3. SumOver(Room(p), DOMAIN p \ {k}) \in Nat
    <3>1. IsFiniteSet(DOMAIN p \ {k}) /\ \A i \in DOMAIN p \ {k} : Room(p)[i] \in Nat
      BY <1>3, <1>4, FS_Subset
    <3> QED  BY <3>1, SumNotNegative
  <2> QED  BY <1>1, <1>2, <2>2, <2>3
<1> QED  BY <1>1, <1>2, <1>5, <1>6

LEMMA MoreRoom ==
    ASSUME NEW S, NEW T, NEW f, IsFiniteSet(S), T \in SUBSET S, \A k \in S : f[k] \in Nat
    PROVE  SumOver(f, T) <= SumOver(f, S)
<1>1. SumOver(f, S) = SumOver(f, T) + SumOver(f, S \ T)
  <2>1. \A k \in S : f[k] \in Int
    OBVIOUS
  <2> QED  BY <2>1, SumSplit
<1>2. IsFiniteSet(T) /\ IsFiniteSet(S \ T)
  BY FS_Subset
<1>3. SumOver(f, T) \in Nat
  BY <1>2, SumNotNegative
<1>4. SumOver(f, S \ T) \in Nat
  BY <1>2, SumNotNegative
<1> QED  BY <1>1, <1>3, <1>4

LEMMA UnexpiredIs ==
    ASSUME NEW p, NEW last, IsProfiles(p, last)
    PROVE  /\ IsProfiles(Unexpired(p), last) /\ DOMAIN Unexpired(p) = DOMAIN p
           /\ \A k \in DOMAIN p : Expires(p[k], Unexpired(p)[k], old)
           /\ AreaSize(Unexpired(p)) <= AreaSize(p)
<1> DEFINE u == Unexpired(p)
<1>1. DOMAIN u = DOMAIN p /\ u = [k \in DOMAIN u |-> u[k]]
  BY DEF Unexpired
<1>2. \A k \in DOMAIN p : /\ u[k] = [p[k] EXCEPT !.erased = p[k].erased \/ p[k].ver <= old]
                          /\ p[k] \in [ver : 1..last, erased : BOOLEAN]
  BY DEF Unexpired, IsProfiles
<1> HIDE DEF u
<1>3. \A k \in DOMAIN p : /\ u[k].ver = p[k].ver
                          /\ u[k].erased <=> (p[k].erased \/ p[k].ver <= old)
                          /\ u[k] \in [ver : 1..last, erased : BOOLEAN]
  BY <1>2
<1>4. IsProfiles(u, last)
  BY <1>1, <1>3 DEF IsProfiles
<1>5. \A k \in DOMAIN p : Expires(p[k], u[k], old)
  BY <1>2, <1>3 DEF Expires
<1>6. AreaSize(u) <= AreaSize(p)
  <2>1. \A k \in DOMAIN p : Room(u)[k] \in Int /\ Room(p)[k] \in Int /\ Room(u)[k] <= Room(p)[k]
    BY <1>1, <1>3 DEF Room
  <2>2. SumOver(Room(u), DOMAIN p) <= SumOver(Room(p), DOMAIN p)
    BY <2>1, SumAtMost DEF IsProfiles
  <2> QED  BY <1>1, <1>4, <2>2, AreaIs
<1> QED  BY <1>1, <1>4, <1>5, <1>6 DEF u

(* What is merged of a list of profiles: each key as it is found there.    *)
LEMMA MergedIs ==
    ASSUME NEW c, NEW n \in Nat, DOMAIN c = 1..n, NEW last, \A i \in 1..n : IsProfiles(c[i], last)
    PROVE  /\ IsProfiles(Merged(c), last)
           /\ \A k : k \in DOMAIN Merged(c) <=> \E i \in 1..n : k \in DOMAIN c[i]
           /\ \A k, m : FoundAt(c, k, m) => Merged(c)[k] = c[m][k]
<1>1. /\ DOMAIN Merged(c) = UNION {DOMAIN c[i] : i \in 1..n}
      /\ \A k \in DOMAIN Merged(c) : Merged(c)[k] = Search(c, k)
      /\ Merged(c) = [k \in DOMAIN Merged(c) |-> Merged(c)[k]]
  BY DEF Merged
<1>2. \A k : k \in DOMAIN Merged(c) <=> \E i \in 1..n : k \in DOMAIN c[i]
  BY <1>1
<1>3. \A k, m : FoundAt(c, k, m) => Merged(c)[k] = c[m][k]
  <2> SUFFICES ASSUME NEW k, NEW m, FoundAt(c, k, m) PROVE Merged(c)[k] = c[m][k]
    OBVIOUS
  <2>1. Search(c, k) = c[m][k]
    BY SearchFound
  <2>2. k \in DOMAIN Merged(c)
    BY <1>2 DEF FoundAt
  <2> QED  BY <1>1, <2>1, <2>2
<1>4. \A k \in DOMAIN Merged(c) : \E m \in 1..n : FoundAt(c, k, m)
  BY <1>2, FoundOrAbsent DEF Absent
<1>5. DOMAIN Merged(c) \in SUBSET Key
  BY <1>2 DEF IsProfiles
<1>6. IsFiniteSet(DOMAIN Merged(c))
  <2> DEFINE D == {DOMAIN c[i] : i \in 1..n}
  <2>1. IsFiniteSet(D)
    <3> DEFINE f == [i \in 1..n |-> DOMAIN c[i]]
    <3>1. f \in Surjection(1..n, D)
      BY DEF Surjection
    <3>2. IsFiniteSet(1..n)
      BY IntervalSize
    <3> HIDE DEF f, D
    <3> QED  BY <3>1, <3>2, FS_Surjection
  <2>2. \A s \in D : IsFiniteSet(s)
    BY DEF IsProfiles
  <2> HIDE DEF D
  <2>3. IsFiniteSet(UNION D)
    BY <2>1, <2>2, FS_UNION
  <2> QED  BY <1>1, <2>3 DEF D
<1>7. \A k \in DOMAIN Merged(c) : Merged(c)[k] \in [ver : 1..last, erased : BOOLEAN]
  <2> SUFFICES ASSUME NEW k \in DOMAIN Merged(c)
               PROVE  Merged(c)[k] \in [ver : 1..last, erased : BOOLEAN]
    OBVIOUS
  <2>1. PICK m \in 1..n : FoundAt(c, k, m)
    BY <1>4
  <2>2. Merged(c)[k] = c[m][k] /\ k \in DOMAIN c[m]
    BY <1>3, <2>1 DEF FoundAt
  <2> QED  BY <2>2 DEF IsProfiles
<1>8. IsProfiles(Merged(c), last)
  BY <1>1, <1>5, <1>6, <1>7 DEF IsProfiles
<1> QED  BY <1>2, <1>3, <1>8

LEMMA MergedArea ==
    ASSUME NEW c, NEW n \in Nat, DOMAIN c = 1..n, NEW last, \A i \in 1..n : IsProfiles(c[i], last),
           NEW first \in Int, NEW h,
           \A i \in 1..n : h[first + i] = AreaSize(c[i])
    PROVE  AreaSize(Merged(c)) <= SumOver(h, (first + 1)..(first + n))
<1> DEFINE S == DOMAIN Merged(c)
           f == Room(Merged(c))
           at(k) == CHOOSE m \in 1..n : FoundAt(c, k, m)
           group == [k \in S |-> first + at(k)]
           I == (first + 1)..(first + n)
<1>1. IsProfiles(Merged(c), last)
  BY MergedIs
<1>2. \A k \in S : at(k) \in 1..n /\ FoundAt(c, k, at(k))
  <2> SUFFICES ASSUME NEW k \in S PROVE \E m \in 1..n : FoundAt(c, k, m)
    OBVIOUS
  <2>1. \E i \in 1..n : k \in DOMAIN c[i]
    BY MergedIs
  <2>2. ~Absent(c, k)
    BY <2>1 DEF Absent
  <2> QED  BY <2>2, FoundOrAbsent
<1>3. \A k \in S : k \in DOMAIN c[at(k)] /\ Merged(c)[k] = c[at(k)][k]
  <2> SUFFICES ASSUME NEW k \in S PROVE k \in DOMAIN c[at(k)] /\ Merged(c)[k] = c[at(k)][k]
    OBVIOUS
  <2>1. FoundAt(c, k, at(k))
    BY <1>2
  <2> HIDE DEF at
  <2>2. Merged(c)[k] = c[at(k)][k]
    BY <2>1, MergedIs
  <2> QED  BY <2>1, <2>2 DEF FoundAt
<1>4. \A k \in S : group[k] \in I
  <2> HIDE DEF at
  <2> QED  BY <1>2
<1>5. IsFiniteSet(S) /\ \A k \in S : f[k] \in {1, 2}
  BY <1>1, AreaIs DEF IsProfiles
<1>6. IsFiniteSet(I)
  <2>1. first + 1 \in Int /\ first + n \in Int
    OBVIOUS
  <2> HIDE DEF I
  <2> QED  BY <2>1, FS_Interval DEF I
<1>7. \A i \in 1..n : IsFiniteSet(DOMAIN c[i]) /\ AreaSize(c[i]) = SumOver(Room(c[i]), DOMAIN c[i])
                      /\ AreaSize(c[i]) \in Nat /\ \A k \in DOMAIN c[i] : Room(c[i])[k] \in {1, 2}
  BY AreaIs DEF IsProfiles
<1>8. \A i \in I : i - first \in 1..n /\ first + (i - first) = i
  OBVIOUS
<1>9. \A i \in I : h[i] \in Int
  <2> SUFFICES ASSUME NEW i \in I PROVE h[i] \in Int
    OBVIOUS
  <2>1. h[first + (i - first)] = AreaSize(c[i - first])
    BY <1>8
  <2> QED  BY <1>7, <1>8, <2>1
<1>10. ASSUME NEW i \in I PROVE SumOver(f, {k \in S : group[k] = i}) <= h[i]
  <2> DEFINE m == i - first
             G == {k \in S : group[k] = i}
             r == Room(c[m])
  <2>1. m \in 1..n /\ h[i] = AreaSize(c[m])
    BY <1>8
  <2>2. \A k \in G : at(k) = m
    <3> HIDE DEF at
    <3> QED  BY <1>2
  <2>3. \A k \in G : k \in DOMAIN c[m] /\ k \in S /\ Merged(c)[k] = c[m][k]
    <3> HIDE DEF at
    <3> QED  BY <1>3, <2>2
  <2>4. \A k \in G : f[k] = r[k]
    BY <2>3 DEF Room
  <2> HIDE DEF m
  <2>5. G \in SUBSET DOMAIN c[m] /\ IsFiniteSet(G)
    BY <1>5, <2>3, FS_Subset
  <2>6. \A k \in DOMAIN c[m] : r[k] \in Nat
    BY <1>7, <2>1
  <2> HIDE DEF r, f, G
  <2>7. SumOver(f, G) = SumOver(r, G)
    BY <2>4, <2>5, SumSame
  <2>8. SumOver(r, G) <= SumOver(r, DOMAIN c[m])
    BY <1>7, <2>1, <2>5, <2>6, MoreRoom
  <2>9. SumOver(r, DOMAIN c[m]) = h[i]
    BY <1>7, <2>1 DEF r
  <2> QED  BY <2>7, <2>8, <2>9 DEF G
<1>11. \A k \in S : f[k] \in Int
  BY <1>5
<1> HIDE DEF f, group, S, I
<1>12. SumOver(f, S) <= SumOver(h, I)
  BY <1>4, <1>5, <1>6, <1>9, <1>10, <1>11, SumByGroups
<1> QED  BY <1>1, <1>12, AreaIs DEF S, f, I

-----------------------------------------------------------------------------
(* What the levels of each index hold: the recursive function exists, as   *)
(* each of its initial parts does, and grows.                              *)

IsCapacity(g, S) == g = [i \in S |-> IF i = 0 THEN RWMax ELSE 2 * g[i - 1]]

LEMMA CapacityPart ==
    ASSUME NEW n \in Nat
    PROVE  \E g : IsCapacity(g, 0..n)
<1> DEFINE Failing == {m \in Nat : ~\E g : IsCapacity(g, 0..m)}
<1>1. SUFFICES ASSUME Failing # {} PROVE FALSE
  OBVIOUS
<1>2. PICK m \in Failing : \A i \in Failing : m <= i
  <2>1. Failing \in SUBSET Nat
    OBVIOUS
  <2> HIDE DEF Failing
  <2> QED  BY <1>1, <2>1, Smallest
<1>3. CASE m = 0
  <2> DEFINE g == [i \in 0..0 |-> RWMax]
  <2>1. IsCapacity(g, 0..0)
    BY DEF IsCapacity
  <2> HIDE DEF g
  <2> QED  BY <1>2, <1>3, <2>1
<1>4. CASE m # 0
  <2>1. m - 1 \in Nat /\ ~(m <= m - 1) /\ m \in Nat
    BY <1>2, <1>4
  <2>2. PICK h : IsCapacity(h, 0..(m - 1))
    BY <1>2, <2>1
  <2> DEFINE g == [i \in 0..m |-> IF i = 0 THEN RWMax ELSE 2 * h[i - 1]]
  <2>3. \A i \in 0..(m - 1) : i \in 0..m /\ h[i] = g[i]
    BY <2>1, <2>2 DEF IsCapacity
  <2>4. \A i \in 0..m : i # 0 => i - 1 \in 0..(m - 1)
    BY <2>1
  <2>5. g = [i \in 0..m |-> IF i = 0 THEN RWMax ELSE 2 * g[i - 1]]
    <3>1. \A i \in 0..m : i # 0 => h[i - 1] = g[i - 1]
      BY <2>3, <2>4
    <3> DEFINE k == [i \in 0..m |-> IF i = 0 THEN RWMax ELSE 2 * g[i - 1]]
    <3>2. \A i \in 0..m : g[i] = k[i]
      BY <3>1
    <3>3. DOMAIN g = 0..m /\ DOMAIN k = 0..m
      OBVIOUS
    <3> QED  BY <3>2, <3>3
  <2> HIDE DEF g
  <2>6. IsCapacity(g, 0..m)
    BY <2>5 DEF IsCapacity
  <2> QED  BY <1>2, <2>6
<1> QED  BY <1>3, <1>4

LEMMA CapacityUnique ==
    ASSUME NEW n \in Nat, NEW g, IsCapacity(g, 0..n), NEW m \in Nat, NEW h, IsCapacity(h, 0..m),
           NEW j \in 0..n, j \in 0..m
    PROVE  g[j] = h[j]
<1> DEFINE Failing == {i \in Nat : i <= n /\ i <= m /\ g[i] # h[i]}
<1>1. SUFFICES ASSUME Failing # {} PROVE FALSE
  OBVIOUS
<1>2. PICK i \in Failing : \A l \in Failing : i <= l
  <2>1. Failing \in SUBSET Nat
    OBVIOUS
  <2> HIDE DEF Failing
  <2> QED  BY <1>1, <2>1, Smallest
<1>3. i \in Nat /\ i \in 0..n /\ i \in 0..m /\ g[i] # h[i]
  BY <1>2
<1>4. /\ g[i] = IF i = 0 THEN RWMax ELSE 2 * g[i - 1]
      /\ h[i] = IF i = 0 THEN RWMax ELSE 2 * h[i - 1]
  BY <1>3 DEF IsCapacity
<1>5. i # 0
  BY <1>3, <1>4
<1>6. i - 1 \in Nat /\ i - 1 <= n /\ i - 1 <= m /\ ~(i <= i - 1)
  BY <1>3, <1>5
<1>7. g[i - 1] = h[i - 1]
  BY <1>2, <1>6
<1> QED  BY <1>3, <1>4, <1>5, <1>7

LEMMA CapacityIs ==
    /\ Capacity[0] = RWMax
    /\ \A i \in Nat \ {0} : Capacity[i] = 2 * Capacity[i - 1]
<1> DEFINE part(n) == CHOOSE g : IsCapacity(g, 0..n)
           f == [i \in Nat |-> part(i)[i]]
<1>1. \A n \in Nat : IsCapacity(part(n), 0..n)
  BY CapacityPart
<1> HIDE DEF part
<1>2. ASSUME NEW i \in Nat PROVE f[i] = IF i = 0 THEN RWMax ELSE 2 * f[i - 1]
  <2>1. f[i] = part(i)[i] /\ i \in 0..i
    OBVIOUS
  <2>2. part(i)[i] = IF i = 0 THEN RWMax ELSE 2 * part(i)[i - 1]
    BY <1>1, <2>1 DEF IsCapacity
  <2>3. CASE i = 0
    BY <2>1, <2>2, <2>3
  <2>4. CASE i # 0
    <3>1. i - 1 \in Nat /\ i - 1 \in 0..i /\ i - 1 \in 0..(i - 1)
      BY <2>4
    <3>2. IsCapacity(part(i), 0..i) /\ IsCapacity(part(i - 1), 0..(i - 1))
      BY <1>1, <3>1
    <3>3. part(i)[i - 1] = part(i - 1)[i - 1]
      BY <3>1, <3>2, CapacityUnique
    <3>4. f[i - 1] = part(i - 1)[i - 1]
      BY <3>1
    <3> QED  BY <2>1, <2>2, <2>4, <3>3, <3>4
  <2> QED  BY <2>3, <2>4
<1>3. f = [i \in Nat |-> IF i = 0 THEN RWMax ELSE 2 * f[i - 1]]
  <2> DEFINE k == [i \in Nat |-> IF i = 0 THEN RWMax ELSE 2 * f[i - 1]]
  <2>1. \A i \in Nat : f[i] = k[i]
    BY <1>2
  <2>2. DOMAIN f = Nat /\ DOMAIN k = Nat
    OBVIOUS
  <2> QED  BY <2>1, <2>2
<1>4. \E g : IsCapacity(g, Nat)
  <2> HIDE DEF f
  <2> QED  BY <1>3 DEF IsCapacity
<1>5. Capacity = CHOOSE g : IsCapacity(g, Nat)
  BY DEF Capacity, IsCapacity
<1>6. IsCapacity(Capacity, Nat)
  BY <1>4, <1>5
<1> QED  BY <1>6 DEF IsCapacity

LEMMA CapacityGrows ==
    /\ \A i \in Nat : Capacity[i] \in Nat /\ i < Capacity[i]
    /\ \A i \in Nat : Capacity[i] <= Capacity[i + 1]
<1>1. ASSUME NEW n \in Nat PROVE Capacity[n] \in Nat /\ n < Capacity[n]
  <2> DEFINE Failing == {m \in Nat : ~(Capacity[m] \in Nat /\ m < Capacity[m])}
  <2>1. SUFFICES ASSUME Failing # {} PROVE FALSE
    OBVIOUS
  <2>2. PICK m \in Failing : \A i \in Failing : m <= i
    <3>1. Failing \in SUBSET Nat
      OBVIOUS
    <3> HIDE DEF Failing
    <3> QED  BY <2>1, <3>1, Smallest
  <2>3. m \in Nat /\ ~(Capacity[m] \in Nat /\ m < Capacity[m])
    BY <2>2
  <2>4. m # 0
    BY <2>3, CapacityIs, LevelMapAssumption
  <2>5. m - 1 \in Nat /\ ~(m <= m - 1)
    BY <2>3, <2>4
  <2>6. Capacity[m - 1] \in Nat /\ m - 1 < Capacity[m - 1]
    BY <2>2, <2>5
  <2>7. Capacity[m] = 2 * Capacity[m - 1]
    BY <2>3, <2>4, CapacityIs
  <2> QED  BY <2>3, <2>5, <2>6, <2>7
<1>2. ASSUME NEW i \in Nat PROVE Capacity[i] <= Capacity[i + 1]
  <2>1. i + 1 \in Nat \ {0} /\ (i + 1) - 1 = i
    OBVIOUS
  <2>2. Capacity[i + 1] = 2 * Capacity[i]
    BY <2>1, CapacityIs
  <2>3. Capacity[i] \in Nat
    BY <1>1
  <2> QED  BY <2>2, <2>3
<1> QED  BY <1>1, <1>2

(* A level has no higher index than one into which it fits.                *)
LEMMA IndexForIs ==
    ASSUME NEW area \in Nat
    PROVE  /\ IndexFor(area) \in Nat
           /\ \A m \in Nat : area < Capacity[m] => IndexFor(area) <= m
<1> DEFINE fits == {i \in Nat : area <= Capacity[i]}
<1>1. fits \in SUBSET Nat /\ area \in fits
  BY CapacityGrows
<1>2. PICK i \in fits : \A m \in fits : i <= m
  <2> HIDE DEF fits
  <2> QED  BY <1>1, Smallest
<1>3. i \in 0..area /\ Capacity[i] >= area /\ \A j \in 0..(i - 1) : Capacity[j] < area
  <2>1. i \in Nat /\ i <= area /\ Capacity[i] >= area
    BY <1>1, <1>2, CapacityGrows
  <2>2. ASSUME NEW j \in 0..(i - 1) PROVE Capacity[j] < area
    <3>1. j \in Nat /\ ~(i <= j)
      BY <2>1
    <3>2. ~(area <= Capacity[j])
      BY <1>2, <3>1
    <3> QED  BY <3>1, <3>2, CapacityGrows
  <2> QED  BY <2>1, <2>2
<1> HIDE DEF fits
<1> DEFINE n == IndexFor(area)
<1>4. n \in 0..area /\ Capacity[n] >= area /\ \A j \in 0..(n - 1) : Capacity[j] < area
  BY <1>3 DEF IndexFor
<1> HIDE DEF n
<1>5. ASSUME NEW m \in Nat, area < Capacity[m] PROVE n <= m
  <2>1. SUFFICES ASSUME ~(n <= m) PROVE FALSE
    OBVIOUS
  <2>2. m \in 0..(n - 1)
    BY <1>4, <2>1
  <2>3. Capacity[m] < area /\ Capacity[m] \in Nat
    BY <1>4, <2>2, CapacityGrows
  <2> QED  BY <1>5, <2>3
<1> QED  BY <1>4, <1>5 DEF n

-----------------------------------------------------------------------------
(* The list of levels is in order: no two have the same place in it.       *)

FitsLevel(l, last) ==
    /\ IsLevel(l)
    /\ l.index \in Nat /\ l.sub_index \in Nat
    /\ l.stored \in {"memory", "written", "file"}
    /\ IsProfiles(l.profiles, last) /\ IsProfiles(l.file, last)

InOrder(list) == \A i, j \in DOMAIN list : i < j => Before(list[i], list[j])

LevelList(list, last) ==
    /\ IsList(list) /\ InOrder(list)
    /\ \A i \in DOMAIN list : FitsLevel(list[i], last)

LEMMA BeforeOrders ==
    ASSUME NEW x, x.index \in Nat, x.sub_index \in Nat,
           NEW y, y.index \in Nat, y.sub_index \in Nat
    PROVE  /\ ~Before(x, x)
           /\ Before(x, y) => ~Before(y, x) /\ x.index <= y.index
           /\ \A z : z.index \in Nat /\ z.sub_index \in Nat /\ Before(x, y) /\ Before(y, z)
                => Before(x, z)
BY DEF Before

Id(level) == <<level.index, level.sub_index>>

LEMMA IdsDiffer ==
    ASSUME NEW list, NEW last, LevelList(list, last), NEW i \in DOMAIN list, NEW j \in DOMAIN list,
           Id(list[i]) = Id(list[j])
    PROVE  i = j
<1>1. i \in Nat /\ j \in Nat
  BY ListProperties DEF LevelList
<1>2. /\ list[i].index = list[j].index /\ list[i].sub_index = list[j].sub_index
      /\ list[i].index \in Nat /\ list[i].sub_index \in Nat
  BY DEF Id, LevelList, FitsLevel
<1>3. ~Before(list[i], list[j]) /\ ~Before(list[j], list[i])
  BY <1>2 DEF Before
<1>4. ~(i < j) /\ ~(j < i)
  BY <1>3 DEF LevelList, InOrder
<1> QED  BY <1>1, <1>4

LEMMA FirstDumpedIs ==
    ASSUME NEW list, NEW n \in Nat
    PROVE  /\ FirstDumped(list, n) \in 1..(n + 1)
           /\ \A i \in FirstDumped(list, n)..n : Dumped(list[i])
<1> DEFINE S == {0} \cup {i \in 1..n : ~Dumped(list[i])}
<1>1. S \in SUBSET Nat /\ S # {} /\ \A i \in S : i <= n
  OBVIOUS
<1>2. \A i \in 1..n : ~Dumped(list[i]) => i \in S
  OBVIOUS
<1> HIDE DEF S
<1>3. Max(S) \in S /\ \A i \in S : i <= Max(S)
  BY <1>1, GreatestIs
<1>4. FirstDumped(list, n) = Max(S) + 1
  BY DEF FirstDumped, S
<1> DEFINE top == Max(S)
<1>5. top \in Nat /\ top <= n /\ \A i \in S : i <= top
  BY <1>1, <1>3
<1> HIDE DEF top
<1>6. \A i \in (top + 1)..n : Dumped(list[i])
  <2> SUFFICES ASSUME NEW i \in (top + 1)..n, ~Dumped(list[i]) PROVE FALSE
    OBVIOUS
  <2>1. i \in 1..n
    BY <1>5
  <2>2. i <= top
    BY <1>2, <1>5, <2>1
  <2> QED  BY <1>5, <2>2
<1>7. FirstDumped(list, n) = top + 1
  BY <1>4 DEF top
<1> QED  BY <1>5, <1>6, <1>7

LEMMA FirstDumpedBefore ==
    ASSUME NEW list, NEW n \in Nat, Dumped(list[n + 1])
    PROVE  FirstDumped(list, n + 1) = FirstDumped(list, n)
<1>1. {i \in 1..(n + 1) : ~Dumped(list[i])} = {i \in 1..n : ~Dumped(list[i])}
  <2>1. \A i \in 1..(n + 1) : i \in 1..n \/ i = n + 1
    OBVIOUS
  <2>2. \A i \in 1..n : i \in 1..(n + 1)
    OBVIOUS
  <2> QED  BY <2>1, <2>2
<1> QED  BY <1>1 DEF FirstDumped

(* What is picked for a merge is a block of dumped levels, and either all  *)
(* that follow, or the merged level has its place before the next.         *)
Block(list, a, b) ==
    /\ a \in DOMAIN list /\ b \in DOMAIN list /\ a < b
    /\ \A i \in a..b : Dumped(list[i])
    /\ b < Len(list) =>
        /\ list[b + 1].index > list[b].index + 1
        /\ Areas(list, a, b) < Capacity[list[b + 1].index - 1]

LEMMA PickedIs ==
    ASSUME NEW list, NEW last, LevelList(list, last), Len(Picked(list)) > 1
    PROVE  \E a, b \in DOMAIN list : Block(list, a, b) /\ Picked(list) = SubSeq(list, a, b)
<1> DEFINE n == Len(list)
           ends == {n} \cup {i - 1 : i \in {m \in DOMAIN list : Gap(list, m)}}
           b == Min(ends)
           a == FirstDumped(list, b)
<1>1. n \in Nat /\ DOMAIN list = 1..n
  BY ListProperties DEF LevelList
<1> HIDE DEF n
<1>2. \A m \in ends : m = n \/ (m + 1 \in DOMAIN list /\ Gap(list, m + 1))
  BY <1>1
<1>3. ends \in SUBSET Nat /\ ends # {} /\ n \in ends
  BY <1>1
<1>4. Picked(list) = SubSeq(list, a, b)
  BY DEF Picked, n
<1> HIDE DEF ends
<1>5. b \in ends /\ b <= n /\ b \in Nat
  BY <1>3, LeastIs
<1> HIDE DEF b
<1>6. a \in 1..(b + 1) /\ \A i \in a..b : Dumped(list[i])
  BY <1>5, FirstDumpedIs
<1>7. a < b
  <2>1. SUFFICES ASSUME ~(a < b) PROVE FALSE
    OBVIOUS
  <2>2. Len(SubSeq(list, a, b)) = IF a <= b THEN b - a + 1 ELSE 0
    <3> DEFINE S == Range(list)
    <3>1. a \in Int /\ b \in Int /\ \A i \in a..b : list[i] \in S
      BY <1>1, <1>5, <1>6, ListProperties DEF LevelList
    <3> HIDE DEF S, a
    <3> QED  BY <3>1, SubSeqProperties
  <2> QED  BY <1>4, <1>5, <1>6, <2>1, <2>2
<1>8. a \in DOMAIN list /\ b \in DOMAIN list
  BY <1>1, <1>5, <1>6, <1>7
<1>9. ASSUME b < n
      PROVE  /\ list[b + 1].index > list[b].index + 1
             /\ Areas(list, a, b) < Capacity[list[b + 1].index - 1]
  <2>1. b + 1 \in DOMAIN list /\ Gap(list, b + 1) /\ b + 1 # 1 /\ (b + 1) - 1 = b
    BY <1>2, <1>5, <1>8, <1>9, <1>1
  <2>2. /\ Dumped(list[b + 1])
        /\ list[b + 1].index \notin {list[b].index, list[b].index + 1}
        /\ Areas(list, FirstDumped(list, b + 1), b) < Capacity[list[b + 1].index - 1]
    BY <2>1 DEF Gap
  <2>3. FirstDumped(list, b + 1) = a
    BY <1>5, <2>2, FirstDumpedBefore
  <2>4. /\ list[b].index \in Nat /\ list[b + 1].index \in Nat
        /\ list[b].sub_index \in Nat /\ list[b + 1].sub_index \in Nat
        /\ Before(list[b], list[b + 1])
    <3>1. b < b + 1
      BY <1>5
    <3> QED  BY <1>8, <2>1, <3>1 DEF LevelList, FitsLevel, InOrder
  <2>5. list[b].index <= list[b + 1].index
    BY <2>4, BeforeOrders
  <2> QED  BY <2>2, <2>3, <2>4, <2>5
<1>10. Block(list, a, b)
  BY <1>6, <1>7, <1>8, <1>9 DEF Block, n
<1> HIDE DEF a
<1> QED  BY <1>4, <1>8, <1>10

-----------------------------------------------------------------------------
(* The merged level: its place in the list, and what it says of each key.  *)

HasPlace(list, a, b, level) ==
    /\ \A i \in DOMAIN list : i < a => Before(list[i], level)
    /\ \A i \in DOMAIN list : i > b => Before(level, list[i])
    /\ Id(level) = Id(list[a]) \/ list[a].index < level.index

MergedFrom(list, a, b, profiles, time) ==
    \A k : /\ k \in DOMAIN profiles <=> \E j \in a..b : k \in DOMAIN list[j].profiles
           /\ \A m \in a..b :
                 (k \in DOMAIN list[m].profiles
                     /\ \A i \in a..(m - 1) : k \notin DOMAIN list[i].profiles)
                 => Expires(list[m].profiles[k], profiles[k], time)

LEMMA BlockContents ==
    ASSUME NEW list, NEW last, LevelList(list, last), NEW a \in DOMAIN list, NEW b \in DOMAIN list,
           a < b
    PROVE  LET c == Contents(SubSeq(list, a, b))
           IN  /\ a \in Nat /\ b \in Nat /\ DOMAIN c = 1..(b - a + 1)
               /\ \A j \in 1..(b - a + 1) : a + j - 1 \in a..b /\ c[j] = list[a + j - 1].profiles
               /\ SubSeq(list, a, b)[1] = list[a]
<1>1. Len(list) \in Nat /\ DOMAIN list = 1..Len(list)
  BY ListProperties DEF LevelList
<1>2. a \in Int /\ b \in Int /\ \A i \in a..b : list[i] \in Range(list)
  <2>1. \A i \in a..b : i \in DOMAIN list
    BY <1>1
  <2> QED  BY <1>1, <2>1, ListProperties DEF LevelList
<1> DEFINE s == SubSeq(list, a, b)
<1>3. /\ s \in Seq(Range(list)) /\ Len(s) = b - a + 1
      /\ \A j \in 1..(b - a + 1) : s[j] = list[a + j - 1]
  <2>1. (IF a <= b THEN b - a + 1 ELSE 0) = b - a + 1
    BY <1>2
  <2> QED  BY <1>2, <2>1, SubSeqProperties
<1> HIDE DEF s
<1>4. DOMAIN s = 1..(b - a + 1)
  BY <1>3, LenProperties
<1>5. /\ DOMAIN Contents(s) = 1..(b - a + 1)
      /\ \A j \in 1..(b - a + 1) : Contents(s)[j] = s[j].profiles
  BY <1>4 DEF Contents
<1>6. s[1] = list[a]
  <2>1. 1 \in 1..(b - a + 1) /\ a + 1 - 1 = a
    BY <1>2
  <2> QED  BY <1>3, <2>1
<1>7. \A j \in 1..(b - a + 1) : a + j - 1 \in a..b
  BY <1>2
<1>8. a \in Nat /\ b \in Nat
  BY <1>1
<1> QED  BY <1>3, <1>5, <1>6, <1>7, <1>8 DEF s

LEMMA MergedBlock ==
    ASSUME NEW list, NEW last, LevelList(list, last), NEW a \in DOMAIN list, NEW b \in DOMAIN list,
           a < b
    PROVE  LET profiles == Unexpired(Merged(Contents(SubSeq(list, a, b))))
           IN  /\ IsProfiles(profiles, last)
               /\ MergedFrom(list, a, b, profiles, old)
               /\ AreaSize(profiles) <= Areas(list, a, b)
<1> DEFINE c == Contents(SubSeq(list, a, b))
           n == b - a + 1
           merged == Merged(c)
           profiles == Unexpired(merged)
<1>1. /\ a \in Nat /\ b \in Nat /\ DOMAIN c = 1..n
      /\ \A j \in 1..n : a + j - 1 \in a..b /\ c[j] = list[a + j - 1].profiles
  BY BlockContents
<1>2. n \in Nat /\ \A i \in a..b : i \in DOMAIN list /\ i - a + 1 \in 1..n /\ a + (i - a + 1) - 1 = i
  <2>1. Len(list) \in Nat /\ DOMAIN list = 1..Len(list)
    BY ListProperties DEF LevelList
  <2>2. a \in Nat /\ b \in Nat /\ b \in 1..Len(list) /\ 1 <= a
    BY <1>1, <2>1
  <2>3. n \in Nat
    BY <2>2
  <2>4. \A i \in a..b : i \in DOMAIN list
    BY <2>1, <2>2
  <2>5. \A i \in a..b : i - a + 1 \in 1..n /\ a + (i - a + 1) - 1 = i
    BY <2>2
  <2> QED  BY <2>3, <2>4, <2>5
<1> HIDE DEF c
<1>3. \A j \in 1..n : IsProfiles(c[j], last)
  BY <1>1, <1>2 DEF LevelList, FitsLevel
<1> HIDE DEF n
<1>4. /\ IsProfiles(merged, last)
      /\ \A k : k \in DOMAIN merged <=> \E j \in 1..n : k \in DOMAIN c[j]
      /\ \A k, m : FoundAt(c, k, m) => merged[k] = c[m][k]
  BY <1>1, <1>2, <1>3, MergedIs
<1> HIDE DEF merged
<1>5. /\ IsProfiles(profiles, last) /\ DOMAIN profiles = DOMAIN merged
      /\ \A k \in DOMAIN merged : Expires(merged[k], profiles[k], old)
      /\ AreaSize(profiles) <= AreaSize(merged)
  BY <1>4, UnexpiredIs
<1> HIDE DEF profiles
<1>6. \A i \in a..b : c[i - a + 1] = list[i].profiles
  <2> SUFFICES ASSUME NEW i \in a..b PROVE c[i - a + 1] = list[i].profiles
    OBVIOUS
  <2> DEFINE j == i - a + 1
  <2>1. j \in 1..n /\ a + j - 1 = i
    BY <1>2
  <2> HIDE DEF j
  <2>2. c[j] = list[a + j - 1].profiles
    BY <1>1, <2>1
  <2> QED  BY <2>1, <2>2 DEF j
<1>7. ASSUME NEW k
      PROVE  k \in DOMAIN profiles <=> \E j \in a..b : k \in DOMAIN list[j].profiles
  <2>1. ASSUME NEW j \in 1..n, k \in DOMAIN c[j] PROVE \E i \in a..b : k \in DOMAIN list[i].profiles
    BY <1>1, <2>1
  <2>2. ASSUME NEW i \in a..b, k \in DOMAIN list[i].profiles PROVE \E j \in 1..n : k \in DOMAIN c[j]
    <3>1. i - a + 1 \in 1..n /\ c[i - a + 1] = list[i].profiles
      BY <1>2, <1>6
    <3> QED  BY <2>2, <3>1
  <2> QED  BY <1>4, <1>5, <2>1, <2>2
<1>8. ASSUME NEW k, NEW m \in a..b, k \in DOMAIN list[m].profiles,
             \A i \in a..(m - 1) : k \notin DOMAIN list[i].profiles
      PROVE  Expires(list[m].profiles[k], profiles[k], old)
  <2> DEFINE p == m - a + 1
  <2>1. p \in 1..n /\ c[p] = list[m].profiles
    BY <1>2, <1>6
  <2>2. \A j \in 1..n : j < p => k \notin DOMAIN c[j]
    <3> SUFFICES ASSUME NEW j \in 1..n, j < p PROVE k \notin DOMAIN c[j]
      OBVIOUS
    <3>1. a + j - 1 \in a..(m - 1) /\ c[j] = list[a + j - 1].profiles
      <4>1. a + j - 1 \in a..b /\ c[j] = list[a + j - 1].profiles
        BY <1>1
      <4>2. a \in Int /\ m \in Int /\ j \in Int
        BY <1>1
      <4> QED  BY <4>1, <4>2
    <3> QED  BY <1>8, <3>1
  <2> HIDE DEF p
  <2>3. FoundAt(c, k, p)
    BY <1>1, <1>8, <2>1, <2>2 DEF FoundAt
  <2>4. merged[k] = list[m].profiles[k]
    BY <1>4, <2>1, <2>3
  <2>5. k \in DOMAIN merged
    BY <1>4, <1>8, <2>1
  <2> QED  BY <1>5, <2>4, <2>5
<1>9. MergedFrom(list, a, b, profiles, old)
  BY <1>7, <1>8 DEF MergedFrom
<1>10. AreaSize(merged) <= Areas(list, a, b)
  <2> DEFINE h == [i \in DOMAIN list |-> AreaSize(list[i].profiles)]
             first == a - 1
  <2>1. first \in Int /\ first + 1 = a /\ first + n = b
    BY <1>1 DEF n
  <2>2. \A j \in 1..n : h[first + j] = AreaSize(c[j])
    <3> SUFFICES ASSUME NEW j \in 1..n PROVE h[first + j] = AreaSize(c[j])
      OBVIOUS
    <3>1. a + j - 1 \in a..b /\ c[j] = list[a + j - 1].profiles
      BY <1>1
    <3>2. a + j - 1 \in DOMAIN list
      BY <1>2, <3>1
    <3>3. a \in Int /\ j \in Int
      BY <1>1, <1>2
    <3>4. first + j = a + j - 1
      BY <3>3
    <3> QED  BY <3>1, <3>2, <3>4
  <2> HIDE DEF first, h
  <2>3. AreaSize(Merged(c)) <= SumOver(h, (first + 1)..(first + n))
    BY <1>1, <1>2, <1>3, <2>1, <2>2, MergedArea
  <2> QED  BY <2>1, <2>3 DEF Areas, h, merged
<1>11. AreaSize(profiles) <= Areas(list, a, b)
  <2>1. AreaSize(profiles) \in Int /\ AreaSize(merged) \in Int
    BY <1>4, <1>5, AreaIs
  <2>2. Areas(list, a, b) \in Int
    <3> DEFINE h == [i \in DOMAIN list |-> AreaSize(list[i].profiles)]
    <3>1. \A i \in a..b : h[i] \in Int
      <4> SUFFICES ASSUME NEW i \in a..b PROVE h[i] \in Int
        OBVIOUS
      <4>1. i \in DOMAIN list /\ IsProfiles(list[i].profiles, last)
        BY <1>2 DEF LevelList, FitsLevel
      <4> QED  BY <4>1, AreaIs
    <3>2. IsFiniteSet(a..b)
      BY <1>1, IntervalSize
    <3> HIDE DEF h
    <3> QED  BY <3>1, <3>2, SumType DEF Areas, h
  <2> QED  BY <1>5, <1>10, <2>1, <2>2
<1> QED  BY <1>5, <1>9, <1>11 DEF profiles, merged, c

LEMMA MergedLevelIs ==
    ASSUME NEW list, NEW last, LevelList(list, last), NEW a \in DOMAIN list, NEW b \in DOMAIN list,
           Block(list, a, b)
    PROVE  LET level == MergedLevel(SubSeq(list, a, b))
           IN  /\ FitsLevel(level, last) /\ level.stored = "file"
               /\ HasPlace(list, a, b, level)
               /\ MergedFrom(list, a, b, level.profiles, old)
<1> DEFINE profiles == Unexpired(Merged(Contents(SubSeq(list, a, b))))
           area == AreaSize(profiles)
           index == IndexFor(area)
           inside == index > list[a].index
           level == MergedLevel(SubSeq(list, a, b))
<1>1. a < b
  BY DEF Block
<1>2. /\ IsProfiles(profiles, last) /\ MergedFrom(list, a, b, profiles, old)
      /\ area <= Areas(list, a, b)
  BY <1>1, MergedBlock
<1>3. SubSeq(list, a, b)[1] = list[a] /\ a \in Nat /\ b \in Nat
  BY <1>1, BlockContents
<1>4. level = [index |-> IF inside THEN index ELSE list[a].index,
               sub_index |-> IF inside THEN 0 ELSE list[a].sub_index,
               profiles |-> profiles, stored |-> "file", file |-> NoProfiles]
  BY <1>3 DEF MergedLevel
<1> HIDE DEF profiles, level
<1>5. area \in Nat
  BY <1>2, AreaIs
<1> HIDE DEF area
<1>6. index \in Nat /\ \A m \in Nat : area < Capacity[m] => index <= m
  BY <1>5, IndexForIs
<1> HIDE DEF index
<1>7. \A i \in DOMAIN list : list[i].index \in Nat /\ list[i].sub_index \in Nat
  BY DEF LevelList, FitsLevel
<1>8. /\ level.index = IF inside THEN index ELSE list[a].index
      /\ level.sub_index = IF inside THEN 0 ELSE list[a].sub_index
      /\ level.profiles = profiles /\ level.stored = "file" /\ level.file = NoProfiles
      /\ IsLevel(level)
  BY <1>4 DEF IsLevel
<1>9. FitsLevel(level, last)
  BY <1>2, <1>6, <1>7, <1>8, NoProfilesIs DEF FitsLevel
<1>10. DOMAIN list = 1..Len(list) /\ Len(list) \in Nat
  BY ListProperties DEF LevelList
<1>11. Id(level) = Id(list[a]) \/ list[a].index < level.index
  BY <1>6, <1>7, <1>8 DEF Id
<1>12. ASSUME NEW i \in DOMAIN list, i < a PROVE Before(list[i], level)
  <2>1. Before(list[i], list[a])
    BY <1>12 DEF LevelList, InOrder
  <2> QED  BY <1>6, <1>7, <1>8, <2>1 DEF Before
<1>13. ASSUME NEW i \in DOMAIN list, i > b PROVE Before(level, list[i])
  <2>1. b < Len(list) /\ b + 1 \in DOMAIN list /\ b + 1 <= i
    BY <1>3, <1>10, <1>13
  <2>2. /\ list[b + 1].index > list[b].index + 1
        /\ Areas(list, a, b) < Capacity[list[b + 1].index - 1]
    BY <2>1 DEF Block
  <2> DEFINE m == list[b + 1].index - 1
  <2>3. m \in Nat /\ list[b].index \in Nat /\ list[b + 1].index \in Nat
    BY <1>7, <2>1, <2>2
  <2>4. area < Capacity[m]
    <3>1. Areas(list, a, b) \in Int
      <4> DEFINE h == [l \in DOMAIN list |-> AreaSize(list[l].profiles)]
      <4>1. \A l \in a..b : l \in DOMAIN list
        BY <1>3, <1>10
      <4>2. \A l \in a..b : h[l] \in Int
        BY <4>1, AreaIs DEF LevelList, FitsLevel
      <4>3. IsFiniteSet(a..b)
        BY <1>3, IntervalSize
      <4> HIDE DEF h
      <4> QED  BY <4>2, <4>3, SumType DEF Areas, h
    <3>2. Capacity[m] \in Int
      BY <2>3, CapacityGrows
    <3> QED  BY <1>2, <1>5, <2>2, <3>1, <3>2
  <2>5. index <= m
    BY <1>6, <2>3, <2>4
  <2>6. list[a].index <= list[b].index
    <3>1. Before(list[a], list[b])
      BY <1>1 DEF LevelList, InOrder
    <3> QED  BY <1>7, <3>1, BeforeOrders
  <2>7. level.index < list[b + 1].index
    <3>1. list[a].index \in Nat
      BY <1>7
    <3> QED  BY <1>6, <1>8, <2>2, <2>3, <2>5, <2>6, <3>1
  <2>8. list[b + 1].index <= list[i].index
    <3>1. b + 1 = i \/ Before(list[b + 1], list[i])
      BY <1>3, <1>10, <2>1 DEF LevelList, InOrder
    <3> QED  BY <1>7, <2>1, <3>1, BeforeOrders
  <2>9. level.index \in Nat /\ list[i].index \in Nat
    BY <1>7, <1>9 DEF FitsLevel
  <2> QED  BY <2>3, <2>7, <2>8, <2>9 DEF Before
<1>14. HasPlace(list, a, b, level)
  BY <1>11, <1>12, <1>13 DEF HasPlace
<1> QED  BY <1>2, <1>8, <1>9, <1>14 DEF level

-----------------------------------------------------------------------------
(* The list stays in order, whatever is done to it.                        *)

Fronted(list, new, two) ==
    /\ IsList(two) /\ Len(two) = Len(list) + 1 /\ two[1] = new
    /\ \A i \in DOMAIN two : i = 1 \/ (i - 1 \in DOMAIN list /\ two[i] = list[i - 1])
    /\ \A i \in DOMAIN list : i + 1 \in DOMAIN two /\ two[i + 1] = list[i]

LEMMA FrontIs ==
    ASSUME NEW list, IsList(list), NEW new, IsLevel(new)
    PROVE  Fronted(list, new, <<new>> \o list)
<1> DEFINE S == Range(list) \cup {new}
           two == <<new>> \o list
           n == Len(list)
<1>1. list \in Seq(S) /\ <<new>> \in Seq(S) /\ Len(<<new>>) = 1 /\ <<new>>[1] = new
      /\ \A l \in S : IsLevel(l)
  BY SeqMonotonic DEF IsList
<1>2. n \in Nat /\ DOMAIN list = 1..n
  BY ListProperties
<1> HIDE DEF S
<1>3. /\ two \in Seq(S) /\ Len(two) = 1 + n
      /\ \A i \in 1..(1 + n) : two[i] = IF i <= 1 THEN <<new>>[i] ELSE list[i - 1]
  BY <1>1, ConcatProperties
<1> HIDE DEF two, n
<1>4. IsList(two)
  BY <1>1, <1>3, ListOfLevels
<1>5. DOMAIN two = 1..(1 + n)
  BY <1>3, <1>4, ListProperties
<1>6. two[1] = new
  BY <1>1, <1>2, <1>3
<1>7. \A i \in 1..(1 + n) : i = 1 \/ (i - 1 \in 1..n /\ two[i] = list[i - 1])
  BY <1>2, <1>3
<1>8. \A i \in 1..n : i + 1 \in 1..(1 + n) /\ two[i + 1] = list[i]
  <2> SUFFICES ASSUME NEW i \in 1..n PROVE i + 1 \in 1..(1 + n) /\ two[i + 1] = list[i]
    OBVIOUS
  <2>1. i + 1 \in 1..(1 + n) /\ i + 1 # 1 /\ (i + 1) - 1 = i
    BY <1>2
  <2> QED  BY <1>7, <2>1
<1> QED  BY <1>2, <1>3, <1>4, <1>5, <1>6, <1>7, <1>8 DEF Fronted, two, n

LEMMA FrontList ==
    ASSUME NEW list, NEW last, LevelList(list, last), NEW new, FitsLevel(new, last),
           \A i \in DOMAIN list : Before(new, list[i])
    PROVE  LevelList(<<new>> \o list, last)
<1> DEFINE two == <<new>> \o list
<1>1. /\ IsList(two) /\ Len(two) = Len(list) + 1 /\ two[1] = new
      /\ \A i \in DOMAIN two : i = 1 \/ (i - 1 \in DOMAIN list /\ two[i] = list[i - 1])
  BY FrontIs DEF LevelList, FitsLevel, Fronted
<1> HIDE DEF two
<1>2. \A i \in DOMAIN two : FitsLevel(two[i], last)
  BY <1>1 DEF LevelList
<1>3. DOMAIN two = 1..Len(two) /\ Len(two) \in Nat
  BY <1>1, ListProperties
<1>4. ASSUME NEW i \in DOMAIN two, NEW j \in DOMAIN two, i < j PROVE Before(two[i], two[j])
  <2>1. i \in Nat /\ j \in Nat /\ 1 <= i /\ j # 1
    BY <1>3, <1>4
  <2>2. j - 1 \in DOMAIN list /\ two[j] = list[j - 1]
    BY <1>1, <2>1
  <2>3. CASE i = 1
    BY <1>1, <2>2, <2>3
  <2>4. CASE i # 1
    <3>1. i - 1 \in DOMAIN list /\ two[i] = list[i - 1] /\ i - 1 < j - 1
      BY <1>1, <1>4, <2>1, <2>4
    <3> QED  BY <2>2, <3>1 DEF LevelList, InOrder
  <2> QED  BY <2>3, <2>4
<1>5. InOrder(two)
  BY <1>4 DEF InOrder
<1> QED  BY <1>1, <1>2, <1>5 DEF LevelList, two

LEMMA NewIsFirst ==
    ASSUME NEW last, LevelList(levels, last), NEW new,
           new.index = 0, new.sub_index = NewSubIndex
    PROVE  NewSubIndex \in Nat /\ \A i \in DOMAIN levels : Before(new, levels[i])
<1>1. IsList(levels) /\ Len(levels) \in Nat /\ DOMAIN levels = 1..Len(levels)
  BY ListProperties DEF LevelList
<1>2. CASE levels = <<>>
  BY <1>1, <1>2 DEF NewSubIndex
<1>3. CASE levels # <<>>
  <2>1. 1 \in DOMAIN levels
    <3>1. Len(levels) # 0
      BY <1>1, <1>3, EmptySeq DEF IsList
    <3> QED  BY <1>1, <3>1
  <2>2. NewSubIndex = levels[1].sub_index + 1
    BY <1>3 DEF NewSubIndex
  <2>3. \A i \in DOMAIN levels : levels[i].index \in Nat /\ levels[i].sub_index \in Nat
    BY DEF LevelList, FitsLevel
  <2>4. NewSubIndex \in Nat
    BY <2>1, <2>2, <2>3
  <2>5. ASSUME NEW i \in DOMAIN levels PROVE Before(new, levels[i])
    <3>1. i = 1 \/ Before(levels[1], levels[i])
      <4>1. i = 1 \/ 1 < i
        BY <1>1
      <4> QED  BY <2>1, <4>1 DEF LevelList, InOrder
    <3> QED  BY <2>1, <2>2, <2>3, <3>1 DEF Before
  <2> QED  BY <2>4, <2>5
<1> QED  BY <1>2, <1>3

(* A level that changes keeps its place.                                   *)
LEMMA ChangedList ==
    ASSUME NEW list, NEW last, LevelList(list, last), NEW two, IsList(two),
           DOMAIN two = DOMAIN list, NEW later,
           \A i \in DOMAIN list : FitsLevel(two[i], later) /\ Id(two[i]) = Id(list[i])
    PROVE  LevelList(two, later)
<1>1. \A i \in DOMAIN list : /\ two[i].index = list[i].index
                             /\ two[i].sub_index = list[i].sub_index
  BY DEF Id
<1> QED  BY <1>1 DEF LevelList, InOrder, Before

LEMMA LaterProfiles ==
    ASSUME NEW p, NEW last \in Nat, NEW later \in Nat, last <= later, IsProfiles(p, last)
    PROVE  IsProfiles(p, later)
<1>1. 1..last \subseteq 1..later
  OBVIOUS
<1>2. \A k \in DOMAIN p : p[k] \in [ver : 1..later, erased : BOOLEAN]
  BY <1>1 DEF IsProfiles
<1> QED  BY <1>2 DEF IsProfiles

LEMMA LaterLevel ==
    ASSUME NEW l, NEW last \in Nat, NEW later \in Nat, last <= later, FitsLevel(l, last)
    PROVE  FitsLevel(l, later)
BY LaterProfiles DEF FitsLevel

LEMMA LaterList ==
    ASSUME NEW list, NEW last \in Nat, NEW later \in Nat, last <= later, LevelList(list, last)
    PROVE  LevelList(list, later)
BY LaterLevel DEF LevelList

(* A merged level in the place of the block it was made of.                *)
Swapped(list, a, b, level) ==
    Insert(Kept(list, {i \in DOMAIN list : Id(list[i]) \notin {Id(list[j]) : j \in a..b}}), level)

LEMMA MergedList ==
    ASSUME NEW list, NEW last, LevelList(list, last), NEW a \in DOMAIN list, NEW b \in DOMAIN list,
           a <= b, NEW level, FitsLevel(level, last), HasPlace(list, a, b, level)
    PROVE  LET n == Len(list)
               two == Swapped(list, a, b, level)
           IN  /\ LevelList(two, last) /\ Len(two) = n - (b - a)
               /\ DOMAIN two = 1..(n - (b - a))
               /\ \A i \in 1..(a - 1) : two[i] = list[i]
               /\ two[a] = level
               /\ \A i \in (a + 1)..(n - (b - a)) : two[i] = list[i + (b - a)]
<1> DEFINE n == Len(list)
           others == {i \in DOMAIN list : Id(list[i]) \notin {Id(list[j]) : j \in a..b}}
           kept == Kept(list, others)
           two == Insert(kept, level)
           m == n - (b - a)
<1>1. n \in Nat /\ DOMAIN list = 1..n /\ IsList(list)
  BY ListProperties DEF LevelList
<1>2. a \in Nat /\ b \in Nat /\ 1 <= a /\ b <= n /\ a \in 1..n /\ b \in a..n
  BY <1>1
<1>3. \A j \in a..b : j \in DOMAIN list
  BY <1>1, <1>2
<1>4. others = DOMAIN list \ (a..b)
  <2>1. \A i \in DOMAIN list : i \in a..b => Id(list[i]) \in {Id(list[j]) : j \in a..b}
    OBVIOUS
  <2>2. ASSUME NEW i \in DOMAIN list, Id(list[i]) \in {Id(list[j]) : j \in a..b} PROVE i \in a..b
    <3>1. PICK j \in a..b : Id(list[i]) = Id(list[j])
      BY <2>2
    <3> QED  BY <1>3, <3>1, IdsDiffer
  <2> QED  BY <2>1, <2>2
<1> HIDE DEF n
<1>5. /\ DOMAIN kept = 1..(m - 1)
      /\ \A i \in 1..(a - 1) : kept[i] = list[i]
      /\ \A i \in a..(m - 1) : kept[i] = list[i + (b - a) + 1]
  <2> DEFINE rest == Kept(list, DOMAIN list \ (a..b))
  <2>1. /\ DOMAIN rest = 1..(n - (b - a) - 1)
        /\ \A i \in 1..(a - 1) : rest[i] = list[i]
        /\ \A i \in a..(n - (b - a) - 1) : rest[i] = list[i + (b - a) + 1]
    BY <1>1, <1>2, KeptAroundBlock
  <2>2. kept = rest
    BY <1>4
  <2> HIDE DEF rest, kept, others
  <2> QED  BY <2>1, <2>2
<1>6. IsList(kept)
  BY <1>1, KeptIsList
<1> HIDE DEF kept, others
<1>7. m \in Nat /\ 1 <= m /\ a <= m
  BY <1>1, <1>2
<1>8. Len(kept) = m - 1
  <2>1. Len(kept) \in Nat /\ DOMAIN kept = 1..Len(kept)
    BY <1>6, ListProperties
  <2>2. m - 1 \in Nat
    BY <1>7
  <2>3. 1..Len(kept) = 1..(m - 1)
    BY <1>5, <2>1
  <2> HIDE DEF m
  <2> QED  BY <2>1, <2>2, <2>3
<1>9. \A i \in a..(m - 1) : i + (b - a) + 1 \in DOMAIN list /\ i + (b - a) + 1 > b
  <2>1. \A i \in a..(m - 1) : i + (b - a) + 1 \in 1..n /\ i + (b - a) + 1 > b
    BY <1>1, <1>2
  <2> QED  BY <1>1, <2>1
<1>10. \A i \in 1..(a - 1) : i \in DOMAIN list /\ i < a
  BY <1>1, <1>2
<1>11. \A i \in 1..(a - 1) : Before(kept[i], level)
  BY <1>5, <1>10 DEF HasPlace
<1>12. \A i \in a..(m - 1) : ~Before(kept[i], level)
  <2> SUFFICES ASSUME NEW i \in a..(m - 1) PROVE ~Before(kept[i], level)
    OBVIOUS
  <2> DEFINE j == i + (b - a) + 1
  <2>1. kept[i] = list[j] /\ j \in DOMAIN list /\ j > b
    BY <1>5, <1>9
  <2> HIDE DEF j
  <2>2. Before(level, list[j]) /\ FitsLevel(list[j], last)
    BY <2>1 DEF HasPlace, LevelList
  <2> QED  BY <2>1, <2>2, BeforeOrders DEF FitsLevel
<1> HIDE DEF m
<1>13. /\ DOMAIN two = 1..((m - 1) + 1)
       /\ \A i \in 1..(a - 1) : two[i] = kept[i]
       /\ two[a] = level
       /\ \A i \in (a + 1)..((m - 1) + 1) : two[i] = kept[i - 1]
  <2>1. a \in 1..(Len(kept) + 1)
    BY <1>2, <1>7, <1>8
  <2>2. \A i \in a..Len(kept) : ~Before(kept[i], level)
    BY <1>8, <1>12
  <2>3. /\ DOMAIN two = 1..(Len(kept) + 1)
        /\ \A i \in 1..(a - 1) : two[i] = kept[i]
        /\ two[a] = level
        /\ \A i \in (a + 1)..(Len(kept) + 1) : two[i] = kept[i - 1]
    BY <1>6, <1>11, <2>1, <2>2, InsertAtPlace
  <2> HIDE DEF two
  <2> QED  BY <1>8, <2>3
<1>14. (m - 1) + 1 = m
  BY <1>7
<1>15. IsList(two)
  BY <1>6, InsertIsList DEF FitsLevel
<1> HIDE DEF two
<1>16. DOMAIN two = 1..m /\ Len(two) = m
  <2>1. Len(two) \in Nat /\ DOMAIN two = 1..Len(two)
    BY <1>15, ListProperties
  <2> QED  BY <1>7, <1>13, <1>14, <2>1
<1>17. \A i \in 1..(a - 1) : two[i] = list[i]
  BY <1>5, <1>13
<1>18. \A i \in (a + 1)..m : i + (b - a) \in DOMAIN list /\ i + (b - a) > b /\ two[i] = list[i + (b - a)]
  <2> SUFFICES ASSUME NEW i \in (a + 1)..m
               PROVE  /\ i + (b - a) \in DOMAIN list /\ i + (b - a) > b
                      /\ two[i] = list[i + (b - a)]
    OBVIOUS
  <2>1. i - 1 \in a..(m - 1) /\ (i - 1) + (b - a) + 1 = i + (b - a)
    BY <1>2, <1>7
  <2>2. two[i] = kept[i - 1]
    BY <1>13, <1>14
  <2>3. kept[i - 1] = list[(i - 1) + (b - a) + 1]
    BY <1>5, <2>1
  <2>4. i + (b - a) \in DOMAIN list /\ i + (b - a) > b
    BY <1>9, <2>1
  <2> QED  BY <2>1, <2>2, <2>3, <2>4
<1>19. \A i \in DOMAIN two : i \in 1..(a - 1) \/ i = a \/ i \in (a + 1)..m
  BY <1>2, <1>16
<1>20. \A i \in DOMAIN two : FitsLevel(two[i], last)
  BY <1>10, <1>13, <1>17, <1>18, <1>19 DEF LevelList
<1>21. ASSUME NEW i \in DOMAIN two, NEW j \in DOMAIN two, i < j PROVE Before(two[i], two[j])
  <2>0. i \in Nat /\ j \in Nat
    BY <1>16
  <2>1. CASE i \in 1..(a - 1)
    <3>1. two[i] = list[i] /\ i \in DOMAIN list /\ i < a
      BY <1>10, <1>17, <2>1
    <3>2. CASE j \in 1..(a - 1)
      BY <1>10, <1>17, <1>21, <3>1, <3>2 DEF LevelList, InOrder
    <3>3. CASE j = a
      BY <1>13, <3>1, <3>3 DEF HasPlace
    <3>4. CASE j \in (a + 1)..m
      <4>1. j + (b - a) \in DOMAIN list /\ j + (b - a) > b /\ two[j] = list[j + (b - a)]
        BY <1>18, <3>4
      <4>2. i < j + (b - a)
        BY <1>2, <2>0, <3>1, <4>1
      <4> QED  BY <3>1, <4>1, <4>2 DEF LevelList, InOrder
    <3> QED  BY <1>19, <3>2, <3>3, <3>4
  <2>2. CASE i = a
    <3>1. j \in (a + 1)..m
      BY <1>16, <1>21, <1>2, <2>2
    <3>2. j + (b - a) \in DOMAIN list /\ j + (b - a) > b /\ two[j] = list[j + (b - a)]
      BY <1>18, <3>1
    <3> QED  BY <1>13, <2>2, <3>2 DEF HasPlace
  <2>3. CASE i \in (a + 1)..m
    <3>1. j \in (a + 1)..m
      BY <1>16, <1>21, <1>2, <2>3
    <3>2. /\ i + (b - a) \in DOMAIN list /\ two[i] = list[i + (b - a)]
          /\ j + (b - a) \in DOMAIN list /\ two[j] = list[j + (b - a)]
      BY <1>18, <2>3, <3>1
    <3>3. i + (b - a) < j + (b - a)
      BY <1>2, <2>0, <1>21
    <3> QED  BY <3>2, <3>3 DEF LevelList, InOrder
  <2> QED  BY <1>19, <2>1, <2>2, <2>3
<1>22. InOrder(two)
  BY <1>21 DEF InOrder
<1>23. LevelList(two, last)
  BY <1>15, <1>20, <1>22 DEF LevelList
<1>24. \A i \in (a + 1)..m : two[i] = list[i + (b - a)]
  BY <1>18
<1>25. two = Swapped(list, a, b, level)
  BY DEF Swapped, two, kept, others
<1> QED  BY <1>13, <1>16, <1>17, <1>23, <1>24, <1>25 DEF m, n

(* Of a list some levels are kept.                                         *)
LEMMA KeptList ==
    ASSUME NEW list, NEW last, LevelList(list, last), NEW S \in SUBSET DOMAIN list
    PROVE  LevelList(Kept(list, S), last)
<1>1. S \in SUBSET Nat /\ IsFiniteSet(S)
  <2>1. DOMAIN list \in SUBSET Nat /\ IsFiniteSet(DOMAIN list)
    BY ListProperties DEF LevelList
  <2> QED  BY <2>1, FS_Subset
<1>2. /\ DOMAIN Kept(list, S) = 1..Cardinality(S)
      /\ \A n \in 1..Cardinality(S) : Kept(list, S)[n] = list[Place(S, n)]
  BY <1>1, KeptIs
<1>3. /\ \A n \in 1..Cardinality(S) : Place(S, n) \in S
      /\ \A n, m \in 1..Cardinality(S) : n < m => Place(S, n) < Place(S, m)
  BY <1>1, PlaceIs
<1>4. IsList(Kept(list, S))
  BY KeptIsList DEF LevelList
<1>5. \A n \in DOMAIN Kept(list, S) : FitsLevel(Kept(list, S)[n], last)
  BY <1>2, <1>3 DEF LevelList
<1>6. InOrder(Kept(list, S))
  BY <1>2, <1>3 DEF LevelList, InOrder
<1> QED  BY <1>4, <1>5, <1>6 DEF LevelList

LEMMA RewrittenLevel ==
    ASSUME NEW l, IsLevel(l), NEW s, NEW p, NEW f
    PROVE  [l EXCEPT !.stored = s, !.profiles = p, !.file = f] =
               [index |-> l.index, sub_index |-> l.sub_index, profiles |-> p, stored |-> s, file |-> f]
<1> DEFINE x == l.index
           y == l.sub_index
           q == l.profiles
           t == l.stored
           g == l.file
           r == [index |-> x, sub_index |-> y, profiles |-> q, stored |-> t, file |-> g]
<1>1. l = r
  BY DEF IsLevel
<1> HIDE DEF x, y, q, t, g
<1>2. [r EXCEPT !.stored = s] =
          [index |-> x, sub_index |-> y, profiles |-> q, stored |-> s, file |-> g]
  OBVIOUS
<1>3. [[index |-> x, sub_index |-> y, profiles |-> q, stored |-> s, file |-> g]
          EXCEPT !.profiles = p] =
          [index |-> x, sub_index |-> y, profiles |-> p, stored |-> s, file |-> g]
  OBVIOUS
<1>4. [[index |-> x, sub_index |-> y, profiles |-> p, stored |-> s, file |-> g]
          EXCEPT !.file = f] =
          [index |-> x, sub_index |-> y, profiles |-> p, stored |-> s, file |-> f]
  OBVIOUS
<1>5. [r EXCEPT !.stored = s, !.profiles = p, !.file = f] =
          [[[r EXCEPT !.stored = s] EXCEPT !.profiles = p] EXCEPT !.file = f]
  OBVIOUS
<1>6. [l EXCEPT !.stored = s, !.profiles = p, !.file = f] =
          [r EXCEPT !.stored = s, !.profiles = p, !.file = f]
  BY <1>1
<1> HIDE DEF r
<1> QED  BY <1>2, <1>3, <1>4, <1>5, <1>6 DEF r, x, y

LEMMA FileOfLevel ==
    ASSUME NEW l, NEW last, FitsLevel(l, last), l.stored # "memory"
    PROVE  /\ FitsLevel(FileOf(l), last) /\ Id(FileOf(l)) = Id(l) /\ FileOf(l).stored = "file"
           /\ FileOf(l).index = l.index
<1>1. CASE l.stored = "written"
  <2> DEFINE e == [l EXCEPT !.stored = "file", !.profiles = l.file, !.file = NoProfiles]
  <2>1. FileOf(l) = e
    BY <1>1 DEF FileOf
  <2>2. l = [index |-> l.index, sub_index |-> l.sub_index, profiles |-> l.profiles,
             stored |-> l.stored, file |-> l.file]
    BY DEF FitsLevel, IsLevel
  <2>3. e = [index |-> l.index, sub_index |-> l.sub_index, profiles |-> l.file,
             stored |-> "file", file |-> NoProfiles]
    BY RewrittenLevel DEF FitsLevel
  <2> HIDE DEF e
  <2>4. /\ e.index = l.index /\ e.sub_index = l.sub_index /\ e.profiles = l.file
        /\ e.stored = "file" /\ e.file = NoProfiles /\ IsLevel(e)
    BY <2>3 DEF IsLevel
  <2> QED  BY <2>1, <2>4, NoProfilesIs DEF FitsLevel, Id
<1>2. CASE l.stored # "written"
  BY <1>2 DEF FileOf, FitsLevel
<1> QED  BY <1>1, <1>2

LEMMA FilesList ==
    ASSUME NEW last, LevelList(levels, last)
    PROVE  LevelList(Files, last) /\ \A i \in DOMAIN Files : Files[i].stored = "file"
<1> DEFINE S == {i \in DOMAIN levels : levels[i].stored # "memory"}
           renamed == Kept(levels, S)
<1>1. LevelList(renamed, last)
  BY KeptList
<1>2. \A n \in DOMAIN renamed : renamed[n].stored # "memory"
  <2>1. S \in SUBSET Nat /\ IsFiniteSet(S)
    <3>1. DOMAIN levels \in SUBSET Nat /\ IsFiniteSet(DOMAIN levels)
      BY ListProperties DEF LevelList
    <3> QED  BY <3>1, FS_Subset
  <2>2. /\ DOMAIN renamed = 1..Cardinality(S)
        /\ \A n \in 1..Cardinality(S) : renamed[n] = levels[Place(S, n)]
    BY <2>1, KeptIs
  <2>3. \A n \in 1..Cardinality(S) : Place(S, n) \in S
    BY <2>1, PlaceIs
  <2> QED  BY <2>2, <2>3
<1>3. Files = [n \in DOMAIN renamed |-> FileOf(renamed[n])]
  BY DEF Files
<1> HIDE DEF renamed
<1>4. \A n \in DOMAIN renamed : /\ FitsLevel(FileOf(renamed[n]), last)
                                /\ Id(FileOf(renamed[n])) = Id(renamed[n])
                                /\ FileOf(renamed[n]).stored = "file"
  BY <1>1, <1>2, FileOfLevel DEF LevelList
<1>5. DOMAIN Files = DOMAIN renamed /\ \A n \in DOMAIN Files : Files[n] = FileOf(renamed[n])
  BY <1>3
<1>6. IsList(Files)
  BY FilesIsList DEF LevelList
<1> QED  BY <1>1, <1>4, <1>5, <1>6, ChangedList

-----------------------------------------------------------------------------
(* The levels 0 are the first of the list.                                 *)

Levels0(list) == {i \in DOMAIN list : list[i].index = 0}

LEMMA Levels0Are ==
    ASSUME NEW list, NEW last, LevelList(list, last)
    PROVE  /\ IsFiniteSet(Levels0(list)) /\ Cardinality(Levels0(list)) \in 0..Len(list)
           /\ Levels0(list) = 1..Cardinality(Levels0(list))
<1>1. DOMAIN list = 1..Len(list) /\ Len(list) \in Nat /\ IsFiniteSet(DOMAIN list)
  BY ListProperties DEF LevelList
<1> DEFINE S == Levels0(list)
<1>2. S \in SUBSET Nat /\ \A i \in S : i <= Len(list) /\ i \in DOMAIN list
  BY <1>1 DEF Levels0
<1>3. ASSUME NEW n \in 0..Len(list), S = 1..n
      PROVE  IsFiniteSet(S) /\ Cardinality(S) = n
  BY <1>1, <1>3, IntervalSize
<1>4. CASE S = {}
  <2>1. S = 1..0 /\ 0 \in 0..Len(list)
    BY <1>1, <1>4
  <2> HIDE DEF S
  <2> QED  BY <1>3, <2>1 DEF S
<1>5. CASE S # {}
  <2> DEFINE top == Max(S)
  <2>1. top \in S /\ \A i \in S : i <= top
    BY <1>1, <1>2, <1>5, GreatestIs
  <2>2. top \in DOMAIN list /\ list[top].index = 0 /\ top \in 0..Len(list)
    BY <1>1, <2>1 DEF Levels0
  <2> HIDE DEF top
  <2>3. ASSUME NEW i \in 1..top PROVE i \in S
    <3>1. i \in DOMAIN list /\ (i = top \/ i < top)
      BY <1>1, <2>2
    <3>2. i = top \/ Before(list[i], list[top])
      BY <2>2, <3>1 DEF LevelList, InOrder
    <3>3. list[i].index \in Nat /\ list[top].index \in Nat
      BY <2>2, <3>1 DEF LevelList, FitsLevel
    <3>4. list[i].index = 0
      BY <2>2, <3>2, <3>3 DEF Before
    <3> QED  BY <3>1, <3>4 DEF Levels0
  <2>4. \A i \in S : i \in 1..top
    BY <1>1, <1>2, <2>1, <2>2
  <2>5. S = 1..top
    BY <2>3, <2>4
  <2> HIDE DEF S
  <2> QED  BY <1>3, <2>2, <2>5 DEF S
<1> QED  BY <1>4, <1>5

LEMMA PrefixSize ==
    ASSUME NEW list, NEW n \in Nat, Levels0(list) = 1..n
    PROVE  Cardinality(Levels0(list)) = n
BY IntervalSize

LEMMA FrontLevels0 ==
    ASSUME NEW list, NEW last, LevelList(list, last), NEW new, FitsLevel(new, last), new.index = 0
    PROVE  Cardinality(Levels0(<<new>> \o list)) = Cardinality(Levels0(list)) + 1
<1> DEFINE two == <<new>> \o list
           n == Cardinality(Levels0(list))
<1>1. /\ Len(two) = Len(list) + 1 /\ two[1] = new /\ IsList(two)
      /\ \A i \in DOMAIN two : i = 1 \/ (i - 1 \in DOMAIN list /\ two[i] = list[i - 1])
  BY FrontIs DEF LevelList, FitsLevel, Fronted
<1>2. DOMAIN two = 1..Len(two) /\ Len(list) \in Nat /\ DOMAIN list = 1..Len(list)
  BY <1>1, ListProperties DEF LevelList
<1>3. n \in 0..Len(list) /\ Levels0(list) = 1..n
  BY Levels0Are
<1> HIDE DEF two, n
<1>4. \A i \in DOMAIN two : two[i].index = 0 <=> i \in 1..(n + 1)
  <2> SUFFICES ASSUME NEW i \in DOMAIN two PROVE two[i].index = 0 <=> i \in 1..(n + 1)
    OBVIOUS
  <2>1. CASE i = 1
    BY <1>1, <1>2, <1>3, <2>1
  <2>2. CASE i # 1
    <3>1. i - 1 \in DOMAIN list /\ two[i] = list[i - 1]
      BY <1>1, <2>2
    <3>2. two[i].index = 0 <=> i - 1 \in 1..n
      BY <1>3, <3>1 DEF Levels0
    <3> QED  BY <1>2, <1>3, <2>2, <3>2
  <2> QED  BY <2>1, <2>2
<1>5. Levels0(two) = 1..(n + 1)
  <2>1. \A i \in 1..(n + 1) : i \in DOMAIN two
    BY <1>1, <1>2, <1>3
  <2> QED  BY <1>4, <2>1 DEF Levels0
<1>6. n + 1 \in Nat
  BY <1>2, <1>3
<1> QED  BY <1>5, <1>6, PrefixSize DEF two, n

(* Of the places of a block those of the levels 0 are counted.             *)
LEMMA BlockLevels0 ==
    ASSUME NEW list, NEW last, LevelList(list, last), NEW a \in DOMAIN list, NEW b \in DOMAIN list,
           a <= b
    PROVE  LET n == Cardinality(Levels0(list))
               low == {p \in {Id(list[i]) : i \in a..b} : p[1] = 0}
           IN  Cardinality(low) = IF n < a THEN 0 ELSE IF n <= b THEN n - a + 1 ELSE b - a + 1
<1> DEFINE n == Cardinality(Levels0(list))
           low == {p \in {Id(list[i]) : i \in a..b} : p[1] = 0}
           top == IF n <= b THEN n ELSE b
           f == [i \in a..top |-> Id(list[i])]
<1>1. DOMAIN list = 1..Len(list) /\ Len(list) \in Nat
  BY ListProperties DEF LevelList
<1>2. n \in 0..Len(list) /\ Levels0(list) = 1..n
  BY Levels0Are
<1> HIDE DEF n
<1>3. a \in Nat /\ b \in Nat /\ 1 <= a /\ n \in Nat /\ top \in Nat
  BY <1>1, <1>2
<1>4. \A i \in a..b : i \in DOMAIN list /\ (list[i].index = 0 <=> i \in 1..n)
  BY <1>1, <1>2, <1>3 DEF Levels0
<1>5. \A i \in a..top : i \in a..b /\ i \in 1..n
  BY <1>3
<1>6. \A i \in a..b : i \in 1..n => i \in a..top
  BY <1>3
<1>7. f \in Bijection(a..top, low)
  <2>1. \A i \in a..top : f[i] = Id(list[i]) /\ f[i] \in low
    BY <1>4, <1>5 DEF Id
  <2>2. \A i, j \in a..top : f[i] = f[j] => i = j
    <3> SUFFICES ASSUME NEW i \in a..top, NEW j \in a..top, f[i] = f[j] PROVE i = j
      OBVIOUS
    <3>1. i \in DOMAIN list /\ j \in DOMAIN list /\ Id(list[i]) = Id(list[j])
      BY <1>4, <1>5, <2>1
    <3> QED  BY <3>1, IdsDiffer
  <2>3. \A p \in low : \E i \in a..top : f[i] = p
    <3> SUFFICES ASSUME NEW p \in low PROVE \E i \in a..top : f[i] = p
      OBVIOUS
    <3>1. PICK i \in a..b : p = Id(list[i]) /\ p[1] = 0
      OBVIOUS
    <3>2. i \in a..top
      BY <1>4, <1>6, <3>1 DEF Id
    <3> QED  BY <3>1, <3>2
  <2>4. f \in [a..top -> low]
    BY <2>1
  <2> HIDE DEF f, low
  <2> QED  BY <2>2, <2>3, <2>4 DEF Bijection, Injection, IsInjective, Surjection
<1>8. IsFiniteSet(a..top) /\ Cardinality(a..top) = IF a > top THEN 0 ELSE top - a + 1
  <2>1. top \in Int /\ a \in Int
    BY <1>3
  <2> HIDE DEF top
  <2> QED  BY <2>1, IntervalSize
<1>9. Cardinality(low) = Cardinality(a..top)
  <2>1. ExistsBijection(a..top, low)
    BY <1>7 DEF ExistsBijection
  <2>2. IsFiniteSet(a..top)
    BY <1>8
  <2> HIDE DEF low, top
  <2> QED  BY <2>1, <2>2, FS_Bijection
<1>10. (IF a > top THEN 0 ELSE top - a + 1) = IF n < a THEN 0 ELSE IF n <= b THEN n - a + 1 ELSE b - a + 1
  BY <1>3
<1> QED  BY <1>8, <1>9, <1>10 DEF n, low

-----------------------------------------------------------------------------
(* What the tasks of dumping have not counted yet.                         *)

Undumped(S) == SumOver([task \in S |-> task.area], {task \in S : task.step # "enqueue"})

UndumpedBy(task) == IF task.step # "enqueue" THEN task.area ELSE 0

LEMMA UndumpedRemove ==
    ASSUME NEW S, IsFiniteSet(S), \A task \in S : task.area \in Nat, NEW t \in S
    PROVE  Undumped(S \ {t}) \in Nat /\ Undumped(S) = Undumped(S \ {t}) + UndumpedBy(t)
<1> DEFINE T == {task \in S : task.step # "enqueue"}
           U == {task \in S \ {t} : task.step # "enqueue"}
           f == [task \in S |-> task.area]
           h == [task \in S \ {t} |-> task.area]
<1>1. IsFiniteSet(T) /\ IsFiniteSet(U) /\ \A task \in T : f[task] \in Nat
  BY FS_Subset
<1>2. \A task \in U : f[task] = h[task] /\ h[task] \in Nat
  OBVIOUS
<1>3. Undumped(S) = SumOver(f, T) /\ Undumped(S \ {t}) = SumOver(h, U)
  BY DEF Undumped
<1>4. t.step # "enqueue" => t \in T /\ U = T \ {t} /\ f[t] = t.area
  OBVIOUS
<1>5. t.step = "enqueue" => U = T
  OBVIOUS
<1> HIDE DEF T, U, f, h
<1>6. SumOver(f, U) = SumOver(h, U) /\ SumOver(h, U) \in Nat
  <2>1. SumOver(f, U) = SumOver(h, U)
    BY <1>1, <1>2, SumSame
  <2>2. SumOver(h, U) \in Nat
    BY <1>1, <1>2, SumNotNegative
  <2> QED  BY <2>1, <2>2
<1>7. CASE t.step # "enqueue"
  <2>1. \A task \in T : f[task] \in Int
    BY <1>1
  <2>2. SumOver(f, T) = f[t] + SumOver(f, T \ {t})
    BY <1>1, <1>4, <1>7, <2>1, SumRemove
  <2>3. t.area \in Nat
    OBVIOUS
  <2>4. SumOver(f, T) = t.area + SumOver(f, U)
    BY <1>4, <1>7, <2>2
  <2>5. SumOver(f, T) = SumOver(h, U) + t.area
    BY <1>6, <2>3, <2>4
  <2> QED  BY <1>3, <1>6, <1>7, <2>5 DEF UndumpedBy
<1>8. CASE t.step = "enqueue"
  <2>1. SumOver(f, T) = SumOver(h, U)
    BY <1>5, <1>6, <1>8
  <2> QED  BY <1>3, <1>6, <1>8, <2>1 DEF UndumpedBy
<1> QED  BY <1>7, <1>8

LEMMA UndumpedAdd ==
    ASSUME NEW S, IsFiniteSet(S), \A task \in S : task.area \in Nat,
           NEW t, t \notin S, t.area \in Nat
    PROVE  /\ IsFiniteSet(S \cup {t}) /\ Undumped(S) \in Nat
           /\ Undumped(S \cup {t}) = Undumped(S) + UndumpedBy(t)
<1>1. IsFiniteSet(S \cup {t})
  BY FS_AddElement
<1> DEFINE T == S \cup {t}
<1>2. \A task \in T : task.area \in Nat
  OBVIOUS
<1>3. t \in T /\ T \ {t} = S
  OBVIOUS
<1>4. IsFiniteSet(T)
  BY <1>1
<1> HIDE DEF T
<1>5. Undumped(T \ {t}) \in Nat /\ Undumped(T) = Undumped(T \ {t}) + UndumpedBy(t)
  BY <1>2, <1>3, <1>4, UndumpedRemove
<1> QED  BY <1>3, <1>4, <1>5 DEF T

LEMMA UndumpedMove ==
    ASSUME NEW S, IsFiniteSet(S), \A task \in S : task.area \in Nat, NEW t \in S,
           NEW u, u \notin S \ {t}, u.area \in Nat
    PROVE  /\ IsFiniteSet((S \ {t}) \cup {u}) /\ Undumped(S) \in Nat
           /\ Undumped((S \ {t}) \cup {u}) = Undumped(S) - UndumpedBy(t) + UndumpedBy(u)
<1> DEFINE R == S \ {t}
<1>1. IsFiniteSet(R) /\ \A task \in R : task.area \in Nat
  BY FS_RemoveElement
<1>2. Undumped(R) \in Nat /\ Undumped(S) = Undumped(R) + UndumpedBy(t)
  BY UndumpedRemove
<1>3. u \notin R
  OBVIOUS
<1> HIDE DEF R
<1>4. /\ IsFiniteSet(R \cup {u})
      /\ Undumped(R \cup {u}) = Undumped(R) + UndumpedBy(u)
  BY <1>1, <1>3, UndumpedAdd
<1>5. UndumpedBy(t) \in Nat /\ UndumpedBy(u) \in Nat
  BY DEF UndumpedBy
<1> QED  BY <1>2, <1>4, <1>5 DEF R

-----------------------------------------------------------------------------
(* The invariant of the levels, the tasks and the counters.                *)

(* A merge that has written its level and not put it into the list yet: it  *)
(* was made of a block of the list, which is as it was.                    *)
Merging(list, m, a, b, last, time) ==
    /\ a \in DOMAIN list /\ b \in DOMAIN list /\ a < b
    /\ \A i \in a..b : list[i].stored = "file"
    /\ m.picked = {Id(list[i]) : i \in a..b}
    /\ FitsLevel(m.result, last) /\ m.result.stored = "file"
    /\ HasPlace(list, a, b, m.result)
    /\ MergedFrom(list, a, b, m.result.profiles, time)

MergeIsOfBlock ==
    merge.step = "swap" => \E a, b \in DOMAIN levels : Merging(levels, merge, a, b, written, old)

LevelsInv ==
    /\ written \in Nat /\ old \in Nat
    /\ IsProfiles(rw, written)
    /\ LevelList(levels, written)
    /\ MergeIsOfBlock
    /\ Down => rw = NoProfiles /\ dumps = {} /\ merge.step = "none"

(* Each level without a file has a task that dumps it.                     *)
Pending(task) == task.step \in {"write", "swap"}

OfLevel(task, level) == level.index = 0 /\ level.sub_index = task.sub_index

DumpsInv ==
    /\ IsFiniteSet(dumps)
    /\ \A t \in dumps : /\ IsTask(t) /\ t.step \in {"write", "swap", "count", "enqueue"}
                        /\ t.area \in Nat \ {0} /\ t.upto \in 1..written
    /\ \A s, t \in dumps : s.upto = t.upto => s = t
    /\ \A t \in dumps : \A k \in DOMAIN rw : t.upto < rw[k].ver
    /\ \A t \in dumps : Pending(t) =>
          \E i \in DOMAIN levels : /\ OfLevel(t, levels[i])
                                   /\ levels[i].stored = IF t.step = "write" THEN "memory" ELSE "written"
    /\ \A i \in DOMAIN levels : levels[i].stored # "file" =>
          \E t \in dumps : Pending(t) /\ OfLevel(t, levels[i])
    /\ \A s, t \in dumps : Pending(s) /\ Pending(t) /\ s.sub_index = t.sub_index => s = t

Uncounted == IF merge.step = "count" THEN merge.gone - merge.came ELSE 0

CountsInv ==
    /\ merge.step = "count" => merge.gone \in Nat /\ merge.came \in Nat
    /\ ~Down => /\ undumped = AreaSize(rw) + Undumped(dumps)
                /\ levels0 = Cardinality(Levels0(levels)) + Uncounted

MapInv == LevelsInv /\ DumpsInv /\ CountsInv

LEMMA CountsAre == CountsInv => CountersMatchLevels
BY DEF CountsInv, CountersMatchLevels, Undumped, Levels0, Uncounted

(* A level in front of the list leaves the merge its block.                *)
LEMMA MergingShifts ==
    ASSUME NEW list, NEW last \in Nat, LevelList(list, last), NEW new, FitsLevel(new, last),
           \A i \in DOMAIN list : Before(new, list[i]), new.index = 0,
           NEW m, NEW a, NEW b, NEW time, Merging(list, m, a, b, last, time)
    PROVE  Merging(<<new>> \o list, m, a + 1, b + 1, last, time)
<1> DEFINE two == <<new>> \o list
<1>1. /\ two[1] = new
      /\ \A i \in DOMAIN two : i = 1 \/ (i - 1 \in DOMAIN list /\ two[i] = list[i - 1])
      /\ \A i \in DOMAIN list : i + 1 \in DOMAIN two /\ two[i + 1] = list[i]
      /\ IsList(two)
  BY FrontIs DEF LevelList, FitsLevel, Fronted
<1> HIDE DEF two
<1>2. DOMAIN list = 1..Len(list) /\ Len(list) \in Nat /\ DOMAIN two \in SUBSET Nat
  BY <1>1, ListProperties DEF LevelList
<1>3. /\ a \in DOMAIN list /\ b \in DOMAIN list /\ a < b
      /\ a \in Nat /\ b \in Nat /\ 1 <= a /\ b <= Len(list)
  BY <1>2 DEF Merging
<1>4. \A i \in a..b : i \in DOMAIN list /\ i + 1 \in (a + 1)..(b + 1) /\ two[i + 1] = list[i]
  <2>1. \A i \in a..b : i \in DOMAIN list /\ i + 1 \in (a + 1)..(b + 1)
    BY <1>2, <1>3
  <2> QED  BY <1>1, <2>1
<1>5. \A i \in (a + 1)..(b + 1) : i - 1 \in a..b /\ two[i] = list[i - 1]
  <2> SUFFICES ASSUME NEW i \in (a + 1)..(b + 1) PROVE i - 1 \in a..b /\ two[i] = list[i - 1]
    OBVIOUS
  <2>1. i - 1 \in a..b /\ (i - 1) + 1 = i
    BY <1>3
  <2> QED  BY <1>4, <2>1
<1>6. \A i \in (a + 1)..(b + 1) : two[i].stored = "file"
  BY <1>5 DEF Merging
<1>7. m.picked = {Id(two[i]) : i \in (a + 1)..(b + 1)}
  <2>1. {Id(list[i]) : i \in a..b} = {Id(two[i]) : i \in (a + 1)..(b + 1)}
    <3>1. \A i \in a..b : \E j \in (a + 1)..(b + 1) : Id(two[j]) = Id(list[i])
      BY <1>4
    <3>2. \A j \in (a + 1)..(b + 1) : \E i \in a..b : Id(two[j]) = Id(list[i])
      BY <1>5
    <3> QED  BY <3>1, <3>2
  <2> QED  BY <2>1 DEF Merging
<1>8. two[a + 1] = list[a]
  BY <1>1, <1>3
<1>9. HasPlace(two, a + 1, b + 1, m.result)
  <2>1. /\ FitsLevel(list[a], last) /\ FitsLevel(m.result, last)
        /\ Id(m.result) = Id(list[a]) \/ list[a].index < m.result.index
    BY <1>3 DEF Merging, HasPlace, LevelList
  <2>2. Before(new, list[a])
    BY <1>3
  <2>3. Before(new, m.result)
    BY <2>1, <2>2 DEF Before, Id, FitsLevel
  <2>4. ASSUME NEW i \in DOMAIN two, i < a + 1 PROVE Before(two[i], m.result)
    <3>1. CASE i = 1
      BY <1>1, <2>3, <3>1
    <3>2. CASE i # 1
      <4>1. i - 1 \in DOMAIN list /\ two[i] = list[i - 1]
        BY <1>1, <3>2
      <4>2. i - 1 < a
        BY <1>2, <1>3, <2>4
      <4> QED  BY <4>1, <4>2 DEF Merging, HasPlace
    <3> QED  BY <3>1, <3>2
  <2>5. ASSUME NEW i \in DOMAIN two, i > b + 1 PROVE Before(m.result, two[i])
    <3>1. i # 1 /\ i - 1 > b
      BY <1>2, <1>3, <2>5
    <3>2. i - 1 \in DOMAIN list /\ two[i] = list[i - 1]
      BY <1>1, <3>1
    <3> QED  BY <3>1, <3>2 DEF Merging, HasPlace
  <2> QED  BY <1>8, <2>1, <2>4, <2>5 DEF HasPlace
<1>10. MergedFrom(two, a + 1, b + 1, m.result.profiles, time)
  <2> DEFINE p == m.result.profiles
  <2>1. MergedFrom(list, a, b, p, time)
    BY DEF Merging
  <2> HIDE DEF p
  <2>2. ASSUME NEW k
        PROVE  k \in DOMAIN p <=> \E j \in (a + 1)..(b + 1) : k \in DOMAIN two[j].profiles
    <3>1. k \in DOMAIN p <=> \E j \in a..b : k \in DOMAIN list[j].profiles
      BY <2>1 DEF MergedFrom
    <3> QED  BY <1>4, <1>5, <3>1
  <2>3. ASSUME NEW k, NEW i \in (a + 1)..(b + 1), k \in DOMAIN two[i].profiles,
               \A j \in (a + 1)..(i - 1) : k \notin DOMAIN two[j].profiles
        PROVE  Expires(two[i].profiles[k], p[k], time)
    <3> DEFINE n == i - 1
    <3>1. n \in a..b /\ two[i] = list[n]
      BY <1>5
    <3>2. \A j \in a..(n - 1) : k \notin DOMAIN list[j].profiles
      <4> SUFFICES ASSUME NEW j \in a..(n - 1) PROVE k \notin DOMAIN list[j].profiles
        OBVIOUS
      <4>1. a \in Int /\ b \in Int /\ i \in Int /\ i - 1 <= b /\ j \in a..(i - 1 - 1)
        BY <1>3
      <4>2. j \in a..b
        BY <4>1
      <4>3. j + 1 \in (a + 1)..(i - 1)
        BY <4>1
      <4> QED  BY <1>4, <2>3, <4>2, <4>3
    <3> HIDE DEF n
    <3> QED  BY <2>1, <2>3, <3>1, <3>2 DEF MergedFrom
  <2> QED  BY <2>2, <2>3 DEF MergedFrom, p
<1>11. a + 1 \in DOMAIN two /\ b + 1 \in DOMAIN two /\ a + 1 < b + 1
  BY <1>1, <1>3
<1> QED  BY <1>6, <1>7, <1>9, <1>10, <1>11 DEF Merging, two

LEMMA MergingLater ==
    ASSUME NEW list, NEW last \in Nat, LevelList(list, last), NEW later \in Nat, last <= later,
           NEW time \in Int, NEW after \in Int, time <= after,
           NEW m, NEW a, NEW b, Merging(list, m, a, b, last, time)
    PROVE  Merging(list, m, a, b, later, after)
<1>1. FitsLevel(m.result, later)
  BY LaterLevel DEF Merging
<1>2. MergedFrom(list, a, b, m.result.profiles, after)
  <2> SUFFICES ASSUME NEW k, NEW i \in a..b, k \in DOMAIN list[i].profiles,
                      \A j \in a..(i - 1) : k \notin DOMAIN list[j].profiles
               PROVE  Expires(list[i].profiles[k], m.result.profiles[k], after)
    BY DEF Merging, MergedFrom
  <2>1. Expires(list[i].profiles[k], m.result.profiles[k], time)
    BY DEF Merging, MergedFrom
  <2>2. i \in DOMAIN list
    <3>1. DOMAIN list = 1..Len(list) /\ Len(list) \in Nat
      BY ListProperties DEF LevelList
    <3> QED  BY <3>1 DEF Merging
  <2>3. m.result.profiles[k].ver \in Int /\ list[i].profiles[k].ver \in Int
    <3>1. k \in DOMAIN m.result.profiles
      BY DEF Merging, MergedFrom
    <3>2. IsProfiles(m.result.profiles, last) /\ IsProfiles(list[i].profiles, last)
      BY <2>2 DEF Merging, LevelList, FitsLevel
    <3>3. \A p : IsProfiles(p, last) /\ k \in DOMAIN p => p[k].ver \in Int
      BY DEF IsProfiles
    <3> QED  BY <3>1, <3>2, <3>3
  <2> QED  BY <2>1, <2>3 DEF Expires
<1> QED  BY <1>1, <1>2 DEF Merging

-----------------------------------------------------------------------------
(* Writers                                                                 *)

LEMMA UndumpedType ==
    ASSUME NEW S, IsFiniteSet(S), \A task \in S : task.area \in Nat
    PROVE  Undumped(S) \in Nat
<1> DEFINE T == {task \in S : task.step # "enqueue"}
           f == [task \in S |-> task.area]
<1>1. IsFiniteSet(T) /\ \A task \in T : f[task] \in Nat
  BY FS_Subset
<1> HIDE DEF f, T
<1>2. SumOver(f, T) \in Nat
  BY <1>1, SumNotNegative
<1> QED  BY <1>2 DEF Undumped, f, T

(* More may have been written, and time may have passed.                   *)
LEMMA MergeLater ==
    ASSUME LevelsInv, written' \in Nat, written <= written', old' \in Nat, old <= old',
           NEW list, list = levels, UNCHANGED merge
    PROVE  /\ LevelList(list, written')
           /\ merge.step = "swap" =>
                 \E a, b \in DOMAIN list : Merging(list, merge, a, b, written', old')
<1>1. LevelList(list, written')
  BY LaterList DEF LevelsInv
<1>2. ASSUME merge.step = "swap"
      PROVE  \E a, b \in DOMAIN list : Merging(list, merge, a, b, written', old')
  <2>1. PICK a, b \in DOMAIN levels : Merging(levels, merge, a, b, written, old)
    BY <1>2 DEF LevelsInv, MergeIsOfBlock
  <2>2. Merging(levels, merge, a, b, written', old')
    <3>1. written \in Nat /\ old \in Int /\ old' \in Int /\ LevelList(levels, written)
      BY DEF LevelsInv
    <3> QED  BY <2>1, <3>1, MergingLater
  <2> QED  BY <2>1, <2>2
<1> QED  BY <1>1, <1>2

(* The writable level gets other profiles, and the lists are as they were.  *)
LEMMA WritableKeepsMap ==
    ASSUME MapInv, ~Down, ~Down', written' \in Nat, written <= written',
           NEW profiles, IsProfiles(profiles, written'),
           \A t \in dumps : \A k \in DOMAIN profiles : t.upto < profiles[k].ver,
           rw' = profiles, UNCHANGED <<levels, dumps, levels0, merge, old>>,
           undumped' = undumped + AreaSize(profiles) - AreaSize(rw)
    PROVE  MapInv'
<1>1. LevelsInv'
  <2>1. old \in Nat
    BY DEF MapInv, LevelsInv
  <2>2. /\ LevelList(levels, written')
        /\ merge.step = "swap" =>
              \E a, b \in DOMAIN levels : Merging(levels, merge, a, b, written', old')
    BY <2>1, MergeLater DEF MapInv
  <2> QED  BY <2>1, <2>2 DEF LevelsInv, MergeIsOfBlock
<1>2. DumpsInv'
  <2>1. \A t \in dumps : t.upto \in 1..written'
    <3>1. written \in Nat
      BY DEF MapInv, LevelsInv
    <3>2. \A t \in dumps : t.upto \in 1..written
      BY DEF MapInv, DumpsInv
    <3> QED  BY <3>1, <3>2
  <2> QED  BY <2>1 DEF MapInv, DumpsInv
<1>3. CountsInv'
  <2>1. Undumped(dumps) \in Nat
    BY UndumpedType DEF MapInv, DumpsInv
  <2>2. AreaSize(rw) \in Nat /\ AreaSize(profiles) \in Nat
    BY AreaIs DEF MapInv, LevelsInv
  <2>3. undumped' = AreaSize(rw') + Undumped(dumps')
    BY <2>1, <2>2 DEF MapInv, CountsInv
  <2> QED  BY <2>3 DEF MapInv, CountsInv, Uncounted
<1> QED  BY <1>1, <1>2, <1>3 DEF MapInv

(* The writable level is put in front of the others, with a task to dump it. *)
LEMMA ExchangeKeepsMap ==
    ASSUME MapInv, ~Down, ~Down', written' \in Nat, written <= written',
           NEW profiles, IsProfiles(profiles, written'),
           \A t \in dumps : \A k \in DOMAIN profiles : t.upto < profiles[k].ver,
           Exchange(profiles), UNCHANGED <<merge, old>>,
           undumped' = undumped + AreaSize(profiles) - AreaSize(rw)
    PROVE  MapInv'
<1>1. CASE profiles = NoProfiles
  <2>1. UNCHANGED <<levels, dumps, levels0, merge, old>> /\ rw' = profiles
    BY <1>1 DEF Exchange
  <2> QED  BY <2>1, WritableKeepsMap
<1>2. CASE profiles # NoProfiles
  <2> DEFINE new == [index |-> 0, sub_index |-> NewSubIndex, profiles |-> profiles,
                     stored |-> "memory", file |-> NoProfiles]
             vers == {profiles[k].ver : k \in DOMAIN profiles}
             task == [sub_index |-> NewSubIndex, step |-> "write", upto |-> Max(vers),
                      area |-> AreaSize(profiles), merge |-> FALSE]
  <2>1. /\ rw' = NoProfiles /\ levels' = <<new>> \o levels /\ levels0' = levels0 + 1
        /\ dumps' = dumps \cup {task}
    BY <1>2 DEF Exchange
  <2>2. /\ written \in Nat /\ old \in Nat /\ IsProfiles(rw, written) /\ LevelList(levels, written)
        /\ IsFiniteSet(dumps) /\ \A t \in dumps : t.area \in Nat \ {0} /\ t.upto \in 1..written
    BY DEF MapInv, LevelsInv, DumpsInv
  <2>3. /\ LevelList(levels, written')
        /\ merge.step = "swap" =>
              \E a, b \in DOMAIN levels : Merging(levels, merge, a, b, written', old)
    BY <2>2, MergeLater DEF MapInv
  <2>4. NewSubIndex \in Nat /\ \A i \in DOMAIN levels : Before(new, levels[i])
    <3>1. new.index = 0 /\ new.sub_index = NewSubIndex
      OBVIOUS
    <3> HIDE DEF new
    <3> QED  BY <2>2, <3>1, NewIsFirst
  <2>5. FitsLevel(new, written')
    BY <2>4, NoProfilesIs DEF FitsLevel, IsLevel
  <2>6. task.upto \in 1..written' /\ \A t \in dumps : t.upto < task.upto
    <3>1. vers \in SUBSET Nat /\ \A n \in vers : n <= written'
      BY DEF IsProfiles
    <3>2. vers # {}
      BY <1>2, NoProfilesIs
    <3>3. Max(vers) \in vers
      BY <3>1, <3>2, GreatestIs
    <3>4. PICK k \in DOMAIN profiles : Max(vers) = profiles[k].ver
      BY <3>3
    <3>5. profiles[k].ver \in 1..written'
      BY DEF IsProfiles
    <3> QED  BY <3>4, <3>5
  <2>7. AreaSize(profiles) \in Nat \ {0} /\ AreaSize(rw) \in Nat
    BY <1>2, <2>2, AreaIs
  <2>8. /\ IsTask(task) /\ task.step = "write" /\ task.area = AreaSize(profiles)
        /\ task.sub_index = NewSubIndex
    BY DEF IsTask
  <2>9. new.index = 0 /\ new.sub_index = NewSubIndex /\ new.stored = "memory" /\ IsLevel(new)
    BY <2>5 DEF FitsLevel
  <2>10. task \notin dumps
    BY <2>2, <2>6
  <2> HIDE DEF new, task, vers
  <2>11. /\ levels'[1] = new
         /\ \A i \in DOMAIN levels' : i = 1 \/ (i - 1 \in DOMAIN levels /\ levels'[i] = levels[i - 1])
         /\ \A i \in DOMAIN levels : i + 1 \in DOMAIN levels' /\ levels'[i + 1] = levels[i]
         /\ 1 \in DOMAIN levels'
    <3>1. IsList(levels) /\ Len(levels) \in Nat
      BY <2>2, ListProperties DEF LevelList
    <3>2. /\ IsList(levels') /\ Len(levels') = Len(levels) + 1 /\ levels'[1] = new
          /\ \A i \in DOMAIN levels' :
                i = 1 \/ (i - 1 \in DOMAIN levels /\ levels'[i] = levels[i - 1])
          /\ \A i \in DOMAIN levels : i + 1 \in DOMAIN levels' /\ levels'[i + 1] = levels[i]
      <4>1. levels' = <<new>> \o levels /\ IsLevel(new)
        BY <2>1, <2>9
      <4>2. Fronted(levels, new, levels')
        BY <3>1, <4>1, FrontIs
      <4> QED  BY <4>2 DEF Fronted
    <3>3. DOMAIN levels' = 1..Len(levels')
      BY <3>2, ListProperties
    <3>4. 1 \in DOMAIN levels'
      BY <3>1, <3>2, <3>3
    <3> QED  BY <3>2, <3>4
  <2>12. LevelsInv'
    <3>1. LevelList(levels', written')
      BY <2>1, <2>3, <2>4, <2>5, FrontList
    <3>2. MergeIsOfBlock'
      <4> SUFFICES ASSUME merge.step = "swap"
                   PROVE  \E a, b \in DOMAIN levels' : Merging(levels', merge, a, b, written', old)
        BY DEF MergeIsOfBlock
      <4>1. PICK a, b \in DOMAIN levels : Merging(levels, merge, a, b, written', old)
        BY <2>3
      <4>2. Merging(levels', merge, a + 1, b + 1, written', old)
        BY <2>1, <2>3, <2>4, <2>5, <2>9, <4>1, MergingShifts
      <4> QED  BY <2>11, <4>1, <4>2
    <3> QED  BY <2>1, <2>2, <3>1, <3>2, NoProfilesIs DEF LevelsInv
  <2>13. DumpsInv'
    <3>1. IsFiniteSet(dumps')
      BY <2>1, <2>2, FS_AddElement
    <3>2. \A t \in dumps' : /\ IsTask(t) /\ t.step \in {"write", "swap", "count", "enqueue"}
                            /\ t.area \in Nat \ {0} /\ t.upto \in 1..written'
      <4>1. \A t \in dumps : t.upto \in 1..written'
        BY <2>2
      <4>2. \A t \in dumps : /\ IsTask(t) /\ t.step \in {"write", "swap", "count", "enqueue"}
                             /\ t.area \in Nat \ {0}
        BY DEF MapInv, DumpsInv
      <4> QED  BY <2>1, <2>6, <2>7, <2>8, <4>1, <4>2
    <3>3. \A s, t \in dumps' : s.upto = t.upto => s = t
      <4>1. \A s, t \in dumps : s.upto = t.upto => s = t
        BY DEF MapInv, DumpsInv
      <4>2. \A t \in dumps : t.upto # task.upto
        BY <2>2, <2>6
      <4> QED  BY <2>1, <4>1, <4>2
    <3>4. \A t \in dumps' : \A k \in DOMAIN rw' : t.upto < rw'[k].ver
      BY <2>1, NoProfilesIs
    <3>5. ASSUME NEW t \in dumps', Pending(t)
          PROVE  \E i \in DOMAIN levels' :
                     /\ OfLevel(t, levels'[i])
                     /\ levels'[i].stored = IF t.step = "write" THEN "memory" ELSE "written"
      <4>1. CASE t = task
        <5>1. /\ OfLevel(t, levels'[1])
              /\ levels'[1].stored = IF t.step = "write" THEN "memory" ELSE "written"
          BY <2>8, <2>9, <2>11, <4>1 DEF OfLevel
        <5> QED  BY <2>11, <5>1
      <4>2. CASE t \in dumps
        <5>1. PICK i \in DOMAIN levels :
                  /\ OfLevel(t, levels[i])
                  /\ levels[i].stored = IF t.step = "write" THEN "memory" ELSE "written"
          BY <3>5, <4>2 DEF MapInv, DumpsInv
        <5> QED  BY <2>11, <5>1
      <4> QED  BY <2>1, <4>1, <4>2
    <3>6. ASSUME NEW i \in DOMAIN levels', levels'[i].stored # "file"
          PROVE  \E t \in dumps' : Pending(t) /\ OfLevel(t, levels'[i])
      <4>1. CASE i = 1
        <5>1. Pending(task) /\ OfLevel(task, levels'[i]) /\ task \in dumps'
          BY <2>1, <2>8, <2>9, <2>11, <4>1 DEF OfLevel, Pending
        <5> QED  BY <5>1
      <4>2. CASE i # 1
        <5>1. i - 1 \in DOMAIN levels /\ levels'[i] = levels[i - 1]
          BY <2>11, <4>2
        <5> DEFINE j == i - 1
        <5>2. \E t \in dumps : Pending(t) /\ OfLevel(t, levels[j])
          <6>1. levels[j].stored # "file" /\ j \in DOMAIN levels
            BY <3>6, <5>1
          <6> HIDE DEF j
          <6> QED  BY <6>1 DEF MapInv, DumpsInv
        <5> QED  BY <2>1, <5>1, <5>2
      <4> QED  BY <4>1, <4>2
    <3>7. \A s, t \in dumps' : Pending(s) /\ Pending(t) /\ s.sub_index = t.sub_index => s = t
      <4>1. ASSUME NEW s \in dumps, Pending(s) PROVE s.sub_index # task.sub_index
        <5>1. PICK i \in DOMAIN levels : OfLevel(s, levels[i])
          BY <4>1 DEF MapInv, DumpsInv
        <5>2. levels[i].sub_index \in Nat /\ Before(new, levels[i])
          BY <2>2, <2>4 DEF LevelList, FitsLevel
        <5> QED  BY <2>4, <2>8, <2>9, <5>1, <5>2 DEF OfLevel, Before
      <4>2. \A s, t \in dumps : Pending(s) /\ Pending(t) /\ s.sub_index = t.sub_index => s = t
        BY DEF MapInv, DumpsInv
      <4> QED  BY <2>1, <4>1, <4>2
    <3> QED  BY <3>1, <3>2, <3>3, <3>4, <3>5, <3>6, <3>7 DEF DumpsInv
  <2>14. CountsInv'
    <3>1. Undumped(dumps) \in Nat /\ Undumped(dumps') = Undumped(dumps) + AreaSize(profiles)
      <4>1. \A t \in dumps : t.area \in Nat
        BY <2>2
      <4>2. Undumped(dumps) \in Nat /\ Undumped(dumps \cup {task}) = Undumped(dumps) + UndumpedBy(task)
        BY <2>2, <2>7, <2>8, <2>10, <4>1, UndumpedAdd
      <4>3. UndumpedBy(task) = AreaSize(profiles)
        BY <2>8 DEF UndumpedBy
      <4> QED  BY <2>1, <4>2, <4>3
    <3>2. undumped' = AreaSize(rw') + Undumped(dumps')
      <4>1. AreaSize(rw') = 0
        BY <2>1, NoProfilesIs
      <4>2. undumped = AreaSize(rw) + Undumped(dumps)
        BY DEF MapInv, CountsInv
      <4> QED  BY <2>7, <3>1, <4>1, <4>2
    <3>3. Cardinality(Levels0(levels)) \in Nat
          /\ Cardinality(Levels0(levels')) = Cardinality(Levels0(levels)) + 1
      <4>1. Cardinality(Levels0(levels)) \in Nat
        <5>1. Len(levels) \in Nat
          BY <2>2, ListProperties DEF LevelList
        <5>2. Cardinality(Levels0(levels)) \in 0..Len(levels)
          BY <2>2, Levels0Are
        <5> QED  BY <5>1, <5>2
      <4> QED  BY <2>1, <2>3, <2>5, <2>9, <4>1, FrontLevels0
    <3>4. Uncounted \in Int /\ Uncounted' = Uncounted
      BY DEF MapInv, CountsInv, Uncounted
    <3>5. levels0' = Cardinality(Levels0(levels')) + Uncounted'
      <4>1. levels0 = Cardinality(Levels0(levels)) + Uncounted
        BY DEF MapInv, CountsInv
      <4> QED  BY <2>1, <3>3, <3>4, <4>1
    <3> QED  BY <3>2, <3>5 DEF MapInv, CountsInv
  <2> QED  BY <2>12, <2>13, <2>14 DEF MapInv
<1> QED  BY <1>1, <1>2

-----------------------------------------------------------------------------
(* Dumps                                                                   *)

(* A level that has no file yet is in no block that is merged.             *)
LEMMA MergingBeside ==
    ASSUME NEW list, NEW two, NEW last, LevelList(list, last), DOMAIN two = DOMAIN list,
           \A j \in DOMAIN list : Id(two[j]) = Id(list[j]),
           \A j \in DOMAIN list : list[j].stored = "file" => two[j] = list[j],
           NEW m, NEW a, NEW b, NEW time, Merging(list, m, a, b, last, time)
    PROVE  Merging(two, m, a, b, last, time)
<1>1. \A i \in a..b : i \in DOMAIN list /\ two[i] = list[i]
  <2>1. DOMAIN list = 1..Len(list) /\ Len(list) \in Nat
    BY ListProperties DEF LevelList
  <2>2. a \in 1..Len(list) /\ b \in 1..Len(list) /\ \A i \in a..b : list[i].stored = "file"
    BY <2>1 DEF Merging
  <2>3. \A i \in a..b : i \in DOMAIN list
    BY <2>1, <2>2
  <2> QED  BY <2>2, <2>3
<1>2. \A i \in DOMAIN list : two[i].index = list[i].index /\ two[i].sub_index = list[i].sub_index
  BY DEF Id
<1>3. a \in DOMAIN list /\ b \in DOMAIN list /\ a < b
  BY DEF Merging
<1>4. HasPlace(two, a, b, m.result)
  <2>1. HasPlace(list, a, b, m.result)
    BY DEF Merging
  <2>2. \A i \in DOMAIN list : /\ Before(two[i], m.result) <=> Before(list[i], m.result)
                               /\ Before(m.result, two[i]) <=> Before(m.result, list[i])
    BY <1>2 DEF Before
  <2>3. Id(two[a]) = Id(list[a]) /\ two[a].index = list[a].index
    BY <1>2, <1>3
  <2> QED  BY <2>1, <2>2, <2>3 DEF HasPlace
<1>5. m.picked = {Id(two[i]) : i \in a..b}
  <2>1. {Id(two[i]) : i \in a..b} = {Id(list[i]) : i \in a..b}
    BY <1>1
  <2> QED  BY <2>1 DEF Merging
<1>6. MergedFrom(two, a, b, m.result.profiles, time)
  <2> DEFINE p == m.result.profiles
  <2>1. MergedFrom(list, a, b, p, time)
    BY DEF Merging
  <2> HIDE DEF p
  <2>2. ASSUME NEW k
        PROVE  k \in DOMAIN p <=> \E j \in a..b : k \in DOMAIN two[j].profiles
    <3>1. k \in DOMAIN p <=> \E j \in a..b : k \in DOMAIN list[j].profiles
      BY <2>1 DEF MergedFrom
    <3> QED  BY <1>1, <3>1
  <2>3. ASSUME NEW k, NEW n \in a..b, k \in DOMAIN two[n].profiles,
               \A i \in a..(n - 1) : k \notin DOMAIN two[i].profiles
        PROVE  Expires(two[n].profiles[k], p[k], time)
    <3>1. \A i \in a..(n - 1) : i \in a..b
      <4>1. a \in Int /\ b \in Int
        BY <1>3, ListProperties DEF LevelList
      <4> QED  BY <4>1
    <3>2. \A i \in a..(n - 1) : k \notin DOMAIN list[i].profiles
      BY <1>1, <2>3, <3>1
    <3>3. two[n] = list[n]
      BY <1>1
    <3> QED  BY <2>1, <2>3, <3>2, <3>3 DEF MergedFrom
  <2> QED  BY <2>2, <2>3 DEF MergedFrom, p
<1>7. \A i \in a..b : two[i].stored = "file"
  BY <1>1 DEF Merging
<1> QED  BY <1>3, <1>4, <1>5, <1>6, <1>7 DEF Merging

LEMMA DumpedLevelIs ==
    ASSUME MapInv, NEW task \in dumps, Pending(task)
    PROVE  LET i == DumpedLevel(task)
           IN  /\ i \in DOMAIN levels /\ OfLevel(task, levels[i])
               /\ levels[i].stored = IF task.step = "write" THEN "memory" ELSE "written"
               /\ \A j \in DOMAIN levels : OfLevel(task, levels[j]) => j = i
<1> DEFINE i == DumpedLevel(task)
<1>1. PICK n \in DOMAIN levels :
          /\ OfLevel(task, levels[n])
          /\ levels[n].stored = IF task.step = "write" THEN "memory" ELSE "written"
  BY DEF MapInv, DumpsInv
<1>2. i \in DOMAIN levels /\ OfLevel(task, levels[i])
  BY <1>1 DEF DumpedLevel, OfLevel
<1> HIDE DEF i
<1>3. \A j \in DOMAIN levels : OfLevel(task, levels[j]) => j = i
  <2> SUFFICES ASSUME NEW j \in DOMAIN levels, OfLevel(task, levels[j]) PROVE j = i
    OBVIOUS
  <2>1. Id(levels[j]) = Id(levels[i])
    BY <1>2 DEF OfLevel, Id
  <2> QED  BY <1>2, <2>1, IdsDiffer DEF MapInv, LevelsInv
<1>4. n = i
  BY <1>1, <1>3
<1> QED  BY <1>1, <1>2, <1>3, <1>4 DEF i

(* A task that writes its level or swaps it for the files.                 *)
LEMMA MoveKeepsMap ==
    ASSUME MapInv, NEW task \in dumps, Pending(task),
           NEW level, FitsLevel(level, written), Id(level) = Id(levels[DumpedLevel(task)]),
           levels' = [levels EXCEPT ![DumpedLevel(task)] = level],
           NEW moved, IsTask(moved), moved.step \in {"swap", "count"},
           moved.area = task.area, moved.upto = task.upto, moved.sub_index = task.sub_index,
           level.stored = IF moved.step = "swap" THEN "written" ELSE "file",
           dumps' = (dumps \ {task}) \cup {moved},
           UNCHANGED <<rw, merge, undumped, levels0, status, written, old>>
    PROVE  MapInv'
<1> DEFINE i == DumpedLevel(task)
<1>1. /\ i \in DOMAIN levels /\ OfLevel(task, levels[i])
      /\ levels[i].stored # "file"
      /\ \A j \in DOMAIN levels : OfLevel(task, levels[j]) => j = i
  BY DumpedLevelIs DEF Pending
<1>2. /\ Id(level) = Id(levels[i]) /\ levels' = [levels EXCEPT ![i] = level]
  OBVIOUS
<1> HIDE DEF i
<1>3. /\ written \in Nat /\ old \in Nat /\ LevelList(levels, written)
      /\ IsFiniteSet(dumps) /\ \A t \in dumps : t.area \in Nat
  BY DEF MapInv, LevelsInv, DumpsInv
<1>4. /\ DOMAIN levels' = DOMAIN levels /\ levels'[i] = level
      /\ \A j \in DOMAIN levels : j # i => levels'[j] = levels[j]
  BY <1>1, <1>2
<1>5. \A j \in DOMAIN levels : Id(levels'[j]) = Id(levels[j])
  BY <1>2, <1>4
<1>6. \A j \in DOMAIN levels : /\ levels'[j].index = levels[j].index
                               /\ levels'[j].sub_index = levels[j].sub_index
  BY <1>5 DEF Id
<1>7. \A j \in DOMAIN levels : \A t : OfLevel(t, levels'[j]) <=> OfLevel(t, levels[j])
  BY <1>6 DEF OfLevel
<1>8. LevelsInv'
  <2>1. IsList(levels')
    BY <1>2, <1>3, ReplacedIsList DEF LevelList, FitsLevel
  <2>2. \A j \in DOMAIN levels : FitsLevel(levels'[j], written)
    BY <1>3, <1>4 DEF LevelList
  <2>3. LevelList(levels', written)
    BY <1>3, <1>4, <1>5, <2>1, <2>2, ChangedList
  <2>4. MergeIsOfBlock'
    <3> SUFFICES ASSUME merge.step = "swap"
                 PROVE  \E a, b \in DOMAIN levels' : Merging(levels', merge, a, b, written, old)
      BY DEF MergeIsOfBlock
    <3>1. PICK a, b \in DOMAIN levels : Merging(levels, merge, a, b, written, old)
      BY DEF MapInv, LevelsInv, MergeIsOfBlock
    <3>2. \A j \in DOMAIN levels : levels[j].stored = "file" => levels'[j] = levels[j]
      BY <1>1, <1>4
    <3>3. Merging(levels', merge, a, b, written, old)
      BY <1>3, <1>4, <1>5, <3>1, <3>2, MergingBeside
    <3> QED  BY <1>4, <3>1, <3>3
  <2>5. ~Down /\ ~Down'
    BY DEF MapInv, LevelsInv, Down
  <2> QED  BY <1>3, <2>3, <2>4, <2>5 DEF MapInv, LevelsInv
<1>9. \A t \in dumps \ {task} : t.upto # moved.upto
  BY DEF MapInv, DumpsInv
<1>10. moved \notin dumps \ {task}
  BY <1>9
<1>11. moved.area \in Nat \ {0} /\ moved.upto \in 1..written
  BY DEF MapInv, DumpsInv
<1>12. DumpsInv'
  <2>1. IsFiniteSet(dumps')
    BY <1>3, <1>10, <1>11, UndumpedMove
  <2>2. \A t \in dumps' : /\ IsTask(t) /\ t.step \in {"write", "swap", "count", "enqueue"}
                          /\ t.area \in Nat \ {0} /\ t.upto \in 1..written'
    BY <1>11 DEF MapInv, DumpsInv
  <2>3. \A s, t \in dumps' : s.upto = t.upto => s = t
    <3>1. \A s, t \in dumps : s.upto = t.upto => s = t
      BY DEF MapInv, DumpsInv
    <3> QED  BY <1>9, <3>1
  <2>4. \A t \in dumps' : \A k \in DOMAIN rw' : t.upto < rw'[k].ver
    <3>1. \A t \in dumps : \A k \in DOMAIN rw : t.upto < rw[k].ver
      BY DEF MapInv, DumpsInv
    <3> QED  BY <3>1
  <2>5. ASSUME NEW t \in dumps', Pending(t)
        PROVE  \E j \in DOMAIN levels' :
                   /\ OfLevel(t, levels'[j])
                   /\ levels'[j].stored = IF t.step = "write" THEN "memory" ELSE "written"
    <3>1. CASE t = moved
      <4>1. OfLevel(t, levels'[i])
        BY <1>1, <1>7, <3>1 DEF OfLevel
      <4>2. levels'[i].stored = IF t.step = "write" THEN "memory" ELSE "written"
        BY <1>4, <2>5, <3>1 DEF Pending
      <4> QED  BY <1>1, <1>4, <4>1, <4>2
    <3>2. CASE t \in dumps \ {task}
      <4>1. PICK j \in DOMAIN levels :
                /\ OfLevel(t, levels[j])
                /\ levels[j].stored = IF t.step = "write" THEN "memory" ELSE "written"
        BY <2>5, <3>2 DEF MapInv, DumpsInv
      <4>2. j # i
        <5>1. t.sub_index # task.sub_index
          BY <2>5, <3>2 DEF MapInv, DumpsInv
        <5> QED  BY <1>1, <4>1, <5>1 DEF OfLevel
      <4>3. OfLevel(t, levels'[j]) /\ levels'[j] = levels[j]
        BY <1>4, <4>1, <4>2
      <4> QED  BY <1>4, <4>1, <4>3
    <3> QED  BY <3>1, <3>2
  <2>6. ASSUME NEW j \in DOMAIN levels', levels'[j].stored # "file"
        PROVE  \E t \in dumps' : Pending(t) /\ OfLevel(t, levels'[j])
    <3>1. CASE j = i
      <4>1. Pending(moved)
        BY <1>4, <2>6, <3>1 DEF Pending
      <4>2. OfLevel(moved, levels'[j])
        BY <1>1, <1>7, <3>1 DEF OfLevel
      <4> QED  BY <4>1, <4>2
    <3>2. CASE j # i
      <4>1. j \in DOMAIN levels /\ levels'[j] = levels[j]
        BY <1>4, <3>2
      <4>2. PICK t \in dumps : Pending(t) /\ OfLevel(t, levels[j])
        BY <2>6, <4>1 DEF MapInv, DumpsInv
      <4>3. t # task
        BY <1>1, <3>2, <4>1, <4>2
      <4> QED  BY <4>1, <4>2, <4>3
    <3> QED  BY <3>1, <3>2
  <2>7. \A s, t \in dumps' : Pending(s) /\ Pending(t) /\ s.sub_index = t.sub_index => s = t
    <3>1. \A s, t \in dumps : Pending(s) /\ Pending(t) /\ s.sub_index = t.sub_index => s = t
      BY DEF MapInv, DumpsInv
    <3> QED  BY <3>1
  <2> QED  BY <2>1, <2>2, <2>3, <2>4, <2>5, <2>6, <2>7 DEF DumpsInv
<1>13. CountsInv'
  <2>1. ~Down
    BY DEF MapInv, LevelsInv
  <2>2. Undumped(dumps') = Undumped(dumps)
    <3>1. Undumped(dumps) \in Nat
          /\ Undumped(dumps') = Undumped(dumps) - UndumpedBy(task) + UndumpedBy(moved)
      BY <1>3, <1>10, <1>11, UndumpedMove
    <3>2. UndumpedBy(task) = moved.area /\ UndumpedBy(moved) = moved.area
      BY DEF UndumpedBy, Pending
    <3> QED  BY <1>11, <3>1, <3>2
  <2>3. Levels0(levels') = Levels0(levels)
    BY <1>4, <1>6 DEF Levels0
  <2> QED  BY <2>1, <2>2, <2>3 DEF MapInv, CountsInv, Uncounted
<1> QED  BY <1>8, <1>12, <1>13 DEF MapInv

LEMMA RewrittenFile ==
    ASSUME NEW l, IsLevel(l), NEW s, NEW f
    PROVE  [l EXCEPT !.stored = s, !.file = f] =
               [index |-> l.index, sub_index |-> l.sub_index, profiles |-> l.profiles,
                stored |-> s, file |-> f]
<1> DEFINE x == l.index
           y == l.sub_index
           q == l.profiles
           t == l.stored
           g == l.file
           o == [index |-> x, sub_index |-> y, profiles |-> q, stored |-> t, file |-> g]
           u == [index |-> x, sub_index |-> y, profiles |-> q, stored |-> s, file |-> g]
<1>1. [l EXCEPT !.stored = s, !.file = f] = [[o EXCEPT !.stored = s] EXCEPT !.file = f]
  BY DEF IsLevel
<1> HIDE DEF x, y, q, t, g
<1>2. [o EXCEPT !.stored = s] = u
  OBVIOUS
<1>3. [u EXCEPT !.file = f]
      = [index |-> x, sub_index |-> y, profiles |-> q, stored |-> s, file |-> f]
  OBVIOUS
<1>4. [l EXCEPT !.stored = s, !.file = f]
      = [index |-> x, sub_index |-> y, profiles |-> q, stored |-> s, file |-> f]
  BY <1>1, <1>2, <1>3
<1> QED  BY <1>4 DEF x, y, q

(* What WriteLevel puts at the place of its level.                         *)
LEMMA WrittenIs ==
    ASSUME MapInv, NEW task \in dumps, WriteLevel(task)
    PROVE  LET i == DumpedLevel(task)
           IN  /\ i \in DOMAIN levels /\ levels[i].stored = "memory"
               /\ \E level : /\ levels' = [levels EXCEPT ![i] = level]
                             /\ FitsLevel(level, written) /\ Id(level) = Id(levels[i])
                             /\ level.stored = "written" /\ level.profiles = levels[i].profiles
                             /\ level.file = Unexpired(levels[i].profiles)
<1> DEFINE i == DumpedLevel(task)
           l == levels[i]
           f == Unexpired(l.profiles)
           level == [l EXCEPT !.stored = "written", !.file = f]
<1>1. levels' = [levels EXCEPT ![i].stored = "written", ![i].file = Unexpired(levels[i].profiles)]
      /\ task.step = "write"
  BY DEF WriteLevel
<1>2. i \in DOMAIN levels /\ l.stored = "memory"
  BY <1>1, DumpedLevelIs DEF Pending
<1>3. i = DumpedLevel(task)
  OBVIOUS
<1> HIDE DEF i
<1>4. levels' = [levels EXCEPT ![i] = level]
  BY <1>1, <1>2
<1>5. FitsLevel(l, written)
  BY <1>2 DEF MapInv, LevelsInv, LevelList
<1>6. IsProfiles(f, written) /\ IsLevel(l)
  BY <1>5, UnexpiredIs DEF FitsLevel
<1>7. level = [index |-> l.index, sub_index |-> l.sub_index, profiles |-> l.profiles,
               stored |-> "written", file |-> f]
  BY <1>6, RewrittenFile
<1> HIDE DEF level, l, f
<1>8. /\ level.index = l.index /\ level.sub_index = l.sub_index /\ level.profiles = l.profiles
      /\ level.stored = "written" /\ level.file = f /\ IsLevel(level)
  BY <1>7 DEF IsLevel
<1>9. FitsLevel(level, written) /\ Id(level) = Id(l)
  BY <1>5, <1>6, <1>8 DEF FitsLevel, Id
<1> QED  BY <1>2, <1>3, <1>4, <1>8, <1>9 DEF l, f

LEMMA WriteLevelKeepsMap ==
    ASSUME MapInv, NEW task \in dumps, WriteLevel(task)
    PROVE  MapInv'
<1> DEFINE moved == [task EXCEPT !.step = "swap"]
<1>1. /\ dumps' = (dumps \ {task}) \cup {moved} /\ task.step = "write"
      /\ UNCHANGED <<rw, merge, undumped, levels0, status, written, old>>
  BY DEF WriteLevel, DumpMove, counters
<1>2. Pending(task)
  BY <1>1 DEF Pending
<1>3. PICK level : /\ levels' = [levels EXCEPT ![DumpedLevel(task)] = level]
                   /\ FitsLevel(level, written) /\ Id(level) = Id(levels[DumpedLevel(task)])
                   /\ level.stored = "written"
  BY WrittenIs
<1>4. /\ IsTask(moved) /\ moved.step = "swap" /\ moved.area = task.area /\ moved.upto = task.upto
      /\ moved.sub_index = task.sub_index
  <2>1. IsTask(task)
    BY DEF MapInv, DumpsInv
  <2> QED  BY <2>1 DEF IsTask
<1> HIDE DEF moved
<1> QED  BY <1>1, <1>2, <1>3, <1>4, MoveKeepsMap

(* What SwapLevel puts there.                                              *)
LEMMA SwappedFileIs ==
    ASSUME MapInv, NEW task \in dumps, SwapLevel(task)
    PROVE  LET i == DumpedLevel(task)
           IN  /\ i \in DOMAIN levels /\ levels[i].stored = "written"
               /\ levels' = [levels EXCEPT ![i] = FileOf(levels[i])]
               /\ FitsLevel(FileOf(levels[i]), written) /\ Id(FileOf(levels[i])) = Id(levels[i])
               /\ FileOf(levels[i]).stored = "file"
<1> DEFINE i == DumpedLevel(task)
           level == [levels[i] EXCEPT !.stored = "file", !.profiles = levels[i].file,
                                      !.file = NoProfiles]
<1>1. levels' = [levels EXCEPT ![i].stored = "file", ![i].profiles = levels[i].file,
                               ![i].file = NoProfiles] /\ task.step = "swap"
  BY DEF SwapLevel
<1>2. i \in DOMAIN levels /\ levels[i].stored = "written"
  BY <1>1, DumpedLevelIs DEF Pending
<1>3. i = DumpedLevel(task)
  OBVIOUS
<1> HIDE DEF i
<1>4. levels' = [levels EXCEPT ![i] = level]
  BY <1>1, <1>2
<1>5. level = FileOf(levels[i])
  BY <1>2 DEF FileOf
<1> HIDE DEF level
<1>6. FitsLevel(levels[i], written)
  BY <1>2 DEF MapInv, LevelsInv, LevelList
<1>7. /\ FitsLevel(FileOf(levels[i]), written) /\ Id(FileOf(levels[i])) = Id(levels[i])
      /\ FileOf(levels[i]).stored = "file"
  BY <1>2, <1>6, FileOfLevel
<1> QED  BY <1>2, <1>3, <1>4, <1>5, <1>7

LEMMA SwapLevelKeepsMap ==
    ASSUME MapInv, NEW task \in dumps, SwapLevel(task)
    PROVE  MapInv'
<1> DEFINE check == MergeCheck(levels')
           moved == [task EXCEPT !.step = "count", !.merge = check]
           level == FileOf(levels[DumpedLevel(task)])
<1>1. /\ dumps' = (dumps \ {task}) \cup {moved} /\ task.step = "swap"
      /\ UNCHANGED <<rw, merge, undumped, levels0, status, written, old>>
  BY DEF SwapLevel, counters
<1>2. Pending(task)
  BY <1>1 DEF Pending
<1>3. /\ levels' = [levels EXCEPT ![DumpedLevel(task)] = level]
      /\ FitsLevel(level, written) /\ Id(level) = Id(levels[DumpedLevel(task)])
      /\ level.stored = "file"
  BY SwappedFileIs
<1>4. check \in BOOLEAN
  BY DEF MergeCheck
<1> HIDE DEF check, level
<1>5. /\ IsTask(moved) /\ moved.step = "count" /\ moved.area = task.area
       /\ moved.upto = task.upto /\ moved.sub_index = task.sub_index
  <2>1. IsTask(task)
    BY DEF MapInv, DumpsInv
  <2> DEFINE counting == [task EXCEPT !.step = "count"]
  <2>2. moved = [counting EXCEPT !.merge = check]
    OBVIOUS
  <2>3. /\ IsTask(counting) /\ counting.step = "count" /\ counting.area = task.area
        /\ counting.upto = task.upto /\ counting.sub_index = task.sub_index
    BY <2>1 DEF IsTask
  <2> HIDE DEF counting
  <2>4. LET n == [counting EXCEPT !.merge = check]
        IN  /\ IsTask(n) /\ n.step = counting.step /\ n.area = counting.area
            /\ n.upto = counting.upto /\ n.sub_index = counting.sub_index
    BY <1>4, <2>3 DEF IsTask
  <2> QED  BY <2>2, <2>3, <2>4
<1> HIDE DEF moved
<1> QED  BY <1>1, <1>2, <1>3, <1>5, MoveKeepsMap

(* A task that has no level to dump any more goes on, or is done.          *)
LEMMA DoneDumpKeeps ==
    ASSUME DumpsInv, NEW task \in dumps, ~Pending(task),
           NEW M, \A t \in M : /\ IsTask(t) /\ t.step = "enqueue" /\ t.area = task.area
                               /\ t.upto = task.upto,
           NEW moved, M \in SUBSET {moved},
           dumps' = (dumps \ {task}) \cup M, UNCHANGED <<rw, levels, written>>
    PROVE  DumpsInv'
<1>1. IsFiniteSet(dumps')
  <2>1. IsFiniteSet(dumps \ {task}) /\ IsFiniteSet({moved})
    BY FS_RemoveElement, FS_Singleton DEF DumpsInv
  <2>2. IsFiniteSet(M)
    BY <2>1, FS_Subset
  <2> QED  BY <2>1, <2>2, FS_Union
<1>2. \A t \in M : t.area \in Nat \ {0} /\ t.upto \in 1..written
  BY DEF DumpsInv
<1>3. \A t \in dumps' : /\ IsTask(t) /\ t.step \in {"write", "swap", "count", "enqueue"}
                        /\ t.area \in Nat \ {0} /\ t.upto \in 1..written'
  BY <1>2 DEF DumpsInv
<1>4. \A s, t \in dumps' : s.upto = t.upto => s = t
  <2>1. \A s \in M, t \in dumps \ {task} : s.upto # t.upto
    BY DEF DumpsInv
  <2>2. \A s, t \in M : s = t
    OBVIOUS
  <2>3. \A s, t \in dumps : s.upto = t.upto => s = t
    BY DEF DumpsInv
  <2> QED  BY <2>1, <2>2, <2>3
<1>5. \A t \in dumps' : \A k \in DOMAIN rw' : t.upto < rw'[k].ver
  <2>1. \A t \in dumps : \A k \in DOMAIN rw : t.upto < rw[k].ver
    BY DEF DumpsInv
  <2> QED  BY <2>1
<1>6. \A t \in dumps' : Pending(t) => t \in dumps
  BY DEF Pending
<1>7. \A t \in dumps' : Pending(t) =>
          \E i \in DOMAIN levels' :
              /\ OfLevel(t, levels'[i])
              /\ levels'[i].stored = IF t.step = "write" THEN "memory" ELSE "written"
  <2>1. \A t \in dumps : Pending(t) =>
            \E i \in DOMAIN levels :
                /\ OfLevel(t, levels[i])
                /\ levels[i].stored = IF t.step = "write" THEN "memory" ELSE "written"
    BY DEF DumpsInv
  <2> QED  BY <1>6, <2>1
<1>8. \A i \in DOMAIN levels' : levels'[i].stored # "file" =>
          \E t \in dumps' : Pending(t) /\ OfLevel(t, levels'[i])
  <2>1. \A i \in DOMAIN levels : levels[i].stored # "file" =>
            \E t \in dumps : Pending(t) /\ OfLevel(t, levels[i])
    BY DEF DumpsInv
  <2>2. \A t \in dumps : Pending(t) => t \in dumps'
    OBVIOUS
  <2> QED  BY <2>1, <2>2
<1>9. \A s, t \in dumps' : Pending(s) /\ Pending(t) /\ s.sub_index = t.sub_index => s = t
  BY <1>6 DEF DumpsInv
<1> QED  BY <1>1, <1>3, <1>4, <1>5, <1>7, <1>8, <1>9 DEF DumpsInv

LEMMA CountDumpedKeepsMap ==
    ASSUME MapInv, NEW task \in dumps, CountDumped(task)
    PROVE  MapInv'
<1> DEFINE moved == [task EXCEPT !.step = "enqueue"]
<1>1. /\ task.step = "count" /\ undumped' = undumped - task.area
      /\ dumps' = (dumps \ {task}) \cup {moved}
      /\ UNCHANGED <<rw, levels, merge, levels0, status, written, old>>
  BY DEF CountDumped, DumpMove, counters
<1>2. /\ IsFiniteSet(dumps) /\ \A t \in dumps : t.area \in Nat /\ IsTask(t)
      /\ \A s, t \in dumps : s.upto = t.upto => s = t
  BY DEF MapInv, DumpsInv
<1>3. /\ IsTask(moved) /\ moved.step = "enqueue" /\ moved.area = task.area
      /\ moved.upto = task.upto
  BY <1>2 DEF IsTask
<1> HIDE DEF moved
<1>4. DumpsInv'
  <2>1. ~Pending(task)
    BY <1>1 DEF Pending
  <2> DEFINE M == {moved}
  <2>2. /\ \A t \in M : /\ IsTask(t) /\ t.step = "enqueue" /\ t.area = task.area
                        /\ t.upto = task.upto
        /\ M \in SUBSET {moved} /\ dumps' = (dumps \ {task}) \cup M
    BY <1>1, <1>3
  <2> HIDE DEF M
  <2> QED  BY <1>1, <2>1, <2>2, DoneDumpKeeps DEF MapInv
<1>5. LevelsInv'
  <2>1. MergeIsOfBlock'
    BY <1>1 DEF MapInv, LevelsInv, MergeIsOfBlock
  <2>2. ~Down /\ ~Down'
    BY <1>1 DEF MapInv, LevelsInv, Down
  <2> QED  BY <1>1, <2>1, <2>2 DEF MapInv, LevelsInv
<1>6. CountsInv'
  <2>1. ~Down
    BY DEF MapInv, LevelsInv
  <2>2. moved \notin dumps \ {task}
    BY <1>2, <1>3
  <2>3. Undumped(dumps) \in Nat /\ Undumped(dumps') = Undumped(dumps) - task.area
    <3>1. Undumped(dumps) \in Nat
          /\ Undumped(dumps') = Undumped(dumps) - UndumpedBy(task) + UndumpedBy(moved)
      BY <1>1, <1>2, <1>3, <2>2, UndumpedMove
    <3>2. UndumpedBy(task) = task.area /\ UndumpedBy(moved) = 0
      BY <1>1, <1>3 DEF UndumpedBy
    <3> QED  BY <1>2, <3>1, <3>2
  <2>4. AreaSize(rw) \in Nat
    BY AreaIs DEF MapInv, LevelsInv
  <2>5. undumped' = AreaSize(rw) + Undumped(dumps')
    BY <1>1, <1>2, <2>1, <2>3, <2>4 DEF MapInv, CountsInv
  <2> QED  BY <1>1, <2>1, <2>5 DEF MapInv, CountsInv, Uncounted
<1> QED  BY <1>4, <1>5, <1>6 DEF MapInv

LEMMA EnqueueMergeKeepsMap ==
    ASSUME MapInv, NEW task \in dumps, EnqueueMerge(task)
    PROVE  MapInv'
<1>1. /\ task.step = "enqueue" /\ dumps' = dumps \ {task}
      /\ merge' = merge \/ (merge.step = "none" /\ merge'.step = "queued")
      /\ UNCHANGED <<rw, levels, undumped, levels0, status, written, old>>
  BY DEF EnqueueMerge, counters
<1>2. IsFiniteSet(dumps) /\ \A t \in dumps : t.area \in Nat
  BY DEF MapInv, DumpsInv
<1>3. ~Down /\ ~Down'
  BY <1>1 DEF MapInv, LevelsInv, Down
<1>4. DumpsInv'
  <2>1. ~Pending(task)
    BY <1>1 DEF Pending
  <2> DEFINE M == {}
  <2>2. /\ \A t \in M : /\ IsTask(t) /\ t.step = "enqueue" /\ t.area = task.area
                        /\ t.upto = task.upto
        /\ M \in SUBSET {task} /\ dumps' = (dumps \ {task}) \cup M
    BY <1>1
  <2> HIDE DEF M
  <2> QED  BY <1>1, <2>1, <2>2, DoneDumpKeeps DEF MapInv
<1>5. LevelsInv'
  <2>1. MergeIsOfBlock'
    <3>1. CASE merge' = merge
      BY <1>1, <3>1 DEF MapInv, LevelsInv, MergeIsOfBlock
    <3>2. CASE merge'.step = "queued"
      BY <3>2 DEF MergeIsOfBlock
    <3> QED  BY <1>1, <3>1, <3>2
  <2> QED  BY <1>1, <1>3, <2>1 DEF MapInv, LevelsInv
<1>6. CountsInv'
  <2>1. Undumped(dumps') = Undumped(dumps)
    <3>1. Undumped(dumps') \in Nat /\ Undumped(dumps) = Undumped(dumps') + UndumpedBy(task)
      BY <1>1, <1>2, UndumpedRemove
    <3> QED  BY <1>1, <3>1 DEF UndumpedBy
  <2>2. Uncounted' = Uncounted /\ (merge'.step = "count" => merge' = merge)
    BY <1>1 DEF Uncounted
  <2> QED  BY <1>1, <1>3, <2>1, <2>2 DEF MapInv, CountsInv
<1> QED  BY <1>4, <1>5, <1>6 DEF MapInv

-----------------------------------------------------------------------------
(* Merges                                                                  *)

LEMMA QuietMergeKeepsMap ==
    ASSUME MapInv, merge.step \notin {"count", "none"}, merge'.step \notin {"swap", "count"},
           UNCHANGED <<rw, levels, dumps, undumped, levels0, status, written, old>>
    PROVE  MapInv'
<1>1. ~Down /\ ~Down'
  BY DEF MapInv, LevelsInv, Down
<1>2. LevelsInv'
  BY <1>1 DEF MapInv, LevelsInv, MergeIsOfBlock
<1>3. DumpsInv'
  BY DEF MapInv, DumpsInv
<1>4. CountsInv'
  BY <1>1 DEF MapInv, CountsInv, Uncounted
<1> QED  BY <1>2, <1>3, <1>4 DEF MapInv

LEMMA CountMergedKeepsMap ==
    ASSUME MapInv, CountMerged
    PROVE  MapInv'
<1>1. /\ merge.step = "count" /\ levels0' = levels0 + merge.came - merge.gone
      /\ merge'.step = "recheck"
      /\ UNCHANGED <<rw, levels, dumps, undumped, status, written, old>>
  BY DEF CountMerged, counters
<1>2. ~Down /\ ~Down'
  BY <1>1 DEF MapInv, LevelsInv, Down
<1>3. LevelsInv'
  BY <1>1, <1>2 DEF MapInv, LevelsInv, MergeIsOfBlock
<1>4. DumpsInv'
  BY <1>1 DEF MapInv, DumpsInv
<1>5. CountsInv'
  <2>1. Cardinality(Levels0(levels)) \in Nat
    <3>1. Len(levels) \in Nat /\ LevelList(levels, written)
      BY ListProperties DEF MapInv, LevelsInv, LevelList
    <3>2. Cardinality(Levels0(levels)) \in 0..Len(levels)
      BY <3>1, Levels0Are
    <3> QED  BY <3>1, <3>2
  <2>2. /\ merge.gone \in Nat /\ merge.came \in Nat
        /\ levels0 = Cardinality(Levels0(levels)) + (merge.gone - merge.came)
    BY <1>1, <1>2 DEF MapInv, CountsInv, Uncounted
  <2>3. levels0' = Cardinality(Levels0(levels))
    BY <1>1, <2>1, <2>2
  <2>4. Uncounted' = 0 /\ levels0' = Cardinality(Levels0(levels)) + 0
    BY <1>1, <2>1, <2>3 DEF Uncounted
  <2> QED  BY <1>1, <1>2, <2>4 DEF MapInv, CountsInv
<1> QED  BY <1>3, <1>4, <1>5 DEF MapInv

LEMMA BeginMergeKeepsMap ==
    ASSUME MapInv, BeginMerge
    PROVE  MapInv'
<1> DEFINE picked == Picked(levels)
<1>1. /\ merge.step = "queued"
      /\ UNCHANGED <<rw, levels, dumps, undumped, levels0, status, written, old>>
  BY DEF BeginMerge, counters
<1>2. CASE Len(picked) > 1
  <2>1. merge' = [step |-> "swap",
                  picked |-> {<<picked[i].index, picked[i].sub_index>> : i \in DOMAIN picked},
                  result |-> MergedLevel(picked)]
    BY <1>2 DEF BeginMerge
  <2>2. LevelList(levels, written)
    BY DEF MapInv, LevelsInv
  <2>3. PICK a, b \in DOMAIN levels : Block(levels, a, b) /\ picked = SubSeq(levels, a, b)
    BY <1>2, <2>2, PickedIs
  <2> HIDE DEF picked
  <2> DEFINE level == MergedLevel(picked)
             ids == {Id(picked[i]) : i \in DOMAIN picked}
  <2>4. /\ FitsLevel(level, written) /\ level.stored = "file"
        /\ HasPlace(levels, a, b, level)
        /\ MergedFrom(levels, a, b, level.profiles, old)
    BY <2>2, <2>3, MergedLevelIs
  <2>5. merge'.step = "swap" /\ merge'.picked = ids /\ merge'.result = level
    BY <2>1 DEF Id
  <2>6. a < b /\ \A i \in a..b : levels[i].stored = "file"
    BY <2>3 DEF Block, Dumped
  <2>7. /\ a \in Int /\ b \in Int /\ DOMAIN picked = 1..(b - a + 1)
        /\ \A j \in 1..(b - a + 1) : picked[j] = levels[a + j - 1]
    <3>1. Len(levels) \in Nat /\ DOMAIN levels = 1..Len(levels)
      BY <2>2, ListProperties DEF LevelList
    <3>2. a \in Int /\ b \in Int /\ \A i \in a..b : levels[i] \in Range(levels)
      <4>1. \A i \in a..b : i \in DOMAIN levels
        BY <3>1
      <4> QED  BY <2>2, <3>1, <4>1, ListProperties DEF LevelList
    <3>3. /\ picked \in Seq(Range(levels)) /\ Len(picked) = b - a + 1
          /\ \A j \in 1..(b - a + 1) : picked[j] = levels[a + j - 1]
      <4>1. (IF a <= b THEN b - a + 1 ELSE 0) = b - a + 1
        BY <2>6, <3>2
      <4> QED  BY <2>3, <3>2, <4>1, SubSeqProperties
    <3> QED  BY <3>2, <3>3, LenProperties
  <2>8. ids = {Id(levels[i]) : i \in a..b}
    <3>1. \A j \in 1..(b - a + 1) : a + j - 1 \in a..b
      BY <2>7
    <3>2. \A i \in a..b : i - a + 1 \in 1..(b - a + 1) /\ a + (i - a + 1) - 1 = i
      BY <2>7
    <3>3. \A i \in a..b : picked[i - a + 1] = levels[i]
      BY <2>7, <3>2
    <3> QED  BY <2>7, <3>1, <3>2, <3>3
  <2>9. Merging(levels, merge', a, b, written, old)
    BY <2>4, <2>5, <2>6, <2>8 DEF Merging
  <2>10. ~Down /\ ~Down'
    BY <1>1 DEF MapInv, LevelsInv, Down
  <2>11. LevelsInv'
    BY <1>1, <2>9, <2>10 DEF MapInv, LevelsInv, MergeIsOfBlock
  <2>12. DumpsInv'
    BY <1>1 DEF MapInv, DumpsInv
  <2>13. CountsInv'
    BY <1>1, <2>5, <2>10 DEF MapInv, CountsInv, Uncounted
  <2> QED  BY <2>11, <2>12, <2>13 DEF MapInv
<1>3. CASE ~(Len(picked) > 1)
  <2>1. merge' = [step |-> "recheck"]
    BY <1>3 DEF BeginMerge
  <2>2. merge'.step = "recheck"
    BY <2>1
  <2> QED  BY <1>1, <2>2, QuietMergeKeepsMap
<1> QED  BY <1>2, <1>3

(* The block a..b of a list of n levels is replaced by one level, at a.    *)
Replaced(list, n, a, b, level, two) ==
    /\ n \in Nat /\ a \in 1..n /\ b \in a..n
    /\ DOMAIN list = 1..n /\ DOMAIN two = 1..(n - (b - a))
    /\ \A i \in 1..(a - 1) : two[i] = list[i]
    /\ two[a] = level
    /\ \A i \in (a + 1)..(n - (b - a)) : two[i] = list[i + (b - a)]

(* Where the levels around the block have gone.                            *)
LEMMA ReplacedPlaces ==
    ASSUME NEW list, NEW n, NEW a, NEW b, NEW level, NEW two, Replaced(list, n, a, b, level, two)
    PROVE  /\ \A i \in DOMAIN list : i \notin a..b =>
                  \E j \in DOMAIN two : j # a /\ two[j] = list[i]
           /\ \A j \in DOMAIN two : j # a =>
                  \E i \in DOMAIN list : i \notin a..b /\ two[j] = list[i]
           /\ a \in DOMAIN two
<1>1. n \in Int /\ a \in Int /\ b \in Int /\ 1 <= a /\ a <= b /\ b <= n
  BY DEF Replaced
<1> DEFINE d == b - a
<1>2. d \in Int /\ d = b - a
  BY <1>1
<1> HIDE DEF d
<1>3. /\ DOMAIN list = 1..n /\ DOMAIN two = 1..(n - d)
      /\ \A i \in 1..(a - 1) : two[i] = list[i]
      /\ \A i \in (a + 1)..(n - d) : two[i] = list[i + d]
  BY DEF Replaced, d
<1>4. ASSUME NEW i \in DOMAIN list, i \notin a..b
      PROVE  \E j \in DOMAIN two : j # a /\ two[j] = list[i]
  <2>1. i \in Int /\ 1 <= i /\ i <= n
    BY <1>3
  <2>2. CASE i < a
    <3>1. i \in 1..(a - 1) /\ i \in 1..(n - d)
      BY <1>1, <1>2, <2>1, <2>2
    <3>2. i # a
      BY <1>1, <2>1, <2>2
    <3> QED  BY <1>3, <3>1, <3>2
  <2>3. CASE i > b
    <3> DEFINE j == i - d
    <3>1. j \in (a + 1)..(n - d) /\ j \in 1..(n - d) /\ j + d = i /\ j # a
      BY <1>1, <1>2, <2>1, <2>3
    <3> HIDE DEF j
    <3>2. two[j] = list[i]
      BY <1>3, <3>1
    <3> QED  BY <1>3, <3>1, <3>2
  <2> QED  BY <1>1, <1>4, <2>1, <2>2, <2>3
<1>5. ASSUME NEW j \in DOMAIN two, j # a
      PROVE  \E i \in DOMAIN list : i \notin a..b /\ two[j] = list[i]
  <2>1. j \in Int /\ 1 <= j /\ j <= n - d
    BY <1>1, <1>2, <1>3
  <2>2. CASE j < a
    <3>1. j \in 1..(a - 1) /\ j \in 1..n /\ j \notin a..b
      BY <1>1, <1>2, <2>1, <2>2
    <3> QED  BY <1>3, <3>1
  <2>3. CASE j > a
    <3>1. j \in (a + 1)..(n - d) /\ j + d \in 1..n /\ j + d \notin a..b
      BY <1>1, <1>2, <2>1, <2>3
    <3> QED  BY <1>3, <3>1
  <2> QED  BY <1>1, <1>5, <2>1, <2>2, <2>3
<1>6. a \in DOMAIN two
  BY <1>1, <1>2, <1>3
<1> QED  BY <1>4, <1>5, <1>6

(* The levels 0 there are after it, and those that are gone.               *)
LEMMA ReplacedLevels0 ==
    ASSUME NEW list, NEW n, NEW a, NEW b, NEW level, NEW two, Replaced(list, n, a, b, level, two),
           NEW z \in 0..n, Levels0(list) = 1..z,
           z < a => level.index # 0, z > b => level.index = 0
    PROVE  LET came == IF level.index = 0 THEN 1 ELSE 0
               gone == IF z < a THEN 0 ELSE IF z <= b THEN z - a + 1 ELSE b - a + 1
           IN  Cardinality(Levels0(two)) = z - gone + came
<1>1. n \in Int /\ a \in Int /\ b \in Int /\ 1 <= a /\ a <= b /\ b <= n /\ z \in Int /\ 0 <= z
  BY DEF Replaced
<1> DEFINE d == b - a
           came == IF level.index = 0 THEN 1 ELSE 0
           gone == IF z < a THEN 0 ELSE IF z <= b THEN z - a + 1 ELSE b - a + 1
           y == z - gone + came
<1>2. d \in Int /\ d = b - a
  BY <1>1
<1> HIDE DEF d
<1>3. /\ DOMAIN list = 1..n /\ DOMAIN two = 1..(n - d) /\ two[a] = level
      /\ \A i \in 1..(a - 1) : two[i] = list[i]
      /\ \A i \in (a + 1)..(n - d) : two[i] = list[i + d]
  BY DEF Replaced, d
<1>4. \A i \in 1..n : list[i].index = 0 <=> i <= z
  <2>1. \A i \in 1..n : list[i].index = 0 <=> i \in 1..z
    BY <1>3 DEF Levels0
  <2> QED  BY <1>1, <2>1
<1>5. \A i \in 1..(a - 1) : two[i].index = 0 <=> i <= z
  <2>1. \A i \in 1..(a - 1) : i \in 1..n
    BY <1>1
  <2> QED  BY <1>3, <1>4, <2>1
<1>6. \A i \in (a + 1)..(n - d) : two[i].index = 0 <=> i + d <= z
  <2>1. \A i \in (a + 1)..(n - d) : i + d \in 1..n
    BY <1>1, <1>2
  <2> QED  BY <1>3, <1>4, <2>1
<1>7. y \in Nat /\ y <= n - d /\ \A i \in 1..(n - d) : two[i].index = 0 <=> i <= y
  <2> SUFFICES /\ y \in Nat /\ y <= n - d
               /\ \A i \in 1..(n - d) : (i < a => (i <= z <=> i <= y))
                                        /\ (i = a => (came = 1 <=> i <= y))
                                        /\ (i > a => (i + d <= z <=> i <= y))
    <3>1. ASSUME NEW i \in 1..(n - d) PROVE i < a \/ i = a \/ i > a
      BY <1>1, <1>2
    <3>2. ASSUME NEW i \in 1..(n - d) PROVE i < a => i \in 1..(a - 1)
      BY <1>1, <1>2
    <3>3. ASSUME NEW i \in 1..(n - d) PROVE i > a => i \in (a + 1)..(n - d)
      BY <1>1, <1>2
    <3>4. came = 1 <=> two[a].index = 0
      BY <1>3
    <3> QED  BY <1>5, <1>6, <3>1, <3>2, <3>3, <3>4
  <2>1. came \in {0, 1} /\ (z < a => came = 0) /\ (z > b => came = 1)
    OBVIOUS
  <2>2. /\ z < a => gone = 0
        /\ z >= a /\ z <= b => gone = z - a + 1
        /\ z > b => gone = b - a + 1
    BY <1>1
  <2>3. y = z - gone + came
    OBVIOUS
  <2> HIDE DEF came, gone, y
  <2>4. CASE z < a
    <3>1. y = z
      BY <1>1, <2>1, <2>2, <2>3, <2>4
    <3> QED  BY <1>1, <1>2, <2>1, <2>4, <3>1
  <2>5. CASE z >= a /\ z <= b
    <3>1. y = a - 1 + came
      BY <1>1, <2>1, <2>2, <2>3, <2>5
    <3> QED  BY <1>1, <1>2, <2>1, <2>5, <3>1
  <2>6. CASE z > b
    <3>1. y = z - d
      BY <1>1, <1>2, <2>1, <2>2, <2>3, <2>6
    <3>2. z <= n
      OBVIOUS
    <3> QED  BY <1>1, <1>2, <2>1, <2>6, <3>1, <3>2
  <2> QED  BY <1>1, <2>4, <2>5, <2>6
<1> HIDE DEF y
<1>8. Levels0(two) = 1..y
  <2>1. \A i : i \in 1..(n - d) /\ i <= y <=> i \in 1..y
    BY <1>1, <1>2, <1>7
  <2>2. Levels0(two) = {i \in 1..(n - d) : i <= y}
    BY <1>3, <1>7 DEF Levels0
  <2> QED  BY <2>1, <2>2
<1>9. Cardinality(Levels0(two)) = y
  BY <1>7, <1>8, PrefixSize
<1> QED  BY <1>9 DEF y

LEMMA SwappedIs ==
    ASSUME NEW list, NEW last, LevelList(list, last), NEW a \in DOMAIN list, NEW b \in DOMAIN list,
           a <= b, NEW level, FitsLevel(level, last), HasPlace(list, a, b, level)
    PROVE  /\ LevelList(Swapped(list, a, b, level), last)
           /\ Replaced(list, Len(list), a, b, level, Swapped(list, a, b, level))
<1> DEFINE n == Len(list)
           two == Swapped(list, a, b, level)
<1>1. /\ LevelList(two, last)
      /\ DOMAIN two = 1..(n - (b - a))
      /\ \A i \in 1..(a - 1) : two[i] = list[i]
      /\ two[a] = level
      /\ \A i \in (a + 1)..(n - (b - a)) : two[i] = list[i + (b - a)]
  BY MergedList
<1>2. n \in Nat /\ DOMAIN list = 1..n /\ a \in 1..n /\ b \in a..n
  <2>1. n \in Nat /\ DOMAIN list = 1..n
    BY ListProperties DEF LevelList
  <2> QED  BY <2>1
<1> HIDE DEF n, two
<1>3. Replaced(list, n, a, b, level, two)
  BY <1>1, <1>2 DEF Replaced
<1> QED  BY <1>1, <1>3 DEF n, two

(* What SwapMerged does to the list.                                       *)
LEMMA SwapMergedIs ==
    ASSUME MapInv, SwapMerged
    PROVE  \E a, b \in DOMAIN levels :
              /\ Merging(levels, merge, a, b, written, old)
              /\ LevelList(levels', written)
              /\ Replaced(levels, Len(levels), a, b, merge.result, levels')
<1>1. /\ merge.step = "swap"
      /\ levels' = Insert(Kept(levels, {i \in DOMAIN levels :
                       <<levels[i].index, levels[i].sub_index>> \notin merge.picked}), merge.result)
  BY DEF SwapMerged
<1>2. LevelList(levels, written)
  BY DEF MapInv, LevelsInv
<1>3. PICK a, b \in DOMAIN levels : Merging(levels, merge, a, b, written, old)
  BY <1>1 DEF MapInv, LevelsInv, MergeIsOfBlock
<1>4. /\ a < b /\ merge.picked = {Id(levels[i]) : i \in a..b}
      /\ FitsLevel(merge.result, written) /\ HasPlace(levels, a, b, merge.result)
  BY <1>3 DEF Merging
<1>5. a <= b
  BY <1>2, <1>4, ListProperties DEF LevelList
<1>6. levels' = Swapped(levels, a, b, merge.result)
  BY <1>1, <1>4 DEF Id, Swapped
<1>7. LevelList(levels', written) /\ Replaced(levels, Len(levels), a, b, merge.result, levels')
  BY <1>2, <1>4, <1>5, <1>6, SwappedIs
<1> QED  BY <1>3, <1>7

LEMMA SwapMergedKeepsMap ==
    ASSUME MapInv, SwapMerged
    PROVE  MapInv'
<1>1. /\ merge.step = "swap"
      /\ merge' = [step |-> "count",
                   gone |-> Cardinality({p \in merge.picked : p[1] = 0}),
                   came |-> IF merge.result.index = 0 THEN 1 ELSE 0]
      /\ UNCHANGED <<rw, dumps, undumped, levels0, status, written, old>>
  BY DEF SwapMerged
<1>2. LevelList(levels, written) /\ ~Down /\ ~Down'
  BY <1>1 DEF MapInv, LevelsInv, Down
<1>3. PICK a, b \in DOMAIN levels :
          /\ Merging(levels, merge, a, b, written, old)
          /\ LevelList(levels', written)
          /\ Replaced(levels, Len(levels), a, b, merge.result, levels')
  BY SwapMergedIs
<1>4. /\ a < b /\ \A i \in a..b : levels[i].stored = "file"
      /\ merge.picked = {Id(levels[i]) : i \in a..b}
      /\ FitsLevel(merge.result, written) /\ merge.result.stored = "file"
      /\ HasPlace(levels, a, b, merge.result)
  BY <1>3 DEF Merging
<1> DEFINE n == Len(levels)
           level == merge.result
<1>5. n \in Nat /\ DOMAIN levels = 1..n /\ a \in 1..n /\ b \in a..n /\ a \in Int /\ b \in Int
  <2>1. n \in Nat /\ DOMAIN levels = 1..n
    BY <1>2, ListProperties DEF LevelList
  <2> QED  BY <1>4, <2>1
<1>6. LevelList(levels', written) /\ Replaced(levels, n, a, b, level, levels')
  BY <1>3
<1> HIDE DEF n, level
<1>7. /\ \A i \in DOMAIN levels : i \notin a..b => \E j \in DOMAIN levels' : levels'[j] = levels[i]
      /\ \A j \in DOMAIN levels' : j # a =>
             \E i \in DOMAIN levels : i \notin a..b /\ levels'[j] = levels[i]
      /\ a \in DOMAIN levels' /\ levels'[a].stored = "file"
  <2>1. levels'[a] = level
    BY <1>6 DEF Replaced
  <2>2. /\ \A i \in DOMAIN levels : i \notin a..b =>
               \E j \in DOMAIN levels' : j # a /\ levels'[j] = levels[i]
        /\ \A j \in DOMAIN levels' : j # a =>
               \E i \in DOMAIN levels : i \notin a..b /\ levels'[j] = levels[i]
        /\ a \in DOMAIN levels'
    BY <1>6, ReplacedPlaces
  <2> QED  BY <1>4, <2>1, <2>2 DEF level
<1>8. merge'.step = "count"
  BY <1>1
<1>9. LevelsInv'
  BY <1>1, <1>2, <1>6, <1>8 DEF MapInv, LevelsInv, MergeIsOfBlock
<1>10. DumpsInv'
  <2>1. ASSUME NEW t \in dumps', Pending(t)
        PROVE  \E j \in DOMAIN levels' :
                   /\ OfLevel(t, levels'[j])
                   /\ levels'[j].stored = IF t.step = "write" THEN "memory" ELSE "written"
    <3>1. PICK i \in DOMAIN levels :
              /\ OfLevel(t, levels[i])
              /\ levels[i].stored = IF t.step = "write" THEN "memory" ELSE "written"
      BY <1>1, <2>1 DEF MapInv, DumpsInv
    <3>2. i \notin a..b
      BY <1>4, <3>1
    <3> QED  BY <1>7, <3>1, <3>2
  <2>2. ASSUME NEW j \in DOMAIN levels', levels'[j].stored # "file"
        PROVE  \E t \in dumps' : Pending(t) /\ OfLevel(t, levels'[j])
    <3>1. PICK i \in DOMAIN levels : levels'[j] = levels[i]
      BY <1>7, <2>2
    <3>2. \E t \in dumps : Pending(t) /\ OfLevel(t, levels[i])
      BY <2>2, <3>1 DEF MapInv, DumpsInv
    <3> QED  BY <1>1, <3>1, <3>2
  <2> QED  BY <1>1, <2>1, <2>2 DEF MapInv, DumpsInv
<1>11. CountsInv'
  <2> DEFINE z == Cardinality(Levels0(levels))
             gone == IF z < a THEN 0 ELSE IF z <= b THEN z - a + 1 ELSE b - a + 1
             came == IF level.index = 0 THEN 1 ELSE 0
  <2>1. z \in 0..n /\ Levels0(levels) = 1..z
    BY <1>2, Levels0Are DEF n
  <2>2. Cardinality({p \in merge.picked : p[1] = 0}) = gone
    <3>1. a <= b
      BY <1>5
    <3> QED  BY <1>2, <1>4, <3>1, BlockLevels0
  <2> HIDE DEF z
  <2>3. z < a => level.index # 0
    <3> SUFFICES ASSUME z < a PROVE level.index # 0
      OBVIOUS
    <3>1. a \notin 1..z
      BY <1>5, <2>1
    <3>2. levels[a].index # 0 /\ levels[a].index \in Nat /\ level.index \in Nat
      BY <1>2, <1>4, <2>1, <3>1 DEF Levels0, LevelList, FitsLevel, level
    <3>3. level.index = levels[a].index \/ levels[a].index < level.index
      BY <1>4 DEF HasPlace, Id, level
    <3> QED  BY <3>2, <3>3
  <2>4. z > b => level.index = 0
    <3> SUFFICES ASSUME z > b PROVE level.index = 0
      OBVIOUS
    <3>1. z \in 1..z /\ z \in DOMAIN levels
      BY <1>5, <2>1
    <3>2. levels[z].index = 0
      BY <2>1, <3>1 DEF Levels0
    <3>3. Before(level, levels[z]) /\ level.index \in Nat
      BY <1>4, <3>1 DEF HasPlace, FitsLevel, level
    <3> QED  BY <3>2, <3>3 DEF Before
  <2>5. Cardinality(Levels0(levels')) = z - gone + came
    BY <1>6, <2>1, <2>3, <2>4, ReplacedLevels0
  <2>6. merge'.gone = gone /\ merge'.came = came
    BY <1>1, <2>2 DEF level
  <2>7. gone \in Nat /\ came \in Nat /\ z \in Nat
    BY <1>5, <2>1
  <2>8. levels0 = z /\ undumped = AreaSize(rw) + Undumped(dumps)
    BY <1>1, <1>2, <2>7 DEF MapInv, CountsInv, Uncounted, z
  <2>9. Uncounted' = gone - came
    BY <1>8, <2>6 DEF Uncounted
  <2> HIDE DEF gone, came
  <2>10. levels0' = Cardinality(Levels0(levels')) + Uncounted'
    BY <1>1, <2>5, <2>7, <2>8, <2>9
  <2> QED  BY <1>1, <2>6, <2>7, <2>8, <2>10 DEF CountsInv
<1> QED  BY <1>9, <1>10, <1>11 DEF MapInv

-----------------------------------------------------------------------------
(* The writers and the process                                             *)

LEMMA PutProfiles ==
    ASSUME NEW p, NEW last \in Nat, IsProfiles(p, last), NEW k \in Key, NEW erased \in BOOLEAN
    PROVE  LET put == [ver |-> last + 1, erased |-> erased]
               profiles == [j \in DOMAIN p \cup {k} |-> IF j = k THEN put ELSE p[j]]
           IN  /\ IsProfiles(profiles, last + 1)
               /\ DOMAIN profiles = {k} \cup DOMAIN p
               /\ profiles[k] = [ver |-> last + 1, erased |-> erased]
               /\ \A j \in DOMAIN p : j # k => profiles[j] = p[j]
<1> DEFINE v == [ver |-> last + 1, erased |-> erased]
           profiles == [j \in DOMAIN p \cup {k} |-> IF j = k THEN v ELSE p[j]]
<1>1. /\ DOMAIN profiles = {k} \cup DOMAIN p
      /\ profiles = [j \in {k} \cup DOMAIN p |-> IF j = k THEN v ELSE p[j]]
  OBVIOUS
<1>2. v \in [ver : 1..(last + 1), erased : BOOLEAN]
  OBVIOUS
<1>3. /\ DOMAIN p \in SUBSET Key /\ IsFiniteSet(DOMAIN p)
      /\ \A j \in DOMAIN p : p[j] \in [ver : 1..(last + 1), erased : BOOLEAN]
  BY DEF IsProfiles
<1> HIDE DEF profiles, v
<1>4. IsFiniteSet(DOMAIN profiles)
  <2>1. IsFiniteSet(DOMAIN p \cup {k})
    BY <1>3, FS_AddElement
  <2>2. DOMAIN p \cup {k} = DOMAIN profiles
    BY <1>1
  <2> QED  BY <2>1, <2>2
<1>5. profiles = [j \in DOMAIN profiles |-> profiles[j]]
  BY <1>1
<1>6. IsProfiles(profiles, last + 1)
  BY <1>1, <1>2, <1>3, <1>4, <1>5 DEF IsProfiles
<1> QED  BY <1>1, <1>6 DEF profiles, v

LEMMA PutKeepsMap ==
    ASSUME MapInv, NEW k \in Key, NEW erased \in BOOLEAN, Put(k, erased)
    PROVE  MapInv'
<1> DEFINE put == [ver |-> written + 1, erased |-> erased]
           profiles == [j \in DOMAIN rw \cup {k} |-> IF j = k THEN put ELSE rw[j]]
<1>1. /\ ~Down /\ ~Down' /\ written' = written + 1
      /\ undumped' = undumped + AreaSize(profiles) - AreaSize(rw)
      /\ UNCHANGED <<merge, old>>
      /\ Exchange(profiles) \/ (rw' = profiles /\ UNCHANGED <<levels, dumps, levels0>>)
  BY DEF Put, Down
<1>2. /\ written \in Nat /\ IsProfiles(rw, written)
      /\ \A t \in dumps : t.upto \in 1..written /\ \A j \in DOMAIN rw : t.upto < rw[j].ver
  BY DEF MapInv, LevelsInv, DumpsInv
<1>3. /\ IsProfiles(profiles, written + 1) /\ DOMAIN profiles = {k} \cup DOMAIN rw
      /\ profiles[k] = [ver |-> written + 1, erased |-> erased]
      /\ \A j \in DOMAIN rw : j # k => profiles[j] = rw[j]
  BY <1>2, PutProfiles
<1> HIDE DEF profiles
<1>4. \A t \in dumps : \A j \in DOMAIN profiles : t.upto < profiles[j].ver
  <2>1. profiles[k].ver = written + 1
    BY <1>3
  <2> QED  BY <1>2, <1>3, <2>1
<1>5. written' \in Nat /\ written <= written' /\ IsProfiles(profiles, written')
  BY <1>1, <1>2, <1>3
<1>6. CASE Exchange(profiles)
  BY <1>1, <1>4, <1>5, <1>6, ExchangeKeepsMap
<1>7. CASE rw' = profiles /\ UNCHANGED <<levels, dumps, levels0>>
  BY <1>1, <1>4, <1>5, <1>7, WritableKeepsMap
<1> QED  BY <1>1, <1>6, <1>7

(* deactivate_object and wait_object take what is in the writable level.   *)
LEMMA TakenKeepsMap ==
    ASSUME MapInv, Exchange(rw), status \in {"up", "stopping"}, status' \in {"stopping", "dumping"},
           UNCHANGED <<merge, undumped, written, old>>
    PROVE  MapInv'
<1>1. /\ ~Down /\ ~Down' /\ written \in Nat /\ IsProfiles(rw, written)
      /\ \A t \in dumps : \A k \in DOMAIN rw : t.upto < rw[k].ver
  BY DEF MapInv, LevelsInv, DumpsInv, Down
<1>2. AreaSize(rw) \in Nat /\ Undumped(dumps) \in Nat
  BY <1>1, AreaIs, UndumpedType DEF MapInv, DumpsInv
<1>3. undumped' = undumped + AreaSize(rw) - AreaSize(rw)
  BY <1>1, <1>2 DEF MapInv, CountsInv
<1> QED  BY <1>1, <1>3, ExchangeKeepsMap

LEMMA LoadedKeepsMap ==
    ASSUME MapInv, rw' = NoProfiles, levels' = Files, dumps' = {}, merge'.step = "none", Down',
           UNCHANGED <<written, old>>
    PROVE  MapInv'
<1>1. LevelList(levels', written) /\ \A i \in DOMAIN levels' : levels'[i].stored = "file"
  BY FilesList DEF MapInv, LevelsInv
<1>2. LevelsInv'
  BY <1>1, NoProfilesIs DEF MapInv, LevelsInv, MergeIsOfBlock
<1>3. DumpsInv'
  <2>1. IsFiniteSet(dumps')
    BY FS_EmptySet
  <2> QED  BY <1>1, <2>1 DEF DumpsInv
<1>4. CountsInv'
  BY DEF CountsInv
<1> QED  BY <1>2, <1>3, <1>4 DEF MapInv

LEMMA NoneUndumped == Undumped({}) = 0
<1>1. {task \in {} : task.step # "enqueue"} = {}
  OBVIOUS
<1> QED  BY <1>1, SumEmpty DEF Undumped

LEMMA StartKeepsMap ==
    ASSUME MapInv, Start
    PROVE  MapInv'
<1>1. /\ Down /\ status' = "up" /\ undumped' = 0 /\ levels0' = Cardinality(Levels0(levels))
      /\ merge'.step \in {"queued", "none"}
      /\ UNCHANGED <<rw, levels, dumps, written, old>>
  BY DEF Start, counters, Levels0, Down
<1>2. rw = NoProfiles /\ dumps = {} /\ ~Down'
  BY <1>1 DEF MapInv, LevelsInv, Down
<1>3. LevelsInv'
  BY <1>1, <1>2 DEF MapInv, LevelsInv, MergeIsOfBlock
<1>4. DumpsInv'
  BY <1>1 DEF MapInv, DumpsInv
<1>5. CountsInv'
  <2>1. AreaSize(rw') = 0 /\ Undumped(dumps') = 0
    BY <1>1, <1>2, NoProfilesIs, NoneUndumped
  <2>2. Uncounted' = 0
    BY <1>1 DEF Uncounted
  <2>3. Cardinality(Levels0(levels)) \in Nat
    <3>1. Len(levels) \in Nat /\ LevelList(levels, written)
      BY ListProperties DEF MapInv, LevelsInv, LevelList
    <3>2. Cardinality(Levels0(levels)) \in 0..Len(levels)
      BY <3>1, Levels0Are
    <3> QED  BY <3>1, <3>2
  <2>4. /\ undumped' = AreaSize(rw') + Undumped(dumps')
        /\ levels0' = Cardinality(Levels0(levels')) + Uncounted'
    BY <1>1, <2>1, <2>2, <2>3
  <2> QED  BY <1>1, <2>4 DEF CountsInv
<1> QED  BY <1>3, <1>4, <1>5 DEF MapInv

LEMMA GrowOldKeepsMap ==
    ASSUME MapInv, GrowOld
    PROVE  MapInv'
<1>1. /\ old' = old + 1
      /\ UNCHANGED <<rw, levels, dumps, merge, undumped, levels0, status, written>>
  BY DEF GrowOld, tasks
<1>2. written \in Nat /\ old \in Nat /\ old' \in Nat /\ old <= old' /\ written <= written'
      /\ written' \in Nat
  BY <1>1 DEF MapInv, LevelsInv
<1>3. /\ LevelList(levels, written')
      /\ merge.step = "swap" =>
            \E a, b \in DOMAIN levels : Merging(levels, merge, a, b, written', old')
  BY <1>1, <1>2, MergeLater DEF MapInv
<1>4. LevelsInv'
  <2>1. Down' <=> Down
    BY <1>1 DEF Down
  <2> QED  BY <1>1, <1>2, <1>3, <2>1 DEF MapInv, LevelsInv, MergeIsOfBlock
<1>5. DumpsInv' /\ CountsInv'
  BY <1>1 DEF MapInv, DumpsInv, CountsInv, Uncounted, Down
<1> QED  BY <1>4, <1>5 DEF MapInv

LEMMA OthersKeepMap ==
    ASSUME MapInv, UNCHANGED <<rw, levels, dumps, merge, undumped, levels0, written, old>>,
           Down' <=> Down
    PROVE  MapInv'
<1>1. LevelsInv'
  BY DEF MapInv, LevelsInv, MergeIsOfBlock
<1>2. DumpsInv'
  BY DEF MapInv, DumpsInv
<1>3. CountsInv'
  BY DEF MapInv, CountsInv, Uncounted
<1> QED  BY <1>1, <1>2, <1>3 DEF MapInv

LEMMA InitMap == Init => MapInv
<1> SUFFICES ASSUME Init PROVE MapInv
  OBVIOUS
<1>1. /\ rw = NoProfiles /\ levels = <<>> /\ dumps = {} /\ merge = [step |-> "none"]
      /\ undumped = 0 /\ levels0 = 0 /\ status = "up" /\ written = 0 /\ old = 0
  BY DEF Init, LevelInit
<1>2. DOMAIN levels = {} /\ levels \in Seq({})
  BY <1>1
<1>3. LevelsInv
  <2>1. IsList(levels)
    BY <1>2, ListOfLevels
  <2>2. LevelList(levels, written)
    BY <1>2, <2>1 DEF LevelList, InOrder
  <2> QED  BY <1>1, <2>2, NoProfilesIs DEF LevelsInv, MergeIsOfBlock
<1>4. DumpsInv
  BY <1>1, <1>2, FS_EmptySet DEF DumpsInv
<1>5. CountsInv
  <2>1. Levels0(levels) = {}
    BY <1>2 DEF Levels0
  <2> QED  BY <1>1, <2>1, NoProfilesIs, NoneUndumped, FS_EmptySet DEF CountsInv, Uncounted
<1> QED  BY <1>3, <1>4, <1>5 DEF MapInv

LEMMA TaskKeepsMap ==
    ASSUME MapInv, Dump \/ Merge
    PROVE  MapInv'
<1>1. CASE Dump
  BY <1>1, WriteLevelKeepsMap, SwapLevelKeepsMap, CountDumpedKeepsMap, EnqueueMergeKeepsMap DEF Dump
<1>2. CASE InterruptMerge \/ FailMerge \/ Recheck
  <2>1. merge.step \in {"swap", "recheck"} /\ merge'.step \notin {"swap", "count"}
    BY <1>2 DEF InterruptMerge, FailMerge, Recheck
  <2>2. UNCHANGED <<rw, levels, dumps, undumped, levels0, status, written, old>>
    BY <1>2 DEF InterruptMerge, FailMerge, Recheck, counters
  <2> QED  BY <2>1, <2>2, QuietMergeKeepsMap
<1>3. CASE BeginMerge \/ SwapMerged \/ CountMerged
  BY <1>3, BeginMergeKeepsMap, SwapMergedKeepsMap, CountMergedKeepsMap
<1>4. CASE \E level \in removing : Unlink(level)
  <2>1. UNCHANGED <<rw, levels, dumps, merge, undumped, levels0, status, written, old>>
    BY <1>4 DEF Unlink, tasks
  <2> QED  BY <2>1, OthersKeepMap DEF Down
<1> QED  BY <1>1, <1>2, <1>3, <1>4 DEF Merge

LEMMA StepKeepsMap == MapInv /\ TransactionInv /\ [Next]_vars => MapInv' \/ TornMap'
<1> SUFFICES ASSUME MapInv, TransactionInv, [Next]_vars, ~TornMap' PROVE MapInv'
  OBVIOUS
<1>1. ASSUME UNCHANGED levelVars PROVE MapInv'
  BY <1>1, OthersKeepMap DEF levelVars, Down
<1>2. ASSUME NEW c \in Client, ClientNext(c) PROVE MapInv'
  <2>1. CASE Write(c)
    <3>1. PICK erased \in BOOLEAN : Put(txn[c].key, erased)
      BY <2>1 DEF Write
    <3>2. txn[c].key \in Key
      BY <2>1 DEF Write, IsOpen, TransactionInv, ReferencesOpened
    <3> QED  BY <3>1, <3>2, PutKeepsMap
  <2>2. CASE GetBackgroundTransaction(c) \/ WaitForRoom(c) \/ ReadBegin(c) \/ ReadEnd(c)
    <3>1. UNCHANGED <<rw, levels, dumps, merge, undumped, levels0, written, old, status>>
      BY <2>2 DEF GetBackgroundTransaction, WaitForRoom, ReadBegin, ReadEnd, WaitBackground, Wait,
         TakeSnapshot, DropSnapshot, tasks, counters
    <3> QED  BY <3>1, OthersKeepMap DEF Down
  <2>3. CASE GetTransaction(c) \/ EndTransaction(c) \/ Leave(c)
    BY <1>1, <2>3 DEF GetTransaction, EndTransaction, Leave
  <2> QED  BY <1>2, <2>1, <2>2, <2>3 DEF ClientNext
<1>3. CASE TaskNext
  BY <1>3, TaskKeepsMap DEF TaskNext
<1>4. CASE Deactivate \/ WaitObject
  <2>1. /\ Exchange(rw) /\ status \in {"up", "stopping"} /\ status' \in {"stopping", "dumping"}
        /\ UNCHANGED <<merge, undumped, written, old>>
    BY <1>4 DEF Deactivate, WaitObject, counters
  <2> QED  BY <2>1, TakenKeepsMap
<1>5. CASE Start
  BY <1>5, StartKeepsMap
<1>6. CASE GrowOld
  BY <1>6, GrowOldKeepsMap
<1>7. CASE AllDumped
  <2>1. UNCHANGED <<rw, levels, dumps, merge, undumped, levels0, written, old>> /\ ~Down /\ ~Down'
    BY <1>7 DEF AllDumped, tasks, counters, Down
  <2> QED  BY <2>1, OthersKeepMap
<1>8. CASE AllMerged \/ Crash
  <2>1. /\ rw' = NoProfiles /\ levels' = Files /\ dumps' = {} /\ merge'.step = "none" /\ Down'
        /\ UNCHANGED <<written, old>>
    BY <1>8 DEF AllMerged, Crash, counters, Down
  <2> QED  BY <2>1, LoadedKeepsMap
<1>9. CASE UNCHANGED vars
  BY <1>9, <1>1 DEF vars
<1>10. ~StartAmongRemoved
  BY DEF StartAmongRemoved, TornMap
<1> QED  BY <1>2, <1>3, <1>4, <1>5, <1>6, <1>7, <1>8, <1>9, <1>10 DEF Next, ProcessNext, Finish

(* undumped_size_ and levels0_ are what the lists hold, but for the tasks  *)
(* that have changed the lists and not counted it yet, in whatever order    *)
(* writes, dumps, merges, stops and starts come.                            *)
THEOREM CountersHold == Spec => []CountersMatchLevels
<1>1. Init => TransactionInv /\ MapInv
  BY InitTransactions, InitMap
<1>2. TransactionInv /\ (MapInv \/ TornMap) /\ [Next]_vars => TransactionInv' /\ (MapInv' \/ TornMap')
  BY StepKeepsTransactions, StepKeepsMap, TornIsLast
<1>3. MapInv \/ TornMap => CountersMatchLevels
  BY CountsAre DEF MapInv, TornMap, CountersMatchLevels, Down
<1> QED  BY <1>1, <1>2, <1>3, PTL DEF Spec

-----------------------------------------------------------------------------
(* What readers are shown and what a start would load, found in the lists.  *)

NewerThan(p, q) == \A k \in DOMAIN p \cap DOMAIN q : q[k].ver < p[k].ver

(* What a start would find of a level.                                     *)
Stored(level) == IF level.stored = "memory" THEN NoProfiles ELSE FileOf(level).profiles

Disk(list) == [i \in DOMAIN list |-> Stored(list[i])]

(* A level that is being dumped has written what it holds, or tombstones.  *)
Agrees(level, time) ==
    level.stored = "written" =>
        /\ DOMAIN level.file = DOMAIN level.profiles
        /\ \A k \in DOMAIN level.profiles : Expires(level.profiles[k], level.file[k], time)

(* The newer a level, the newer its profiles.                              *)
NewestFirst(p, list) ==
    /\ \A i, j \in DOMAIN list : i < j => NewerThan(list[i].profiles, list[j].profiles)
    /\ \A i \in DOMAIN list : NewerThan(p, list[i].profiles)

Shown(p, list, k) == IF k \in DOMAIN p THEN p[k] ELSE Search(Contents(list), k)

LEMMA ContentsAre ==
    ASSUME NEW list, NEW last, LevelList(list, last)
    PROVE  /\ Len(list) \in Nat /\ DOMAIN list = 1..Len(list)
           /\ DOMAIN Contents(list) = 1..Len(list) /\ DOMAIN Disk(list) = 1..Len(list)
           /\ \A i \in 1..Len(list) : /\ Contents(list)[i] = list[i].profiles
                                      /\ Disk(list)[i] = Stored(list[i])
           /\ Contents(list) \in Seq({list[i].profiles : i \in DOMAIN list})
<1>1. Len(list) \in Nat /\ DOMAIN list = 1..Len(list)
  BY LenProperties DEF LevelList, IsList
<1>2. Contents(list) = [i \in 1..Len(list) |-> list[i].profiles]
  BY <1>1 DEF Contents
<1>3. Disk(list) = [i \in 1..Len(list) |-> Stored(list[i])]
  BY <1>1 DEF Disk
<1>4. Contents(list) \in [1..Len(list) -> {list[i].profiles : i \in DOMAIN list}]
  BY <1>1, <1>2
<1>5. Contents(list) \in Seq({list[i].profiles : i \in DOMAIN list})
  BY <1>1, <1>4, SeqDef
<1> QED  BY <1>1, <1>2, <1>3, <1>5

LEMMA ShownIs ==
    ASSUME NEW list, NEW last, LevelList(list, last), NEW p, NEW k
    PROVE  Search(<<p>> \o Contents(list), k) = Shown(p, list, k)
<1>1. Contents(list) \in Seq({list[i].profiles : i \in DOMAIN list})
  BY ContentsAre
<1>2. Search(<<p>> \o Contents(list), k) = IF k \in DOMAIN p THEN p[k] ELSE Search(Contents(list), k)
  BY <1>1, SearchFront
<1> QED  BY <1>2 DEF Shown

LEMMA StoredIs ==
    ASSUME NEW l, NEW last, FitsLevel(l, last), NEW time, Agrees(l, time)
    PROVE  /\ DOMAIN Stored(l) = IF l.stored = "memory" THEN {} ELSE DOMAIN l.profiles
           /\ l.stored = "file" => Stored(l) = l.profiles
           /\ l.stored = "written" => Stored(l) = l.file
           /\ \A k \in DOMAIN Stored(l) : Expires(l.profiles[k], Stored(l)[k], time)
<1>1. CASE l.stored = "memory"
  BY <1>1, NoProfilesIs DEF Stored
<1>2. CASE l.stored = "file"
  <2>1. Stored(l) = l.profiles
    BY <1>2 DEF Stored, FileOf
  <2> QED  BY <1>2, <2>1, ExpiresSame
<1>3. CASE l.stored = "written"
  <2>1. FileOf(l).profiles = l.file
    BY <1>3, RewrittenLevel DEF FileOf, FitsLevel
  <2>2. Stored(l) = l.file
    BY <1>3, <2>1 DEF Stored
  <2> QED  BY <1>3, <2>2 DEF Agrees
<1> QED  BY <1>1, <1>2, <1>3 DEF FitsLevel

(* A list that holds less than another at the same places, of which the     *)
(* first have the newer entries.                                           *)
Within(one, two, n, k) ==
    /\ \A i \in 1..n : k \in DOMAIN two[i] =>
          k \in DOMAIN one[i] /\ two[i][k].ver = one[i][k].ver
    /\ \A i \in 1..n : \A j \in 1..n :
          i < j /\ k \in DOMAIN one[i] /\ k \in DOMAIN one[j] => one[j][k].ver < one[i][k].ver
    /\ \A i \in 1..n : k \in DOMAIN one[i] => one[i][k].ver \in Nat \ {0}

LEMMA SearchWithin ==
    ASSUME NEW one, NEW n \in Nat, DOMAIN one = 1..n, NEW two, DOMAIN two = 1..n, NEW k,
           Within(one, two, n, k)
    PROVE  /\ Search(two, k).ver <= Search(one, k).ver
           /\ Search(two, k).ver = Search(one, k).ver =>
                 \/ Search(one, k) = Nothing /\ Search(two, k) = Nothing
                 \/ \E i \in 1..n : /\ k \in DOMAIN two[i]
                                    /\ Search(one, k) = one[i][k] /\ Search(two, k) = two[i][k]
<1>0. Nothing.ver = 0
  BY DEF Nothing
<1>1. CASE Absent(one, k)
  <2>1. Absent(two, k)
    BY <1>1 DEF Absent, Within
  <2>2. Search(one, k) = Nothing /\ Search(two, k) = Nothing
    BY <1>1, <2>1, SearchAbsent
  <2> QED  BY <1>0, <2>2
<1>2. ASSUME NEW m \in 1..n, FoundAt(one, k, m)
      PROVE  /\ Search(two, k).ver <= Search(one, k).ver
             /\ Search(two, k).ver = Search(one, k).ver =>
                 \E i \in 1..n : /\ k \in DOMAIN two[i]
                                 /\ Search(one, k) = one[i][k] /\ Search(two, k) = two[i][k]
  <2>0. Search(one, k) = one[m][k]
    BY <1>2, SearchFound
  <2>1. Search(one, k) = one[m][k] /\ k \in DOMAIN one[m]
    BY <1>2, <2>0 DEF FoundAt
  <2>2. one[m][k].ver \in Nat \ {0}
    BY <2>1 DEF Within
  <2>3. CASE Absent(two, k)
    <3>1. Search(two, k) = Nothing
      BY <2>3, SearchAbsent
    <3> QED  BY <1>0, <2>1, <2>2, <3>1
  <2>4. ASSUME NEW p \in 1..n, FoundAt(two, k, p)
        PROVE  /\ Search(two, k).ver <= Search(one, k).ver
               /\ Search(two, k).ver = Search(one, k).ver =>
                   \E i \in 1..n : /\ k \in DOMAIN two[i]
                                   /\ Search(one, k) = one[i][k] /\ Search(two, k) = two[i][k]
    <3>1. Search(two, k) = two[p][k] /\ k \in DOMAIN two[p]
      BY <2>4, SearchFound DEF FoundAt
    <3>2. k \in DOMAIN one[p] /\ two[p][k].ver = one[p][k].ver
      BY <3>1 DEF Within
    <3>3. ~(p < m)
      BY <1>2, <3>2 DEF FoundAt
    <3>4. CASE p = m
      BY <2>1, <2>2, <3>1, <3>2, <3>4
    <3>5. CASE m < p
      <4>1. one[p][k].ver < one[m][k].ver /\ one[p][k].ver \in Nat
        BY <2>1, <3>2, <3>5 DEF Within
      <4> QED  BY <2>1, <2>2, <3>1, <3>2, <4>1
    <3> QED  BY <3>3, <3>4, <3>5
  <2> QED  BY <2>3, <2>4, FoundOrAbsent
<1> QED  BY <1>1, <1>2, FoundOrAbsent

(* Nothing is found in the places that are left out.                       *)
PlacesOf(one, n, S, two) ==
    /\ n \in Nat /\ DOMAIN one = 1..n /\ S \in SUBSET (1..n)
    /\ DOMAIN two = 1..Cardinality(S)
    /\ \A r \in 1..Cardinality(S) : two[r] = one[Place(S, r)]

LEMMA SearchKept ==
    ASSUME NEW one, NEW n, NEW S, NEW two, PlacesOf(one, n, S, two), NEW k,
           \A i \in (1..n) \ S : k \notin DOMAIN one[i]
    PROVE  Search(two, k) = Search(one, k)
<1> /\ n \in Nat /\ DOMAIN one = 1..n /\ S \in SUBSET (1..n)
    /\ DOMAIN two = 1..Cardinality(S)
    /\ \A r \in 1..Cardinality(S) : two[r] = one[Place(S, r)]
  BY DEF PlacesOf
<1>0. IsFiniteSet(S) /\ S \in SUBSET Nat
  <2>1. IsFiniteSet(1..n)
    BY IntervalSize
  <2>2. IsFiniteSet(S)
    BY <2>1, FS_Subset
  <2> QED  BY <2>2
<1>1. /\ Cardinality(S) \in Nat
      /\ \A r \in 1..Cardinality(S) : Place(S, r) \in S
      /\ \A i \in S : Rank(S, i) \in 1..Cardinality(S) /\ Place(S, Rank(S, i)) = i
      /\ \A r, q \in 1..Cardinality(S) : r < q => Place(S, r) < Place(S, q)
  BY <1>0, PlaceIs
<1>2. CASE Absent(one, k)
  <2>1. Absent(two, k)
    BY <1>1, <1>2 DEF Absent
  <2> QED  BY <1>2, <2>1, SearchAbsent
<1>3. ASSUME NEW m \in 1..n, FoundAt(one, k, m) PROVE Search(two, k) = Search(one, k)
  <2> DEFINE r == Rank(S, m)
  <2>1. k \in DOMAIN one[m] /\ m \in S
    BY <1>3 DEF FoundAt
  <2>2. r \in 1..Cardinality(S) /\ Place(S, r) = m
    BY <1>1, <2>1
  <2> HIDE DEF r
  <2>3. r \in DOMAIN two /\ two[r] = one[m]
    BY <2>2
  <2>4. ASSUME NEW q \in DOMAIN two, q < r PROVE k \notin DOMAIN two[q]
    <3>1. Place(S, q) \in S /\ Place(S, q) < m
      BY <1>1, <2>2, <2>4
    <3> QED  BY <1>3, <2>4, <3>1 DEF FoundAt
  <2>5. FoundAt(two, k, r)
    BY <2>1, <2>3, <2>4 DEF FoundAt
  <2> QED  BY <1>1, <1>3, <2>3, <2>5, SearchFound
<1> QED  BY <1>2, <1>3, FoundOrAbsent

(* What a start would show is what is shown, or older.                     *)
LEMMA DurableWithin ==
    ASSUME NEW list, NEW last, LevelList(list, last), NEW p, IsProfiles(p, last),
           NewestFirst(p, list), NEW time, \A i \in DOMAIN list : Agrees(list[i], time), NEW k
    PROVE  LET shown == Shown(p, list, k)
               kept == Search(Disk(list), k)
           IN  /\ kept.ver \in Nat /\ shown.ver \in Nat /\ kept.ver <= shown.ver
               /\ kept.ver = shown.ver => Expires(shown, kept, time)
<1> DEFINE n == Len(list)
           one == Contents(list)
           two == Disk(list)
<1>1. /\ n \in Nat /\ DOMAIN list = 1..n /\ DOMAIN one = 1..n /\ DOMAIN two = 1..n
      /\ \A i \in 1..n : one[i] = list[i].profiles /\ two[i] = Stored(list[i])
  BY ContentsAre
<1>2. \A i \in 1..n : FitsLevel(list[i], last) /\ Agrees(list[i], time)
  BY <1>1 DEF LevelList
<1> HIDE DEF n, one, two
<1>3. ASSUME NEW i \in 1..n, k \in DOMAIN two[i]
      PROVE  k \in DOMAIN one[i] /\ Expires(one[i][k], two[i][k], time)
  BY <1>1, <1>2, <1>3, StoredIs
<1>4. \A i \in 1..n : k \in DOMAIN one[i] => one[i][k].ver \in Nat \ {0}
  <2> SUFFICES ASSUME NEW i \in 1..n, k \in DOMAIN one[i] PROVE one[i][k].ver \in Nat \ {0}
    OBVIOUS
  <2>1. IsProfiles(one[i], last)
    BY <1>1, <1>2 DEF FitsLevel
  <2>2. one[i][k] \in [ver : 1..last, erased : BOOLEAN]
    BY <2>1 DEF IsProfiles
  <2> QED  BY <2>2
<1>5. \A i \in 1..n : k \in DOMAIN two[i] => k \in DOMAIN one[i] /\ two[i][k].ver = one[i][k].ver
  BY <1>3 DEF Expires
<1>6. Search(one, k).ver \in Nat /\ Search(two, k).ver \in Nat
  <2>0. Nothing.ver = 0
    BY DEF Nothing
  <2>1. Search(one, k).ver \in Nat
    <3>1. CASE Absent(one, k)
      BY <2>0, <3>1, SearchAbsent
    <3>2. ASSUME NEW m \in 1..n, FoundAt(one, k, m) PROVE Search(one, k).ver \in Nat
      <4>1. Search(one, k) = one[m][k] /\ k \in DOMAIN one[m]
        BY <1>1, <3>2, SearchFound DEF FoundAt
      <4> QED  BY <1>4, <4>1
    <3> QED  BY <1>1, <3>1, <3>2, FoundOrAbsent
  <2>2. Search(two, k).ver \in Nat
    <3>1. CASE Absent(two, k)
      BY <2>0, <3>1, SearchAbsent
    <3>2. ASSUME NEW m \in 1..n, FoundAt(two, k, m) PROVE Search(two, k).ver \in Nat
      <4>1. Search(two, k) = two[m][k] /\ k \in DOMAIN two[m]
        BY <1>1, <3>2, SearchFound DEF FoundAt
      <4> QED  BY <1>4, <1>5, <4>1
    <3> QED  BY <1>1, <3>1, <3>2, FoundOrAbsent
  <2> QED  BY <2>1, <2>2
<1>7. CASE k \notin DOMAIN p
  <2>1. Shown(p, list, k) = Search(one, k)
    BY <1>7 DEF Shown, one
  <2>2. \A i \in 1..n : \A j \in 1..n :
            i < j /\ k \in DOMAIN one[i] /\ k \in DOMAIN one[j] => one[j][k].ver < one[i][k].ver
    BY <1>1 DEF NewestFirst, NewerThan
  <2>3. /\ Search(two, k).ver <= Search(one, k).ver
        /\ Search(two, k).ver = Search(one, k).ver =>
             \/ Search(one, k) = Nothing /\ Search(two, k) = Nothing
             \/ \E i \in 1..n : /\ k \in DOMAIN two[i]
                                /\ Search(one, k) = one[i][k] /\ Search(two, k) = two[i][k]
    <3>1. Within(one, two, n, k)
      BY <1>4, <1>5, <2>2 DEF Within
    <3> QED  BY <1>1, <3>1, SearchWithin
  <2>4. Search(two, k).ver = Search(one, k).ver => Expires(Search(one, k), Search(two, k), time)
    BY <1>3, <2>3, ExpiresSame
  <2> QED  BY <1>6, <2>1, <2>3, <2>4 DEF two
<1>8. CASE k \in DOMAIN p
  <2>1. Shown(p, list, k) = p[k] /\ p[k].ver \in Nat \ {0}
    BY <1>8 DEF Shown, IsProfiles
  <2>2. CASE Absent(two, k)
    <3>1. Search(two, k).ver = 0
      BY <2>2, SearchAbsent DEF Nothing
    <3> QED  BY <2>1, <3>1 DEF two
  <2>3. ASSUME NEW m \in 1..n, FoundAt(two, k, m) PROVE Search(two, k).ver < p[k].ver
    <3>1. Search(two, k) = two[m][k] /\ k \in DOMAIN two[m]
      BY <1>1, <2>3, SearchFound DEF FoundAt
    <3>2. k \in DOMAIN one[m] /\ two[m][k].ver = one[m][k].ver
      BY <1>5, <3>1
    <3>3. NewerThan(p, one[m])
      BY <1>1 DEF NewestFirst
    <3> QED  BY <1>8, <3>1, <3>2, <3>3 DEF NewerThan
  <2>4. ~Absent(two, k) => Search(two, k).ver < p[k].ver
    BY <1>1, <2>3, FoundOrAbsent
  <2> QED  BY <1>6, <2>1, <2>2, <2>4 DEF two
<1> QED  BY <1>7, <1>8

-----------------------------------------------------------------------------
(* What a change of the list does to what is shown and stored.              *)

LEMMA MergedVersion ==
    ASSUME NEW list, NEW a \in Nat, NEW b \in Nat, NEW profiles, NEW time,
           MergedFrom(list, a, b, profiles, time), NEW k \in DOMAIN profiles
    PROVE  \E m \in a..b : /\ k \in DOMAIN list[m].profiles
                           /\ profiles[k].ver = list[m].profiles[k].ver
<1> DEFINE having == {j \in a..b : k \in DOMAIN list[j].profiles}
<1>1. having \in SUBSET Nat /\ having # {}
  BY DEF MergedFrom
<1>2. PICK m \in having : \A i \in having : m <= i
  BY <1>1, Smallest
<1>3. m \in a..b /\ k \in DOMAIN list[m].profiles
  OBVIOUS
<1>4. ASSUME NEW i \in a..(m - 1) PROVE k \notin DOMAIN list[i].profiles
  <2>1. i \in a..b /\ ~(m <= i)
    BY <1>3
  <2> QED  BY <1>2, <2>1
<1>5. Expires(list[m].profiles[k], profiles[k], time)
  BY <1>3, <1>4 DEF MergedFrom
<1> QED  BY <1>3, <1>5 DEF Expires

LEMMA ReplacedShows ==
    ASSUME NEW list, NEW last, LevelList(list, last), NEW two, LevelList(two, last),
           NEW n, NEW a, NEW b, NEW level, Replaced(list, n, a, b, level, two),
           NEW time, MergedFrom(list, a, b, level.profiles, time), NEW p, NEW k
    PROVE  Expires(Shown(p, list, k), Shown(p, two, k), time)
<1> DEFINE one == Contents(list)
           after == Contents(two)
<1>1. /\ n \in Nat /\ a \in 1..n /\ b \in a..n
      /\ DOMAIN list = 1..n /\ DOMAIN two = 1..(n - (b - a))
      /\ \A i \in 1..(a - 1) : two[i] = list[i]
      /\ two[a] = level
      /\ \A i \in (a + 1)..(n - (b - a)) : two[i] = list[i + (b - a)]
  BY DEF Replaced
<1>2. /\ DOMAIN one = 1..n /\ DOMAIN after = 1..(n - (b - a))
      /\ \A i \in 1..n : one[i] = list[i].profiles
      /\ \A i \in 1..(n - (b - a)) : after[i] = two[i].profiles
  BY <1>1 DEF Contents
<1> HIDE DEF one, after
<1>3. /\ \A i \in 1..(a - 1) : i \in 1..n /\ i \in 1..(n - (b - a))
      /\ \A i \in (a + 1)..(n - (b - a)) : i \in 1..(n - (b - a)) /\ i + (b - a) \in 1..n
      /\ a \in 1..(n - (b - a)) /\ \A j \in a..b : j \in 1..n
  BY <1>1
<1>4. BlockReplaced(one, n, a, b, after)
  BY <1>1, <1>2, <1>3 DEF BlockReplaced
<1>5. after[a] = level.profiles
  BY <1>1, <1>2, <1>3
<1>6. k \in DOMAIN after[a] <=> \E j \in a..b : k \in DOMAIN one[j]
  BY <1>2, <1>3, <1>5 DEF MergedFrom
<1>7. ASSUME NEW m \in a..b, k \in DOMAIN one[m], \A i \in a..(m - 1) : k \notin DOMAIN one[i]
      PROVE  Expires(one[m][k], after[a][k], time)
  <2>1. \A i \in a..(m - 1) : i \in a..b
    BY <1>1
  <2>2. \A i \in a..(m - 1) : k \notin DOMAIN list[i].profiles
    BY <1>2, <1>3, <1>7, <2>1
  <2>3. one[m] = list[m].profiles
    BY <1>2, <1>3
  <2> QED  BY <1>5, <1>7, <2>2, <2>3 DEF MergedFrom
<1>8. Expires(Search(one, k), Search(after, k), time)
  BY <1>4, <1>6, <1>7, SearchReplaced
<1> QED  BY <1>8, ExpiresSame DEF Shown, one, after

LEMMA ReplacedNewest ==
    ASSUME NEW list, NEW two, NEW n, NEW a, NEW b, NEW level, Replaced(list, n, a, b, level, two),
           NEW time, MergedFrom(list, a, b, level.profiles, time), NEW p, NewestFirst(p, list)
    PROVE  NewestFirst(p, two)
<1>1. /\ n \in Nat /\ a \in 1..n /\ b \in a..n
      /\ DOMAIN list = 1..n /\ DOMAIN two = 1..(n - (b - a))
      /\ \A i \in 1..(a - 1) : two[i] = list[i]
      /\ two[a] = level
      /\ \A i \in (a + 1)..(n - (b - a)) : two[i] = list[i + (b - a)]
  BY DEF Replaced
<1> DEFINE origins(j) == IF j = a THEN a..b ELSE IF j < a THEN {j} ELSE {j + (b - a)}
<1>2. ASSUME NEW j \in DOMAIN two, NEW k \in DOMAIN two[j].profiles
      PROVE  \E m \in origins(j) : /\ m \in DOMAIN list /\ k \in DOMAIN list[m].profiles
                                   /\ two[j].profiles[k].ver = list[m].profiles[k].ver
  <2>1. CASE j = a
    <3>1. a \in Nat /\ b \in Nat /\ k \in DOMAIN level.profiles
      BY <1>1, <2>1
    <3>2. PICK m \in a..b : /\ k \in DOMAIN list[m].profiles
                            /\ level.profiles[k].ver = list[m].profiles[k].ver
      BY <3>1, MergedVersion
    <3>3. m \in DOMAIN list
      BY <1>1
    <3> QED  BY <1>1, <2>1, <3>2, <3>3
  <2>2. CASE j < a
    <3>1. j \in 1..(a - 1) /\ j \in DOMAIN list /\ j # a
      BY <1>1, <2>2
    <3>2. two[j] = list[j]
      BY <1>1, <3>1
    <3> QED  BY <2>2, <3>1, <3>2
  <2>3. CASE j > a
    <3>1. j \in (a + 1)..(n - (b - a)) /\ j + (b - a) \in DOMAIN list /\ j # a /\ ~(j < a)
      BY <1>1, <2>3
    <3>2. two[j] = list[j + (b - a)]
      BY <1>1, <3>1
    <3> QED  BY <3>1, <3>2
  <2> QED  BY <1>1, <2>1, <2>2, <2>3
<1>3. ASSUME NEW i \in DOMAIN two, NEW j \in DOMAIN two, i < j, NEW m \in origins(i), NEW q \in origins(j)
      PROVE  m < q
  BY <1>1, <1>3
<1> HIDE DEF origins
<1>4. ASSUME NEW i \in DOMAIN two, NEW j \in DOMAIN two, i < j,
             NEW k \in DOMAIN two[i].profiles \cap DOMAIN two[j].profiles
      PROVE  two[j].profiles[k].ver < two[i].profiles[k].ver
  <2>1. PICK m \in origins(i) : /\ m \in DOMAIN list /\ k \in DOMAIN list[m].profiles
                                /\ two[i].profiles[k].ver = list[m].profiles[k].ver
    BY <1>2
  <2>2. PICK q \in origins(j) : /\ q \in DOMAIN list /\ k \in DOMAIN list[q].profiles
                                /\ two[j].profiles[k].ver = list[q].profiles[k].ver
    BY <1>2
  <2>3. m < q
    BY <1>3, <1>4
  <2>4. NewerThan(list[m].profiles, list[q].profiles)
    BY <2>1, <2>2, <2>3 DEF NewestFirst
  <2> QED  BY <2>1, <2>2, <2>4 DEF NewerThan
<1>5. ASSUME NEW j \in DOMAIN two, NEW k \in DOMAIN p \cap DOMAIN two[j].profiles
      PROVE  two[j].profiles[k].ver < p[k].ver
  <2>1. PICK q \in origins(j) : /\ q \in DOMAIN list /\ k \in DOMAIN list[q].profiles
                                /\ two[j].profiles[k].ver = list[q].profiles[k].ver
    BY <1>2
  <2>2. NewerThan(p, list[q].profiles)
    BY <2>1 DEF NewestFirst
  <2> QED  BY <2>1, <2>2 DEF NewerThan
<1> QED  BY <1>4, <1>5 DEF NewestFirst, NewerThan

(* Levels that have their files are merged into one that has.              *)
LEMMA ReplacedDisk ==
    ASSUME NEW list, NEW last, LevelList(list, last), NEW two, LevelList(two, last),
           NEW n, NEW a, NEW b, NEW level, Replaced(list, n, a, b, level, two),
           \A i \in a..b : list[i].stored = "file", level.stored = "file",
           NEW time, MergedFrom(list, a, b, level.profiles, time), NEW k
    PROVE  Expires(Search(Disk(list), k), Search(Disk(two), k), time)
<1> DEFINE one == Disk(list)
           after == Disk(two)
<1>1. /\ n \in Nat /\ a \in 1..n /\ b \in a..n
      /\ DOMAIN list = 1..n /\ DOMAIN two = 1..(n - (b - a))
      /\ \A i \in 1..(a - 1) : two[i] = list[i]
      /\ two[a] = level
      /\ \A i \in (a + 1)..(n - (b - a)) : two[i] = list[i + (b - a)]
  BY DEF Replaced
<1>2. /\ DOMAIN one = 1..n /\ DOMAIN after = 1..(n - (b - a))
      /\ \A i \in 1..n : one[i] = Stored(list[i])
      /\ \A i \in 1..(n - (b - a)) : after[i] = Stored(two[i])
  BY <1>1 DEF Disk
<1> HIDE DEF one, after
<1>3. /\ \A i \in 1..(a - 1) : i \in 1..n /\ i \in 1..(n - (b - a))
      /\ \A i \in (a + 1)..(n - (b - a)) : i \in 1..(n - (b - a)) /\ i + (b - a) \in 1..n
      /\ a \in 1..(n - (b - a)) /\ \A j \in a..b : j \in 1..n
  BY <1>1
<1>4. BlockReplaced(one, n, a, b, after)
  BY <1>1, <1>2, <1>3 DEF BlockReplaced
<1>5. after[a] = level.profiles /\ \A j \in a..b : one[j] = list[j].profiles
  <2>1. \A l : l.stored = "file" => Stored(l) = l.profiles
    BY DEF Stored, FileOf
  <2> QED  BY <1>1, <1>2, <1>3, <2>1
<1>6. k \in DOMAIN after[a] <=> \E j \in a..b : k \in DOMAIN one[j]
  BY <1>5 DEF MergedFrom
<1>7. ASSUME NEW m \in a..b, k \in DOMAIN one[m], \A i \in a..(m - 1) : k \notin DOMAIN one[i]
      PROVE  Expires(one[m][k], after[a][k], time)
  <2>1. \A i \in a..(m - 1) : i \in a..b
    BY <1>1
  <2>2. \A i \in a..(m - 1) : k \notin DOMAIN list[i].profiles
    BY <1>5, <1>7, <2>1
  <2> QED  BY <1>5, <1>7, <2>2 DEF MergedFrom
<1>8. Expires(Search(one, k), Search(after, k), time)
  BY <1>4, <1>6, <1>7, SearchReplaced
<1> QED  BY <1>8 DEF one, after

(* The writable level goes to the front of the list.                       *)
LEMMA FrontShows ==
    ASSUME NEW list, NEW last, LevelList(list, last), NEW new, FitsLevel(new, last),
           new.stored = "memory", NewestFirst(new.profiles, list), NEW k
    PROVE  LET two == <<new>> \o list
           IN  /\ NewestFirst(NoProfiles, two)
               /\ Shown(NoProfiles, two, k) = Shown(new.profiles, list, k)
               /\ Search(Disk(two), k) = Search(Disk(list), k)
<1> DEFINE two == <<new>> \o list
           n == Len(list)
<1>1. n \in Nat /\ DOMAIN list = 1..n
  BY ContentsAre
<1>2. /\ IsList(two) /\ Len(two) = n + 1 /\ two[1] = new
      /\ \A i \in DOMAIN two : i = 1 \/ (i - 1 \in DOMAIN list /\ two[i] = list[i - 1])
      /\ \A i \in DOMAIN list : i + 1 \in DOMAIN two /\ two[i + 1] = list[i]
  BY FrontIs DEF LevelList, FitsLevel, Fronted
<1>3. DOMAIN two = 1..(n + 1)
  BY <1>2, ListProperties
<1> HIDE DEF two, n
<1>4. NewestFirst(NoProfiles, two)
  <2>1. ASSUME NEW i \in DOMAIN two, NEW j \in DOMAIN two, i < j
        PROVE  NewerThan(two[i].profiles, two[j].profiles)
    <3>1. j - 1 \in DOMAIN list /\ two[j] = list[j - 1]
      BY <1>1, <1>2, <1>3, <2>1
    <3>2. CASE i = 1
      BY <1>2, <3>1, <3>2 DEF NewestFirst
    <3>3. CASE i # 1
      <4>1. i - 1 \in DOMAIN list /\ two[i] = list[i - 1] /\ i - 1 < j - 1
        BY <1>1, <1>2, <1>3, <2>1, <3>3
      <4> QED  BY <3>1, <4>1 DEF NewestFirst
    <3> QED  BY <3>2, <3>3
  <2>2. \A q : NewerThan(NoProfiles, q)
    BY NoProfilesIs DEF NewerThan
  <2> QED  BY <2>1, <2>2 DEF NewestFirst
<1> DEFINE cl == Contents(list)
           ct == Contents(two)
           dl == Disk(list)
           dt == Disk(two)
<1>5. /\ DOMAIN cl = 1..n /\ DOMAIN ct = 1..(n + 1) /\ DOMAIN dl = 1..n /\ DOMAIN dt = 1..(n + 1)
      /\ ct[1] = new.profiles /\ dt[1] = NoProfiles
      /\ \A i \in 1..n : ct[i + 1] = cl[i] /\ dt[i + 1] = dl[i]
  <2>1. 1 \in 1..(n + 1) /\ \A i \in 1..n : i + 1 \in 1..(n + 1) /\ two[i + 1] = list[i]
    BY <1>1, <1>2
  <2>2. /\ cl = [i \in 1..n |-> list[i].profiles] /\ ct = [i \in 1..(n + 1) |-> two[i].profiles]
        /\ dl = [i \in 1..n |-> Stored(list[i])] /\ dt = [i \in 1..(n + 1) |-> Stored(two[i])]
    BY <1>1, <1>3 DEF Contents, Disk
  <2>3. Stored(two[1]) = NoProfiles
    BY <1>2 DEF Stored
  <2> HIDE DEF cl, ct, dl, dt
  <2> QED  BY <1>2, <2>1, <2>2, <2>3
<1> HIDE DEF cl, ct, dl, dt
<1>6. Search(Contents(two), k) = Shown(new.profiles, list, k)
  <2>1. Search(ct, k) = IF k \in DOMAIN ct[1] THEN ct[1][k] ELSE Search(cl, k)
    <3>1. n \in Nat
      BY <1>1
    <3>2. DOMAIN cl = 1..n /\ DOMAIN ct = 1..(n + 1) /\ \A i \in 1..n : ct[i + 1] = cl[i]
      BY <1>5
    <3> QED  BY <3>1, <3>2, SearchBehind
  <2> QED  BY <1>5, <2>1 DEF Shown, ct, cl
<1>7. Search(Disk(two), k) = Search(Disk(list), k)
  <2>1. Search(dt, k) = IF k \in DOMAIN dt[1] THEN dt[1][k] ELSE Search(dl, k)
    <3>1. n \in Nat
      BY <1>1
    <3>2. DOMAIN dl = 1..n /\ DOMAIN dt = 1..(n + 1) /\ \A i \in 1..n : dt[i + 1] = dl[i]
      BY <1>5
    <3> QED  BY <3>1, <3>2, SearchBehind
  <2> QED  BY <1>5, <2>1, NoProfilesIs DEF dt, dl
<1>8. Shown(NoProfiles, two, k) = Search(Contents(two), k)
  BY NoProfilesIs DEF Shown
<1> QED  BY <1>4, <1>6, <1>7, <1>8 DEF two

LEMMA AllFiles ==
    ASSUME NEW list, \A i \in DOMAIN list : list[i].stored = "file"
    PROVE  Disk(list) = Contents(list)
<1>1. \A i \in DOMAIN list : Stored(list[i]) = list[i].profiles
  BY DEF Stored, FileOf
<1> QED  BY <1>1 DEF Disk, Contents

(* What a start loads.                                                     *)
LEMMA FilesShow ==
    ASSUME NEW last, LevelList(levels, last), NEW p, NewestFirst(p, levels), NEW time,
           \A i \in DOMAIN levels : Agrees(levels[i], time), NEW k
    PROVE  /\ NewestFirst(NoProfiles, Files)
           /\ Shown(NoProfiles, Files, k) = Search(Disk(levels), k)
<1> DEFINE S == {i \in DOMAIN levels : levels[i].stored # "memory"}
           n == Len(levels)
           size == Cardinality(S)
<1>1. /\ n \in Nat /\ DOMAIN levels = 1..n /\ DOMAIN Disk(levels) = 1..n
      /\ \A i \in 1..n : Disk(levels)[i] = Stored(levels[i])
  BY ContentsAre
<1>2. IsFiniteSet(S) /\ S \in SUBSET Nat
  <2>1. IsFiniteSet(1..n)
    BY <1>1, IntervalSize
  <2>2. S \in SUBSET (1..n)
    BY <1>1
  <2>3. IsFiniteSet(S)
    BY <2>1, <2>2, FS_Subset
  <2>4. S \in SUBSET Nat
    BY <2>2
  <2> QED  BY <2>3, <2>4
<1>3. \A i \in S : i \in 1..n /\ levels[i].stored # "memory"
  BY <1>1
<1>4. Files = [r \in DOMAIN Kept(levels, S) |-> FileOf(Kept(levels, S)[r])]
  BY DEF Files
<1>5. \A i \in (1..n) \ S : levels[i].stored = "memory"
  BY <1>1
<1> HIDE DEF S
<1>6. /\ size \in Nat
      /\ \A r \in 1..size : Place(S, r) \in S
      /\ \A r, q \in 1..size : r < q => Place(S, r) < Place(S, q)
  BY <1>2, PlaceIs
<1>7. DOMAIN Kept(levels, S) = 1..size /\ \A r \in 1..size : Kept(levels, S)[r] = levels[Place(S, r)]
  BY <1>2, KeptIs
<1> HIDE DEF n, size
<1>8. /\ DOMAIN Files = 1..size
      /\ \A r \in 1..size : Files[r] = FileOf(levels[Place(S, r)])
  BY <1>4, <1>7
<1>9. ASSUME NEW r \in 1..size
      PROVE  /\ Files[r].profiles = Stored(levels[Place(S, r)])
             /\ \A j \in DOMAIN Files[r].profiles :
                   /\ j \in DOMAIN levels[Place(S, r)].profiles
                   /\ Files[r].profiles[j].ver = levels[Place(S, r)].profiles[j].ver
  <2> DEFINE i == Place(S, r)
  <2>1. i \in 1..n /\ levels[i].stored # "memory"
    BY <1>3, <1>6
  <2>2. FitsLevel(levels[i], last) /\ Agrees(levels[i], time)
    BY <1>1, <2>1 DEF LevelList
  <2>3. Files[r] = FileOf(levels[i])
    BY <1>8
  <2> HIDE DEF i
  <2>4. Files[r].profiles = Stored(levels[i])
    BY <2>1, <2>3 DEF Stored
  <2>5. /\ DOMAIN Stored(levels[i]) = DOMAIN levels[i].profiles
        /\ \A j \in DOMAIN Stored(levels[i]) :
              Expires(levels[i].profiles[j], Stored(levels[i])[j], time)
    BY <2>1, <2>2, StoredIs
  <2> QED  BY <2>4, <2>5 DEF i, Expires
<1>10. NewestFirst(NoProfiles, Files)
  <2>1. ASSUME NEW r \in 1..size, NEW q \in 1..size, r < q,
               NEW j \in DOMAIN Files[r].profiles \cap DOMAIN Files[q].profiles
        PROVE  Files[q].profiles[j].ver < Files[r].profiles[j].ver
    <3>1. /\ Place(S, r) < Place(S, q) /\ Place(S, r) \in DOMAIN levels
          /\ Place(S, q) \in DOMAIN levels
      BY <1>1, <1>3, <1>6, <2>1
    <3>2. NewerThan(levels[Place(S, r)].profiles, levels[Place(S, q)].profiles)
      BY <3>1 DEF NewestFirst
    <3>3. /\ j \in DOMAIN levels[Place(S, r)].profiles
          /\ Files[r].profiles[j].ver = levels[Place(S, r)].profiles[j].ver
      BY <1>9
    <3>4. /\ j \in DOMAIN levels[Place(S, q)].profiles
          /\ Files[q].profiles[j].ver = levels[Place(S, q)].profiles[j].ver
      BY <1>9
    <3> QED  BY <3>2, <3>3, <3>4 DEF NewerThan
  <2>2. \A q : NewerThan(NoProfiles, q)
    BY NoProfilesIs DEF NewerThan
  <2> QED  BY <1>8, <2>1, <2>2 DEF NewestFirst, NewerThan
<1>11. Search(Contents(Files), k) = Search(Disk(levels), k)
  <2>1. DOMAIN Contents(Files) = 1..size
    BY <1>8 DEF Contents
  <2>2. ASSUME NEW r \in 1..size PROVE Contents(Files)[r] = Disk(levels)[Place(S, r)]
    <3>1. Contents(Files)[r] = Files[r].profiles
      BY <1>8 DEF Contents
    <3>2. Place(S, r) \in 1..n
      BY <1>3, <1>6
    <3> QED  BY <1>1, <1>9, <3>1, <3>2
  <2>3. \A i \in (1..n) \ S : k \notin DOMAIN Disk(levels)[i]
    <3>1. \A i \in (1..n) \ S : Disk(levels)[i] = NoProfiles
      BY <1>1, <1>5 DEF Stored
    <3> QED  BY <3>1, NoProfilesIs
  <2>4. S \in SUBSET (1..n)
    BY <1>3
  <2> DEFINE one == Disk(levels)
             two == Contents(Files)
  <2>5. /\ DOMAIN one = 1..n /\ DOMAIN two = 1..Cardinality(S)
        /\ \A r \in 1..Cardinality(S) : two[r] = one[Place(S, r)]
        /\ \A i \in (1..n) \ S : k \notin DOMAIN one[i]
    <3>1. size = Cardinality(S)
      BY DEF size
    <3> HIDE DEF Disk
    <3>2. DOMAIN one = 1..n /\ \A i \in (1..n) \ S : k \notin DOMAIN one[i]
      BY <1>1, <2>3
    <3>3. DOMAIN two = 1..Cardinality(S)
      BY <2>1, <3>1
    <3>4. \A r \in 1..Cardinality(S) : two[r] = one[Place(S, r)]
      BY <2>2, <3>1
    <3> QED  BY <3>2, <3>3, <3>4
  <2> HIDE DEF one, two
  <2>6. Search(two, k) = Search(one, k)
    <3>1. PlacesOf(one, n, S, two)
      BY <1>1, <2>4, <2>5 DEF PlacesOf
    <3>2. \A i \in (1..n) \ S : k \notin DOMAIN one[i]
      BY <2>5
    <3> QED  BY <3>1, <3>2, SearchKept
  <2> QED  BY <2>6 DEF one, two
<1>12. Shown(NoProfiles, Files, k) = Search(Contents(Files), k)
  BY NoProfilesIs DEF Shown
<1> QED  BY <1>10, <1>11, <1>12

-----------------------------------------------------------------------------
(* The lists of levels, as readers and a start find them, step by step.     *)

ListsInv ==
    /\ NewestFirst(rw, levels)
    /\ \A i \in DOMAIN levels : Agrees(levels[i], old)

ShownNow(k) == Shown(rw, levels, k)
StoredNow(k) == Search(Disk(levels), k)

(* Profiles may only expire, and more of them may get to the disk.          *)
Rewrites ==
    \A k \in Key :
        /\ Expires(ShownNow(k), ShownNow(k)', old)
        /\ StoredNow(k).ver <= StoredNow(k)'.ver
        /\ StoredNow(k)'.ver = StoredNow(k).ver => Expires(StoredNow(k), StoredNow(k)', old)

LEMMA ExchangeLists ==
    ASSUME MapInv, ListsInv, written' \in Nat, written <= written',
           NEW profiles, IsProfiles(profiles, written'), NewestFirst(profiles, levels),
           Exchange(profiles), UNCHANGED old
    PROVE  /\ ListsInv' /\ rw' = NoProfiles
           /\ \A k : ShownNow(k)' = Shown(profiles, levels, k) /\ StoredNow(k)' = StoredNow(k)
<1>1. CASE profiles = NoProfiles
  <2>1. UNCHANGED <<levels, old>> /\ rw' = profiles
    BY <1>1 DEF Exchange
  <2> QED  BY <1>1, <2>1 DEF ListsInv, ShownNow, StoredNow
<1>2. CASE profiles # NoProfiles
  <2> DEFINE new == [index |-> 0, sub_index |-> NewSubIndex, profiles |-> profiles,
                     stored |-> "memory", file |-> NoProfiles]
  <2>1. rw' = NoProfiles /\ levels' = <<new>> \o levels
    BY <1>2 DEF Exchange
  <2>2. LevelList(levels, written') /\ LevelList(levels, written) /\ written \in Nat
    BY LaterList DEF MapInv, LevelsInv
  <2>3. NewSubIndex \in Nat
    <3>1. new.index = 0 /\ new.sub_index = NewSubIndex
      OBVIOUS
    <3> HIDE DEF new
    <3> QED  BY <2>2, <3>1, NewIsFirst
  <2>4. FitsLevel(new, written')
    BY <2>3, NoProfilesIs DEF FitsLevel, IsLevel
  <2>5. new.profiles = profiles /\ new.stored = "memory" /\ IsLevel(new)
    BY <2>4 DEF FitsLevel
  <2> HIDE DEF new
  <2>6. \A k : /\ NewestFirst(NoProfiles, <<new>> \o levels)
               /\ Shown(NoProfiles, <<new>> \o levels, k) = Shown(new.profiles, levels, k)
               /\ Search(Disk(<<new>> \o levels), k) = Search(Disk(levels), k)
    BY <2>2, <2>4, <2>5, FrontShows
  <2>7. \A i \in DOMAIN levels' : Agrees(levels'[i], old)
    <3> SUFFICES ASSUME NEW i \in DOMAIN levels' PROVE Agrees(levels'[i], old)
      OBVIOUS
    <3>1. IsList(levels)
      BY <2>2 DEF LevelList
    <3>2. i = 1 \/ (i - 1 \in DOMAIN levels /\ levels'[i] = levels[i - 1])
      BY <2>1, <2>5, <3>1, FrontIs DEF Fronted
    <3>3. levels'[1] = new
      BY <2>1, <2>5, <3>1, FrontIs DEF Fronted
    <3> QED  BY <2>5, <3>2, <3>3 DEF ListsInv, Agrees
  <2> QED  BY <2>1, <2>5, <2>6, <2>7 DEF ListsInv, ShownNow, StoredNow
<1> QED  BY <1>1, <1>2

LEMMA PutLists ==
    ASSUME MapInv, ListsInv, NEW k \in Key, NEW erased \in BOOLEAN, Put(k, erased)
    PROVE  /\ ListsInv'
           /\ ShownNow(k)' = [ver |-> written + 1, erased |-> erased]
           /\ \A j : j # k => ShownNow(j)' = ShownNow(j)
           /\ \A j : StoredNow(j)' = StoredNow(j)
<1> DEFINE put == [ver |-> written + 1, erased |-> erased]
           profiles == [j \in DOMAIN rw \cup {k} |-> IF j = k THEN put ELSE rw[j]]
<1>1. /\ written' = written + 1 /\ UNCHANGED old
      /\ Exchange(profiles) \/ (rw' = profiles /\ UNCHANGED levels)
  BY DEF Put
<1>2. written \in Nat /\ IsProfiles(rw, written) /\ LevelList(levels, written)
  BY DEF MapInv, LevelsInv
<1>3. /\ IsProfiles(profiles, written + 1) /\ DOMAIN profiles = {k} \cup DOMAIN rw
      /\ profiles[k] = [ver |-> written + 1, erased |-> erased]
      /\ \A j \in DOMAIN rw : j # k => profiles[j] = rw[j]
  BY <1>2, PutProfiles
<1> HIDE DEF profiles
<1>4. NewestFirst(profiles, levels)
  <2>1. ASSUME NEW i \in DOMAIN levels, NEW j \in DOMAIN profiles \cap DOMAIN levels[i].profiles
        PROVE  levels[i].profiles[j].ver < profiles[j].ver
    <3>1. CASE j = k
      <4>1. IsProfiles(levels[i].profiles, written)
        BY <1>2 DEF LevelList, FitsLevel
      <4>2. levels[i].profiles[j].ver \in 1..written
        BY <4>1 DEF IsProfiles
      <4>3. profiles[j].ver = written + 1
        BY <1>3, <3>1
      <4> QED  BY <1>2, <4>2, <4>3
    <3>2. CASE j # k
      <4>1. j \in DOMAIN rw /\ profiles[j] = rw[j]
        BY <1>3, <3>2
      <4> QED  BY <4>1 DEF ListsInv, NewestFirst, NewerThan
    <3> QED  BY <3>1, <3>2
  <2> QED  BY <2>1 DEF ListsInv, NewestFirst, NewerThan
<1>5. written' \in Nat /\ written <= written' /\ IsProfiles(profiles, written')
  BY <1>1, <1>2, <1>3
<1>6. /\ ListsInv'
      /\ \A j : ShownNow(j)' = Shown(profiles, levels, j) /\ StoredNow(j)' = StoredNow(j)
  <2>1. CASE Exchange(profiles)
    BY <1>1, <1>4, <1>5, <2>1, ExchangeLists
  <2>2. CASE rw' = profiles /\ UNCHANGED levels
    BY <1>1, <1>4, <2>2 DEF ListsInv, ShownNow, StoredNow
  <2> QED  BY <1>1, <2>1, <2>2
<1>7. Shown(profiles, levels, k) = [ver |-> written + 1, erased |-> erased]
  BY <1>3 DEF Shown
<1>8. \A j : j # k => Shown(profiles, levels, j) = ShownNow(j)
  BY <1>3 DEF Shown, ShownNow
<1> QED  BY <1>6, <1>7, <1>8

(* A level that has changed in its place.                                  *)
LEMMA ChangedIsReplaced ==
    ASSUME NEW list, NEW last, LevelList(list, last), NEW i \in DOMAIN list,
           NEW level, NEW two, two = [list EXCEPT ![i] = level]
    PROVE  Replaced(list, Len(list), i, i, level, two)
<1>1. Len(list) \in Nat /\ DOMAIN list = 1..Len(list)
  BY ContentsAre
<1>2. i \in 1..Len(list) /\ Len(list) - (i - i) = Len(list)
  BY <1>1
<1>3. DOMAIN two = 1..Len(list) /\ two[i] = level /\ \A j \in 1..Len(list) : j # i => two[j] = list[j]
  BY <1>1
<1>4. \A j \in (i + 1)..Len(list) : two[j] = list[j + (i - i)]
  BY <1>2, <1>3
<1>5. \A j \in 1..(i - 1) : two[j] = list[j]
  BY <1>2, <1>3
<1> QED  BY <1>1, <1>2, <1>3, <1>4, <1>5 DEF Replaced

LEMMA MergedFromOne ==
    ASSUME NEW list, NEW i \in Nat, NEW profiles, NEW time,
           DOMAIN profiles = DOMAIN list[i].profiles,
           \A k \in DOMAIN profiles : Expires(list[i].profiles[k], profiles[k], time)
    PROVE  MergedFrom(list, i, i, profiles, time)
<1>1. \A j \in i..i : j = i
  OBVIOUS
<1>2. i \in i..i
  OBVIOUS
<1> QED  BY <1>1, <1>2 DEF MergedFrom

LEMMA WriteLevelLists ==
    ASSUME MapInv, MapInv', ListsInv, NEW task \in dumps, WriteLevel(task)
    PROVE  /\ ListsInv' /\ Rewrites
           /\ \A k : ShownNow(k)' = ShownNow(k)
<1> DEFINE i == DumpedLevel(task)
<1>1. i \in DOMAIN levels /\ levels[i].stored = "memory"
  BY WrittenIs
<1>2. PICK level : /\ levels' = [levels EXCEPT ![i] = level]
                   /\ level.stored = "written" /\ level.profiles = levels[i].profiles
                   /\ level.file = Unexpired(levels[i].profiles)
  BY WrittenIs
<1>3. UNCHANGED <<rw, written, old>>
  BY DEF WriteLevel, counters
<1> HIDE DEF i
<1>4. /\ LevelList(levels, written) /\ LevelList(levels', written)
      /\ written \in Nat
  BY <1>3 DEF MapInv, LevelsInv
<1>5. /\ DOMAIN levels' = DOMAIN levels /\ levels'[i] = level
      /\ \A j \in DOMAIN levels : j # i => levels'[j] = levels[j]
  BY <1>1, <1>2
<1>6. \A j \in DOMAIN levels : levels'[j].profiles = levels[j].profiles
  BY <1>2, <1>5
<1>7. ListsInv'
  <2>1. NewestFirst(rw', levels')
    BY <1>3, <1>5, <1>6 DEF ListsInv, NewestFirst
  <2>2. Agrees(level, old)
    <3>1. IsProfiles(levels[i].profiles, written)
      BY <1>1, <1>4 DEF LevelList, FitsLevel
    <3> QED  BY <1>2, <3>1, UnexpiredIs DEF Agrees
  <2> QED  BY <1>3, <1>5, <2>1, <2>2 DEF ListsInv
<1>8. \A k : ShownNow(k)' = ShownNow(k)
  <2>1. Contents(levels') = Contents(levels)
    BY <1>5, <1>6 DEF Contents
  <2> QED  BY <1>3, <2>1 DEF ShownNow, Shown
<1>9. ASSUME NEW k
      PROVE  /\ StoredNow(k).ver <= StoredNow(k)'.ver
             /\ StoredNow(k)'.ver = StoredNow(k).ver => Expires(StoredNow(k), StoredNow(k)', old)
  <2> DEFINE n == Len(levels)
             one == Disk(levels')
             two == Disk(levels)
  <2>1. /\ n \in Nat /\ DOMAIN levels = 1..n /\ DOMAIN one = 1..n /\ DOMAIN two = 1..n
        /\ \A j \in 1..n : one[j] = Stored(levels'[j]) /\ two[j] = Stored(levels[j])
    <3>1. n \in Nat /\ DOMAIN levels = 1..n
      BY <1>4, ContentsAre
    <3> QED  BY <1>5, <3>1 DEF Disk
  <2>2. \A j \in 1..n : FitsLevel(levels'[j], written) /\ Agrees(levels'[j], old)
    BY <1>3, <1>4, <1>5, <1>7, <2>1 DEF ListsInv, LevelList
  <2> HIDE DEF n, one, two
  <2>3. ASSUME NEW j \in 1..n, k \in DOMAIN one[j]
        PROVE  /\ k \in DOMAIN levels'[j].profiles
               /\ one[j][k].ver = levels'[j].profiles[k].ver
               /\ one[j][k].ver \in Nat \ {0}
    <3>1. /\ k \in DOMAIN Stored(levels'[j])
          /\ FitsLevel(levels'[j], written) /\ Agrees(levels'[j], old)
      BY <2>1, <2>2, <2>3
    <3>2. /\ k \in DOMAIN levels'[j].profiles
          /\ Expires(levels'[j].profiles[k], Stored(levels'[j])[k], old)
      BY <3>1, StoredIs
    <3>3. IsProfiles(levels'[j].profiles, written)
      BY <3>1 DEF FitsLevel
    <3>4. levels'[j].profiles[k] \in [ver : 1..written, erased : BOOLEAN]
      BY <3>2, <3>3 DEF IsProfiles
    <3> QED  BY <2>1, <3>2, <3>4 DEF Expires
  <2>4. ASSUME NEW j \in 1..n, k \in DOMAIN two[j]
        PROVE  k \in DOMAIN one[j] /\ two[j] = one[j]
    <3>1. j # i
      BY <1>1, <2>1, <2>4, NoProfilesIs DEF Stored
    <3> QED  BY <1>5, <2>1, <2>4, <3>1
  <2>5. ASSUME NEW j \in 1..n, NEW m \in 1..n, j < m, k \in DOMAIN one[j], k \in DOMAIN one[m]
        PROVE  one[m][k].ver < one[j][k].ver
    <3>1. NewerThan(levels'[j].profiles, levels'[m].profiles)
      BY <1>5, <1>7, <2>1, <2>5 DEF ListsInv, NewestFirst
    <3>2. /\ k \in DOMAIN levels'[j].profiles /\ k \in DOMAIN levels'[m].profiles
          /\ one[j][k].ver = levels'[j].profiles[k].ver
          /\ one[m][k].ver = levels'[m].profiles[k].ver
      BY <2>3, <2>5
    <3> QED  BY <3>1, <3>2 DEF NewerThan
  <2>6. \A j \in 1..n : k \in DOMAIN two[j] => k \in DOMAIN one[j] /\ two[j][k].ver = one[j][k].ver
    BY <2>4
  <2>7. /\ Search(two, k).ver <= Search(one, k).ver
        /\ Search(two, k).ver = Search(one, k).ver =>
             \/ Search(one, k) = Nothing /\ Search(two, k) = Nothing
             \/ \E j \in 1..n : /\ k \in DOMAIN two[j]
                                /\ Search(one, k) = one[j][k] /\ Search(two, k) = two[j][k]
    <3>1. \A j \in 1..n : k \in DOMAIN one[j] => one[j][k].ver \in Nat \ {0}
      BY <2>3
    <3>2. \A j \in 1..n : \A m \in 1..n :
              j < m /\ k \in DOMAIN one[j] /\ k \in DOMAIN one[m] => one[m][k].ver < one[j][k].ver
      BY <2>5
    <3>3. n \in Nat /\ DOMAIN one = 1..n /\ DOMAIN two = 1..n
      BY <2>1
    <3> QED  BY <2>6, <3>1, <3>2, <3>3, SearchWithin DEF Within
  <2>8. Search(two, k).ver = Search(one, k).ver => Search(two, k) = Search(one, k)
    BY <2>4, <2>7
  <2>9. StoredNow(k) = Search(two, k) /\ StoredNow(k)' = Search(one, k)
    BY DEF StoredNow, one, two
  <2> QED  BY <2>7, <2>8, <2>9, ExpiresSame
<1> QED  BY <1>7, <1>8, <1>9, ExpiresSame DEF Rewrites

LEMMA SwapLevelLists ==
    ASSUME MapInv, MapInv', ListsInv, NEW task \in dumps, SwapLevel(task)
    PROVE  /\ ListsInv' /\ Rewrites
           /\ \A k : Expires(ShownNow(k), ShownNow(k)', old)
<1> DEFINE i == DumpedLevel(task)
           level == FileOf(levels[i])
<1>1. /\ i \in DOMAIN levels /\ levels[i].stored = "written"
      /\ levels' = [levels EXCEPT ![i] = level] /\ level.stored = "file"
  BY SwappedFileIs
<1>2. UNCHANGED <<rw, written, old>>
  BY DEF SwapLevel, counters
<1>3. LevelList(levels, written) /\ LevelList(levels', written)
  BY <1>2 DEF MapInv, LevelsInv
<1>4. FitsLevel(levels[i], written) /\ Agrees(levels[i], old)
  BY <1>1, <1>3 DEF LevelList, ListsInv
<1>5. level.profiles = Stored(levels[i]) /\ level.profiles = levels[i].file
  <2>1. Stored(levels[i]) = levels[i].file /\ Stored(levels[i]) = level.profiles
    BY <1>1, <1>4, StoredIs DEF Stored
  <2> QED  BY <2>1
<1> HIDE DEF i, level
<1>6. /\ DOMAIN levels' = DOMAIN levels /\ levels'[i] = level
      /\ \A j \in DOMAIN levels : j # i => levels'[j] = levels[j]
  BY <1>1
<1>7. Replaced(levels, Len(levels), i, i, level, levels')
  BY <1>1, <1>3, ChangedIsReplaced
<1>8. MergedFrom(levels, i, i, level.profiles, old)
  <2>1. /\ DOMAIN level.profiles = DOMAIN levels[i].profiles
        /\ \A k \in DOMAIN level.profiles : Expires(levels[i].profiles[k], level.profiles[k], old)
    <3>1. /\ DOMAIN levels[i].file = DOMAIN levels[i].profiles
          /\ \A k \in DOMAIN levels[i].profiles :
                Expires(levels[i].profiles[k], levels[i].file[k], old)
      BY <1>1, <1>4 DEF Agrees
    <3> QED  BY <1>5, <3>1
  <2>2. i \in Nat
    <3>1. Len(levels) \in Nat /\ DOMAIN levels = 1..Len(levels)
      BY <1>3, ContentsAre
    <3> QED  BY <1>1, <3>1
  <2> QED  BY <2>1, <2>2, MergedFromOne
<1>9. ListsInv'
  <2>1. NewestFirst(rw, levels')
    BY <1>7, <1>8, ReplacedNewest DEF ListsInv
  <2>2. \A j \in DOMAIN levels' : Agrees(levels'[j], old)
    BY <1>1, <1>6 DEF ListsInv, Agrees
  <2> QED  BY <1>2, <2>1, <2>2 DEF ListsInv
<1>10. \A k : Expires(ShownNow(k), ShownNow(k)', old)
  <2>1. \A k : Expires(Shown(rw, levels, k), Shown(rw, levels', k), old)
    BY <1>3, <1>7, <1>8, ReplacedShows
  <2> QED  BY <1>2, <2>1 DEF ShownNow
<1>11. \A k : StoredNow(k)' = StoredNow(k)
  <2>1. Stored(level) = level.profiles
    BY <1>1 DEF Stored, FileOf
  <2>2. \A j \in DOMAIN levels : Stored(levels'[j]) = Stored(levels[j])
    BY <1>5, <1>6, <2>1
  <2>3. Disk(levels') = Disk(levels)
    BY <1>6, <2>2 DEF Disk
  <2> QED  BY <2>3 DEF StoredNow
<1>12. \A k : StoredNow(k).ver \in Nat
  <2>1. IsProfiles(rw, written)
    BY DEF MapInv, LevelsInv
  <2> QED  BY <1>3, <2>1, DurableWithin DEF ListsInv, StoredNow
<1>13. \A k : StoredNow(k).ver <= StoredNow(k)'.ver
  BY <1>11, <1>12
<1> QED  BY <1>9, <1>10, <1>11, <1>13, ExpiresSame DEF Rewrites

LEMMA SwapMergedLists ==
    ASSUME MapInv, ListsInv, SwapMerged
    PROVE  /\ ListsInv' /\ Rewrites
           /\ \A k : Expires(ShownNow(k), ShownNow(k)', old)
<1>1. UNCHANGED <<rw, written, old>>
  BY DEF SwapMerged, counters
<1>2. PICK a, b \in DOMAIN levels :
          /\ Merging(levels, merge, a, b, written, old)
          /\ LevelList(levels', written)
          /\ Replaced(levels, Len(levels), a, b, merge.result, levels')
  BY SwapMergedIs
<1> DEFINE level == merge.result
<1>3. /\ \A i \in a..b : levels[i].stored = "file"
      /\ level.stored = "file" /\ MergedFrom(levels, a, b, level.profiles, old)
  BY <1>2 DEF Merging
<1>4. LevelList(levels, written) /\ IsProfiles(rw, written)
  BY DEF MapInv, LevelsInv
<1> HIDE DEF level
<1>5. Replaced(levels, Len(levels), a, b, level, levels')
  BY <1>2 DEF level
<1>6. ListsInv'
  <2>1. NewestFirst(rw, levels')
    BY <1>3, <1>5, ReplacedNewest DEF ListsInv
  <2>2. \A j \in DOMAIN levels' : Agrees(levels'[j], old)
    <3> SUFFICES ASSUME NEW j \in DOMAIN levels' PROVE Agrees(levels'[j], old)
      OBVIOUS
    <3>1. CASE j = a
      <4>1. levels'[j] = level
        BY <1>5, <3>1 DEF Replaced
      <4> QED  BY <1>3, <4>1 DEF Agrees
    <3>2. CASE j # a
      <4>1. \E i \in DOMAIN levels : i \notin a..b /\ levels'[j] = levels[i]
        BY <1>5, <3>2, ReplacedPlaces
      <4> QED  BY <4>1 DEF ListsInv
    <3> QED  BY <3>1, <3>2
  <2> QED  BY <1>1, <2>1, <2>2 DEF ListsInv
<1>7. \A k : Expires(ShownNow(k), ShownNow(k)', old)
  <2>1. \A k : Expires(Shown(rw, levels, k), Shown(rw, levels', k), old)
    BY <1>2, <1>3, <1>4, <1>5, ReplacedShows
  <2> QED  BY <1>1, <2>1 DEF ShownNow
<1>8. \A k : Expires(StoredNow(k), StoredNow(k)', old)
  <2>1. \A k : Expires(Search(Disk(levels), k), Search(Disk(levels'), k), old)
    BY <1>2, <1>3, <1>4, <1>5, ReplacedDisk
  <2> QED  BY <2>1 DEF StoredNow
<1>9. \A k : StoredNow(k).ver \in Nat
  BY <1>4, DurableWithin DEF ListsInv, StoredNow
<1>10. \A k : StoredNow(k).ver <= StoredNow(k)'.ver
  BY <1>8, <1>9 DEF Expires
<1> QED  BY <1>6, <1>7, <1>8, <1>10 DEF Rewrites

(* A start after a stop or a crash loads what was on the disk.             *)
LEMMA LoadedLists ==
    ASSUME MapInv, ListsInv, rw' = NoProfiles, levels' = Files, UNCHANGED old
    PROVE  /\ ListsInv'
           /\ \A i \in DOMAIN levels' : levels'[i].stored = "file"
           /\ \A k : ShownNow(k)' = StoredNow(k) /\ StoredNow(k)' = StoredNow(k)
<1>1. LevelList(levels, written)
  BY DEF MapInv, LevelsInv
<1>2. \A i \in DOMAIN levels' : levels'[i].stored = "file"
  BY <1>1, FilesList
<1>3. \A k : NewestFirst(NoProfiles, Files) /\ Shown(NoProfiles, Files, k) = Search(Disk(levels), k)
  BY <1>1, FilesShow DEF ListsInv
<1>4. ListsInv'
  BY <1>2, <1>3 DEF ListsInv, Agrees
<1>5. \A k : ShownNow(k)' = StoredNow(k)
  BY <1>3 DEF ShownNow, StoredNow
<1>6. \A k : StoredNow(k)' = ShownNow(k)'
  <2>1. Disk(levels') = Contents(levels')
    BY <1>2, AllFiles
  <2> QED  BY <2>1, NoProfilesIs DEF ShownNow, StoredNow, Shown
<1> QED  BY <1>2, <1>4, <1>5, <1>6

LEMMA GrowOldLists ==
    ASSUME MapInv, ListsInv, GrowOld
    PROVE  /\ ListsInv' /\ old < old'
           /\ \A k : ShownNow(k)' = ShownNow(k) /\ StoredNow(k)' = StoredNow(k)
<1>1. old' = old + 1 /\ UNCHANGED <<rw, levels>>
  BY DEF GrowOld
<1>2. old \in Nat /\ LevelList(levels, written)
  BY DEF MapInv, LevelsInv
<1>3. ASSUME NEW i \in DOMAIN levels PROVE Agrees(levels[i], old')
  <2>1. IsProfiles(levels[i].profiles, written)
    BY <1>2 DEF LevelList, FitsLevel
  <2>2. \A k \in DOMAIN levels[i].profiles : levels[i].profiles[k].ver \in Int
    BY <2>1 DEF IsProfiles
  <2>3. old \in Int /\ old' \in Int /\ old <= old'
    BY <1>1, <1>2
  <2>4. ASSUME levels[i].stored = "written", NEW k \in DOMAIN levels[i].profiles
        PROVE  Expires(levels[i].profiles[k], levels[i].file[k], old')
    <3>1. Expires(levels[i].profiles[k], levels[i].file[k], old)
      BY <2>4 DEF ListsInv, Agrees
    <3> QED  BY <2>2, <2>3, <3>1, ExpiresLater
  <2> QED  BY <2>4 DEF ListsInv, Agrees
<1> QED  BY <1>1, <1>2, <1>3 DEF ListsInv, ShownNow, StoredNow

-----------------------------------------------------------------------------
(* A stop goes by its steps: once no call is in progress and the writable   *)
(* level was taken nothing is written, and once nothing is undumped every   *)
(* level has its files.                                                    *)

StatusInv ==
    /\ status \in {"up", "stopping", "dumping", "merging", "down", "crashed"}
    /\ status \notin {"up", "stopping"} => rw = NoProfiles /\ \A c \in Client : txn[c] = Outside
    /\ status \in {"merging", "down", "crashed"} =>
          \A i \in DOMAIN levels : levels[i].stored = "file"

StoreInv == ListsInv /\ StatusInv

LEMMA NothingUndumped ==
    ASSUME MapInv, ~Down, undumped = 0
    PROVE  \A i \in DOMAIN levels : levels[i].stored = "file"
<1> SUFFICES ASSUME NEW i \in DOMAIN levels, levels[i].stored # "file" PROVE FALSE
  OBVIOUS
<1>1. PICK t \in dumps : Pending(t)
  BY DEF MapInv, DumpsInv
<1>2. IsFiniteSet(dumps) /\ \A task \in dumps : task.area \in Nat \ {0}
  BY DEF MapInv, DumpsInv
<1>3. undumped = AreaSize(rw) + Undumped(dumps) /\ IsProfiles(rw, written)
  BY DEF MapInv, CountsInv, LevelsInv
<1>4. AreaSize(rw) \in Nat
  BY <1>3, AreaIs
<1>5. Undumped(dumps \ {t}) \in Nat /\ Undumped(dumps) = Undumped(dumps \ {t}) + UndumpedBy(t)
  BY <1>2, UndumpedRemove
<1>6. UndumpedBy(t) \in Nat \ {0}
  BY <1>1, <1>2 DEF UndumpedBy, Pending
<1> QED  BY <1>3, <1>4, <1>5, <1>6

(* Whoever is in a call is there before a stop has waited for the calls.    *)
LEMMA ClientsAreEarly ==
    ASSUME StatusInv, NEW c \in Client, ClientNext(c)
    PROVE  status \in {"up", "stopping"} /\ status' = status
<1>1. txn[c] = Outside => txn[c].step = "outside"
  BY DEF Outside
<1>2. status \in {"up", "stopping"} \/ txn[c].step = "outside"
  BY <1>1 DEF StatusInv
<1>3. CASE GetTransaction(c) \/ GetBackgroundTransaction(c)
  BY <1>3 DEF GetTransaction, GetBackgroundTransaction, WaitBackground, levelVars
<1>4. CASE ReadBegin(c) \/ ReadEnd(c)
  BY <1>2, <1>4 DEF ReadBegin, ReadEnd, TakeSnapshot, DropSnapshot, IsOpen
<1>5. CASE Write(c)
  <2>1. \E erased \in BOOLEAN : Put(txn[c].key, erased)
    BY <1>5 DEF Write
  <2> QED  BY <1>2, <1>5, <2>1 DEF Write, IsOpen, Put
<1>6. CASE WaitForRoom(c) \/ EndTransaction(c)
  BY <1>2, <1>6 DEF WaitForRoom, EndTransaction, Wait, IsOpen, levelVars
<1>7. CASE Leave(c)
  BY <1>2, <1>7 DEF Leave, Lock, Unlock, Release, levelVars
<1> QED  BY <1>3, <1>4, <1>5, <1>6, <1>7 DEF ClientNext

(* The tasks that dump and merge, but for the three steps that change the   *)
(* list.                                                                   *)
QuietTask ==
    \/ BeginMerge \/ InterruptMerge \/ FailMerge \/ CountMerged \/ Recheck
    \/ \E level \in removing : Unlink(level)
    \/ \E task \in dumps : CountDumped(task) \/ EnqueueMerge(task)

LEMMA QuietTasks ==
    ASSUME QuietTask
    PROVE  UNCHANGED <<rw, levels, status, old, written, snapshot>>
<1>1. CASE BeginMerge \/ InterruptMerge
  BY <1>1 DEF BeginMerge, InterruptMerge, counters
<1>2. CASE FailMerge
  BY <1>2 DEF FailMerge
<1>3. CASE CountMerged \/ Recheck
  BY <1>3 DEF CountMerged, Recheck, counters
<1>4. CASE \E task \in dumps : CountDumped(task) \/ EnqueueMerge(task)
  BY <1>4 DEF CountDumped, EnqueueMerge, counters
<1>5. CASE \E level \in removing : Unlink(level)
  BY <1>5 DEF Unlink
<1> QED  BY <1>1, <1>2, <1>3, <1>4, <1>5 DEF QuietTask

LEMMA TasksAre ==
    ASSUME TaskNext
    PROVE  /\ \/ QuietTask \/ SwapMerged
              \/ \E task \in dumps : WriteLevel(task) \/ SwapLevel(task)
           /\ UNCHANGED transactions
BY DEF TaskNext, Dump, Merge, QuietTask

LEMMA TaskKeepsStatus ==
    ASSUME MapInv, StatusInv, TaskNext
    PROVE  StatusInv' /\ status' = status /\ rw' = rw /\ txn' = txn /\ ~Down
<1>1. txn' = txn
  BY DEF TaskNext, transactions
<1>2. CASE QuietTask
  <2>1. ~Down
    <3>1. merge.step # "none" \/ dumps # {} \/ ~Down
      BY <1>2 DEF QuietTask, BeginMerge, InterruptMerge, FailMerge, CountMerged, Recheck, Unlink
    <3> QED  BY <3>1 DEF MapInv, LevelsInv
  <2> QED  BY <1>1, <1>2, <2>1, QuietTasks DEF StatusInv
<1>3. CASE SwapMerged
  <2>1. merge.step = "swap" /\ UNCHANGED <<rw, status>>
    BY <1>3 DEF SwapMerged
  <2>2. ~Down
    BY <2>1 DEF MapInv, LevelsInv
  <2>3. ASSUME \A i \in DOMAIN levels : levels[i].stored = "file", NEW j \in DOMAIN levels'
        PROVE  levels'[j].stored = "file"
    <3>1. PICK a, b \in DOMAIN levels :
              /\ Merging(levels, merge, a, b, written, old)
              /\ Replaced(levels, Len(levels), a, b, merge.result, levels')
      BY <1>3, SwapMergedIs
    <3>2. levels'[a].stored = "file"
      BY <3>1 DEF Merging, Replaced
    <3>3. j # a => \E i \in DOMAIN levels : i \notin a..b /\ levels'[j] = levels[i]
      BY <3>1, ReplacedPlaces
    <3> QED  BY <2>3, <3>2, <3>3
  <2> QED  BY <1>1, <2>1, <2>2, <2>3 DEF StatusInv
<1>4. ASSUME NEW task \in dumps, WriteLevel(task) \/ SwapLevel(task)
      PROVE  StatusInv' /\ status' = status /\ rw' = rw /\ txn' = txn /\ ~Down
  <2>1. UNCHANGED <<rw, status>> /\ ~Down
    BY <1>4 DEF WriteLevel, SwapLevel, MapInv, LevelsInv
  <2>2. DumpedLevel(task) \in DOMAIN levels /\ levels[DumpedLevel(task)].stored # "file"
    BY <1>4, WrittenIs, SwappedFileIs
  <2>3. status \notin {"merging", "down", "crashed"}
    BY <2>2 DEF StatusInv
  <2> QED  BY <1>1, <2>1, <2>3 DEF StatusInv
<1> QED  BY <1>2, <1>3, <1>4, TasksAre

LEMMA ProcessKeepsStatus ==
    ASSUME MapInv, StoreInv, ProcessNext, StopFindsNoCall, ~TornMap'
    PROVE  StatusInv'
<1> USE DEF TornMap
<1>1. CASE Deactivate
  BY <1>1 DEF Deactivate, StatusInv
<1>2. CASE WaitObject /\ UNCHANGED transactions
  <2>1. status = "stopping" /\ status' = "dumping" /\ Exchange(rw) /\ UNCHANGED <<old, written>>
    BY <1>2 DEF WaitObject, counters
  <2>2. \A c \in Client : txn'[c] = Outside
    BY <1>2, <2>1 DEF StopFindsNoCall, transactions
  <2>3. rw' = NoProfiles
    <3>1. /\ written' \in Nat /\ written <= written' /\ IsProfiles(rw, written')
          /\ NewestFirst(rw, levels)
      BY <2>1 DEF MapInv, LevelsInv, StoreInv, ListsInv
    <3> QED  BY <2>1, <3>1, ExchangeLists DEF StoreInv
  <2> QED  BY <2>1, <2>2, <2>3 DEF StatusInv
<1>3. CASE Start \/ StartAmongRemoved
  BY <1>3 DEF Start, StartAmongRemoved, StatusInv
<1>4. CASE GrowOld /\ UNCHANGED transactions
  BY <1>4 DEF GrowOld, StatusInv, StoreInv, transactions
<1>5. CASE AllDumped /\ UNCHANGED transactions
  <2>1. /\ status = "dumping" /\ undumped = 0 /\ status' = "merging"
        /\ UNCHANGED <<rw, levels, txn>>
    BY <1>5 DEF AllDumped, transactions
  <2>2. \A i \in DOMAIN levels : levels[i].stored = "file"
    BY <2>1, NothingUndumped DEF Down
  <2> QED  BY <2>1, <2>2 DEF StatusInv, StoreInv
<1>6. CASE AllMerged /\ UNCHANGED transactions
  <2>1. status = "merging" /\ status' = "down" /\ rw' = NoProfiles /\ levels' = Files /\ txn' = txn
    BY <1>6 DEF AllMerged, transactions
  <2>2. \A i \in DOMAIN levels' : levels'[i].stored = "file"
    BY <2>1, FilesList DEF MapInv, LevelsInv
  <2> QED  BY <2>1, <2>2 DEF StatusInv, StoreInv
<1>7. CASE Crash /\ ForgetTransactions
  <2>1. /\ status' = "crashed" /\ rw' = NoProfiles /\ levels' = Files
        /\ \A c \in Client : txn'[c] = Outside
    BY <1>7 DEF Crash, ForgetTransactions
  <2>2. \A i \in DOMAIN levels' : levels'[i].stored = "file"
    BY <2>1, FilesList DEF MapInv, LevelsInv
  <2> QED  BY <2>1, <2>2 DEF StatusInv
<1> QED  BY <1>1, <1>2, <1>3, <1>4, <1>5, <1>6, <1>7 DEF ProcessNext, Finish

-----------------------------------------------------------------------------
(* What a start would show of a key is what is shown, or older.            *)
LEMMA DurableNow ==
    ASSUME MapInv, ListsInv, NEW k
    PROVE  /\ StoredNow(k).ver \in Nat /\ ShownNow(k).ver \in Nat
           /\ StoredNow(k).ver <= ShownNow(k).ver
           /\ StoredNow(k).ver = ShownNow(k).ver => Expires(ShownNow(k), StoredNow(k), old)
<1>1. LevelList(levels, written) /\ IsProfiles(rw, written)
  BY DEF MapInv, LevelsInv
<1> QED  BY <1>1, DurableWithin DEF ListsInv, ShownNow, StoredNow

LEMMA DurableNext ==
    ASSUME MapInv', ListsInv', NEW k
    PROVE  /\ StoredNow(k)'.ver \in Nat /\ ShownNow(k)'.ver \in Nat
           /\ StoredNow(k)'.ver <= ShownNow(k)'.ver
           /\ StoredNow(k)'.ver = ShownNow(k)'.ver => Expires(ShownNow(k)', StoredNow(k)', old')
<1>1. LevelList(levels', written') /\ IsProfiles(rw', written')
  BY DEF MapInv, LevelsInv
<1> QED  BY <1>1, DurableWithin DEF ListsInv, ShownNow, StoredNow

-----------------------------------------------------------------------------
(* What is being removed: copies of keys that the levels hold as well.     *)

RemovedFits ==
    /\ IsFiniteSet(removing) /\ written <= MaxWrites
    /\ \A r \in removing : FitsLevel(r, written) /\ r.stored = "file"

RemovedIsOlder ==
    \A r \in removing : \A k \in DOMAIN r.profiles :
        /\ r.profiles[k].ver <= StoredNow(k).ver
        /\ StoredNow(k).ver = r.profiles[k].ver => Expires(r.profiles[k], StoredNow(k), old)

Removed == UNION {DOMAIN level.profiles : level \in removing}

LEMMA RemovedKeys == RemovedFits => Removed \subseteq Key
BY DEF RemovedFits, Removed, FitsLevel, IsProfiles

LEMMA RangeFinite ==
    ASSUME NEW list, IsList(list)
    PROVE  IsFiniteSet(Range(list))
<1>1. list \in Surjection(DOMAIN list, Range(list))
  <2>1. list = [i \in DOMAIN list |-> list[i]]
    BY LenProperties DEF IsList
  <2> QED  BY <2>1 DEF Surjection, Range
<1> QED  BY <1>1, ListProperties, FS_Surjection

LEMMA RemovingIs ==
    ASSUME MapInv, [Next]_vars
    PROVE  /\ SwapMerged \/ removing' \subseteq removing
           /\ written' = written \/ (written < MaxWrites /\ written' = written + 1)
           /\ written \in Nat
<1>1. written \in Nat
  BY DEF MapInv, LevelsInv
<1>2. ASSUME NEW c \in Client, ClientNext(c)
      PROVE  /\ removing' = removing
             /\ written' = written \/ (written < MaxWrites /\ written' = written + 1)
  <2>1. CASE Write(c)
    BY <2>1 DEF Write, Put
  <2>2. CASE ~Write(c)
    BY <1>2, <2>2 DEF ClientNext, GetTransaction, GetBackgroundTransaction, ReadBegin,
       ReadEnd, WaitForRoom, EndTransaction, Leave, WaitBackground, TakeSnapshot, DropSnapshot, Wait,
       levelVars, counters
  <2> QED  BY <2>1, <2>2
<1>3. CASE TaskNext
  <2>1. CASE Dump
    BY <1>1, <2>1 DEF Dump, WriteLevel, SwapLevel, CountDumped, EnqueueMerge, counters
  <2>2. CASE Merge
    BY <1>1, <2>2 DEF Merge, BeginMerge, InterruptMerge, FailMerge, SwapMerged, CountMerged, Recheck,
       Unlink, counters
  <2> QED  BY <1>3, <2>1, <2>2 DEF TaskNext
<1>4. CASE ProcessNext
  BY <1>1, <1>4 DEF ProcessNext, Finish, Deactivate, WaitObject, Start, StartAmongRemoved, GrowOld, AllDumped,
     AllMerged, Crash, counters
<1>5. CASE UNCHANGED vars
  BY <1>1, <1>5 DEF vars, levelVars
<1> QED  BY <1>1, <1>2, <1>3, <1>4, <1>5 DEF Next

(* The levels a merge was made of are those it removes.                    *)
LEMMA RemovedByMerge ==
    ASSUME MapInv, SwapMerged
    PROVE  /\ removing' = removing \cup (removing' \ removing)
           /\ IsFiniteSet(removing' \ removing)
           /\ \A r \in removing' \ removing :
                  \E i \in DOMAIN levels : r = levels[i] /\ r.stored = "file"
<1> DEFINE new == {level \in Range(levels) : <<level.index, level.sub_index>> \in merge.picked}
<1>1. removing' = removing \cup new
  BY DEF SwapMerged
<1>2. LevelList(levels, written)
  BY DEF MapInv, LevelsInv
<1>3. IsFiniteSet(new)
  BY <1>2, RangeFinite, FS_Subset DEF LevelList
<1>4. PICK a, b \in DOMAIN levels : Merging(levels, merge, a, b, written, old)
  BY SwapMergedIs
<1>5. ASSUME NEW r \in new PROVE \E i \in DOMAIN levels : r = levels[i] /\ r.stored = "file"
  <2>1. PICK j \in DOMAIN levels : r = levels[j]
    BY DEF Range
  <2>2. PICK i \in a..b : Id(levels[j]) = Id(levels[i])
    BY <1>4, <2>1 DEF Merging, Id
  <2>3. i \in DOMAIN levels
    BY <1>2, <2>2, ListProperties DEF LevelList
  <2>4. i = j
    BY <1>2, <2>2, <2>3, IdsDiffer
  <2> QED  BY <1>4, <2>1, <2>2, <2>4 DEF Merging
<1>6. removing' \ removing \subseteq new
  BY <1>1
<1> HIDE DEF new
<1>7. IsFiniteSet(removing' \ removing)
  BY <1>3, <1>6, FS_Subset
<1> QED  BY <1>1, <1>5, <1>6, <1>7

LEMMA StepKeepsFits ==
    ASSUME MapInv, RemovedFits, [Next]_vars
    PROVE  RemovedFits'
<1>1. written \in Nat /\ written' \in Nat /\ written <= written' /\ written' <= MaxWrites
  BY RemovingIs, LevelMapAssumption DEF RemovedFits
<1>2. LevelList(levels, written)
  BY DEF MapInv, LevelsInv
<1>3. \A r \in removing : FitsLevel(r, written') /\ r.stored = "file"
  BY <1>1, LaterLevel DEF RemovedFits
<1>4. CASE SwapMerged
  <2>1. IsFiniteSet(removing')
    <3>1. PICK new : removing' = removing \cup new /\ IsFiniteSet(new)
      <4> DEFINE gone == removing' \ removing
      <4>1. removing' = removing \cup gone /\ IsFiniteSet(gone)
        BY <1>4, RemovedByMerge
      <4> HIDE DEF gone
      <4> QED  BY <4>1
    <3>2. IsFiniteSet(removing)
      BY DEF RemovedFits
    <3> QED  BY <3>1, <3>2, FS_Union
  <2>2. \A i \in DOMAIN levels : FitsLevel(levels[i], written')
    BY <1>1, <1>2, LaterLevel DEF LevelList
  <2> QED  BY <1>1, <1>3, <1>4, <2>1, <2>2, RemovedByMerge DEF RemovedFits
<1>5. CASE removing' \subseteq removing
  <2>1. IsFiniteSet(removing')
    BY <1>5, FS_Subset DEF RemovedFits
  <2> QED  BY <1>1, <1>3, <1>5, <2>1 DEF RemovedFits
<1> QED  BY <1>4, <1>5, RemovingIs

(* A level that has its files holds nothing newer than a start would show.  *)
LEMMA FileIsDurable ==
    ASSUME MapInv, ListsInv, NEW i \in DOMAIN levels, levels[i].stored = "file",
           NEW k \in DOMAIN levels[i].profiles
    PROVE  /\ levels[i].profiles[k].ver <= StoredNow(k).ver
           /\ StoredNow(k).ver = levels[i].profiles[k].ver =>
                  Expires(levels[i].profiles[k], StoredNow(k), old)
<1> DEFINE n == Len(levels)
           two == Disk(levels)
<1>1. LevelList(levels, written) /\ written \in Nat
  BY DEF MapInv, LevelsInv
<1>2. /\ n \in Nat /\ DOMAIN levels = 1..n /\ DOMAIN two = 1..n
      /\ \A j \in 1..n : two[j] = Stored(levels[j])
  BY <1>1, ContentsAre
<1>3. \A j \in 1..n : FitsLevel(levels[j], written) /\ Agrees(levels[j], old)
  BY <1>1, <1>2 DEF LevelList, ListsInv
<1>4. StoredNow(k) = Search(two, k)
  BY DEF StoredNow
<1> HIDE DEF n, two
<1>5. i \in 1..n /\ two[i] = levels[i].profiles
  BY <1>2, <1>3, StoredIs
<1>6. PICK m \in 1..n : FoundAt(two, k, m)
  BY <1>2, <1>5, FoundOrAbsent DEF Absent
<1>7. StoredNow(k) = two[m][k] /\ k \in DOMAIN two[m] /\ ~(i < m)
  BY <1>2, <1>4, <1>5, <1>6, SearchFound DEF FoundAt
<1>8. CASE m = i
  <2>1. StoredNow(k) = levels[i].profiles[k]
    BY <1>5, <1>7, <1>8
  <2>2. levels[i].profiles[k] \in [ver : 1..written, erased : BOOLEAN]
    BY <1>3, <1>5 DEF FitsLevel, IsProfiles
  <2> QED  BY <1>1, <2>1, <2>2, ExpiresSame
<1>9. CASE m < i
  <2>1. k \in DOMAIN levels[m].profiles /\ Expires(levels[m].profiles[k], two[m][k], old)
    <3>1. /\ DOMAIN Stored(levels[m]) = IF levels[m].stored = "memory" THEN {} ELSE DOMAIN levels[m].profiles
          /\ \A j \in DOMAIN Stored(levels[m]) : Expires(levels[m].profiles[j], Stored(levels[m])[j], old)
      BY <1>3, StoredIs
    <3> QED  BY <1>2, <1>7, <3>1
  <2>2. levels[i].profiles[k].ver < levels[m].profiles[k].ver
    BY <1>2, <1>5, <1>9, <2>1 DEF ListsInv, NewestFirst, NewerThan
  <2>3. /\ levels[i].profiles[k] \in [ver : 1..written, erased : BOOLEAN]
        /\ levels[m].profiles[k] \in [ver : 1..written, erased : BOOLEAN]
    BY <1>3, <1>5, <2>1 DEF FitsLevel, IsProfiles
  <2> QED  BY <1>1, <1>7, <2>1, <2>2, <2>3 DEF Expires
<1> QED  BY <1>2, <1>5, <1>7, <1>8, <1>9

(* What a start would show may only get newer or expire.                   *)
KeepsStored ==
    \A k \in Key :
        /\ StoredNow(k).ver <= StoredNow(k)'.ver
        /\ StoredNow(k)'.ver = StoredNow(k).ver => Expires(StoredNow(k), StoredNow(k)', old')

LEMMA OlderStill ==
    ASSUME MapInv, ListsInv, MapInv', ListsInv', KeepsStored, old <= old',
           NEW p, NEW last \in Nat, IsProfiles(p, last), NEW k \in DOMAIN p,
           p[k].ver <= StoredNow(k).ver,
           StoredNow(k).ver = p[k].ver => Expires(p[k], StoredNow(k), old)
    PROVE  /\ p[k].ver <= StoredNow(k)'.ver
           /\ StoredNow(k)'.ver = p[k].ver => Expires(p[k], StoredNow(k)', old')
<1>1. k \in Key /\ p[k].ver \in Nat
  BY DEF IsProfiles
<1>2. StoredNow(k).ver \in Nat /\ StoredNow(k)'.ver \in Nat /\ old \in Nat /\ old' \in Nat
  BY DurableNow, DurableNext DEF MapInv, LevelsInv
<1>3. /\ StoredNow(k).ver <= StoredNow(k)'.ver
      /\ StoredNow(k)'.ver = StoredNow(k).ver => Expires(StoredNow(k), StoredNow(k)', old')
  BY <1>1 DEF KeepsStored
<1>4. ASSUME StoredNow(k)'.ver = p[k].ver PROVE Expires(p[k], StoredNow(k)', old')
  <2>1. StoredNow(k).ver = p[k].ver /\ StoredNow(k)'.ver = StoredNow(k).ver
    BY <1>1, <1>2, <1>3, <1>4
  <2>2. Expires(p[k], StoredNow(k), old')
    BY <1>1, <1>2, <2>1, ExpiresLater
  <2> QED  BY <1>3, <2>1, <2>2, ExpiresOn
<1> QED  BY <1>1, <1>2, <1>3, <1>4

LEMMA StepKeepsOlder ==
    ASSUME MapInv, ListsInv, MapInv', ListsInv', RemovedFits, RemovedIsOlder, [Next]_vars,
           KeepsStored, old <= old'
    PROVE  RemovedIsOlder'
<1>1. written \in Nat
  BY DEF MapInv, LevelsInv
<1>2. ASSUME NEW r \in removing, NEW k \in DOMAIN r.profiles
      PROVE  /\ r.profiles[k].ver <= StoredNow(k)'.ver
             /\ StoredNow(k)'.ver = r.profiles[k].ver => Expires(r.profiles[k], StoredNow(k)', old')
  BY <1>1, OlderStill DEF RemovedFits, RemovedIsOlder, FitsLevel
<1>3. ASSUME NEW i \in DOMAIN levels, levels[i].stored = "file", NEW k \in DOMAIN levels[i].profiles
      PROVE  /\ levels[i].profiles[k].ver <= StoredNow(k)'.ver
             /\ StoredNow(k)'.ver = levels[i].profiles[k].ver =>
                    Expires(levels[i].profiles[k], StoredNow(k)', old')
  <2>1. IsProfiles(levels[i].profiles, written)
    BY DEF MapInv, LevelsInv, LevelList, FitsLevel
  <2> QED  BY <1>1, <1>3, <2>1, FileIsDurable, OlderStill
<1>4. CASE SwapMerged
  <2>1. ASSUME NEW r \in removing', NEW k \in DOMAIN r.profiles
        PROVE  /\ r.profiles[k].ver <= StoredNow(k)'.ver
               /\ StoredNow(k)'.ver = r.profiles[k].ver => Expires(r.profiles[k], StoredNow(k)', old')
    <3>1. CASE r \in removing
      BY <1>2, <3>1
    <3>2. CASE r \notin removing
      <4>1. PICK i \in DOMAIN levels : r = levels[i] /\ r.stored = "file"
        BY <1>4, <2>1, <3>2, RemovedByMerge
      <4> QED  BY <1>3, <4>1
    <3> QED  BY <3>1, <3>2
  <2> QED  BY <2>1 DEF RemovedIsOlder, StoredNow
<1>5. CASE removing' \subseteq removing
  BY <1>2, <1>5 DEF RemovedIsOlder, StoredNow
<1> QED  BY <1>4, <1>5, RemovingIs

-----------------------------------------------------------------------------
(* What each step is to a profile store.                                   *)

Life ==
    CASE status = "down" -> "stopped" [] status \in {"crashed", "torn"} -> status
      [] OTHER -> "running"

LEMMA VisibleIs ==
    ASSUME MapInv
    PROVE  Visible = [k \in Key |-> ShownNow(k)] /\ OnDisk = [k \in Key |-> StoredNow(k)]
<1>1. LevelList(levels, written)
  BY DEF MapInv, LevelsInv
<1>2. \A k \in Key : Search(<<rw>> \o Contents(levels), k) = Shown(rw, levels, k)
  BY <1>1, ShownIs
<1>3. OnDisk = [k \in Key |-> Search(Disk(levels), k)]
  BY DEF OnDisk, Disk, Stored
<1> QED  BY <1>2, <1>3 DEF Visible, ShownNow, StoredNow

LEMMA VisibleNext ==
    ASSUME MapInv'
    PROVE  Visible' = [k \in Key |-> ShownNow(k)'] /\ OnDisk' = [k \in Key |-> StoredNow(k)']
<1>1. LevelList(levels', written')
  BY DEF MapInv, LevelsInv
<1>2. \A k \in Key : Search(<<rw'>> \o Contents(levels'), k) = Shown(rw', levels', k)
  BY <1>1, ShownIs
<1>3. OnDisk' = [k \in Key |-> Search(Disk(levels'), k)]
  BY DEF OnDisk, Disk, Stored
<1> QED  BY <1>2, <1>3 DEF Visible, ShownNow, StoredNow

LEMMA ShownBound ==
    ASSUME MapInv, NEW k
    PROVE  ShownNow(k).ver \in 0..written
<1>1. LevelList(levels, written) /\ IsProfiles(rw, written) /\ written \in Nat
  BY DEF MapInv, LevelsInv
<1>2. CASE k \in DOMAIN rw
  <2>1. rw[k] \in [ver : 1..written, erased : BOOLEAN]
    BY <1>1, <1>2 DEF IsProfiles
  <2> QED  BY <1>1, <1>2, <2>1 DEF ShownNow, Shown
<1>3. CASE k \notin DOMAIN rw
  <2> DEFINE c == Contents(levels)
             n == Len(levels)
  <2>1. /\ n \in Nat /\ DOMAIN c = 1..n /\ DOMAIN levels = 1..n
        /\ \A i \in 1..n : c[i] = levels[i].profiles
    BY <1>1, ContentsAre
  <2> HIDE DEF c, n
  <2>2. ShownNow(k) = Search(c, k)
    BY <1>3 DEF ShownNow, Shown, c
  <2>3. CASE Absent(c, k)
    <3>1. Search(c, k).ver = 0
      BY <2>3, SearchAbsent DEF Nothing
    <3> QED  BY <1>1, <2>2, <3>1
  <2>4. ASSUME NEW m \in 1..n, FoundAt(c, k, m) PROVE Search(c, k).ver \in 0..written
    <3>1. Search(c, k) = c[m][k] /\ k \in DOMAIN c[m]
      BY <2>1, <2>4, SearchFound DEF FoundAt
    <3>2. IsProfiles(c[m], written)
      BY <1>1, <2>1 DEF LevelList, FitsLevel
    <3>3. c[m][k] \in [ver : 1..written, erased : BOOLEAN]
      BY <3>1, <3>2 DEF IsProfiles
    <3> QED  BY <1>1, <3>1, <3>3
  <2> QED  BY <2>1, <2>2, <2>3, <2>4, FoundOrAbsent
<1> QED  BY <1>2, <1>3

StoreStep == [Store!StoreNext]_(Store!storeVars)

LEMMA SameIsStutter ==
    ASSUME MapInv, MapInv', \A k \in Key : ShownNow(k)' = ShownNow(k) /\ StoredNow(k)' = StoredNow(k),
           UNCHANGED <<old, Life, removing>>
    PROVE  StoreStep
<1>1. UNCHANGED <<Visible, OnDisk, Removed>>
  BY VisibleIs, VisibleNext DEF Removed
<1> QED  BY <1>1 DEF StoreStep, Store!storeVars, Life, Removed

LEMMA RewritesPersist ==
    ASSUME MapInv, MapInv', ListsInv, ListsInv', Rewrites, UNCHANGED <<old, status>>, ~Down,
           RemovedFits'
    PROVE  StoreStep
<1>1. Life = "running" /\ UNCHANGED Life
  BY DEF Life, Down
<1>2. ASSUME NEW k \in Key
      PROVE  /\ Expires(ShownNow(k), ShownNow(k)', old)
             /\ StoredNow(k).ver <= StoredNow(k)'.ver /\ StoredNow(k)'.ver <= ShownNow(k).ver
             /\ StoredNow(k)'.ver = ShownNow(k).ver => Expires(ShownNow(k), StoredNow(k)', old)
             /\ StoredNow(k)'.ver = StoredNow(k).ver => Expires(StoredNow(k), StoredNow(k)', old)
  <2>1. /\ Expires(ShownNow(k), ShownNow(k)', old)
        /\ StoredNow(k).ver <= StoredNow(k)'.ver
        /\ StoredNow(k)'.ver = StoredNow(k).ver => Expires(StoredNow(k), StoredNow(k)', old)
    BY DEF Rewrites
  <2>2. /\ StoredNow(k)'.ver <= ShownNow(k)'.ver
        /\ StoredNow(k)'.ver = ShownNow(k)'.ver => Expires(ShownNow(k)', StoredNow(k)', old)
    BY DurableNext
  <2>3. ShownNow(k)'.ver = ShownNow(k).ver
    BY <2>1 DEF Expires
  <2>4. StoredNow(k)'.ver = ShownNow(k).ver => Expires(ShownNow(k), StoredNow(k)', old)
    BY <2>1, <2>2, <2>3, ExpiresOn
  <2> QED  BY <2>1, <2>2, <2>3, <2>4
<1>3. ASSUME NEW k \in Key
      PROVE  /\ Visible[k] = ShownNow(k) /\ Visible'[k] = ShownNow(k)'
             /\ OnDisk[k] = StoredNow(k) /\ OnDisk'[k] = StoredNow(k)'
  BY VisibleIs, VisibleNext
<1>4. Removed' \subseteq Key
  BY DEF RemovedFits, Removed, FitsLevel, IsProfiles
<1>5. Store!Persist
  BY <1>1, <1>2, <1>3, <1>4, ExpiresIs DEF Store!Persist, Life, Removed
<1> QED  BY <1>1, <1>5 DEF StoreStep, Store!StoreNext, Life

LEMMA WriteIsWrite ==
    ASSUME MapInv, MapInv', ListsInv, NEW k \in Key, NEW erased \in BOOLEAN, Put(k, erased)
    PROVE  StoreStep
<1>1. /\ written < MaxWrites /\ UNCHANGED <<old, status, removing>> /\ ~Down
  BY DEF Put
<1>2. Life = "running" /\ UNCHANGED Life
  BY <1>1 DEF Life, Down
<1> DEFINE entry == [ver |-> written + 1, erased |-> erased]
<1>3. /\ ShownNow(k)' = entry
      /\ \A j : j # k => ShownNow(j)' = ShownNow(j)
      /\ \A j : StoredNow(j)' = StoredNow(j)
  BY PutLists
<1>4. written \in Nat /\ MaxWrites \in Nat
  BY LevelMapAssumption DEF MapInv, LevelsInv
<1>5. entry \in [ver : 1..MaxWrites, erased : BOOLEAN] /\ entry.ver = written + 1
  BY <1>1, <1>4
<1> HIDE DEF entry
<1>6. Visible' = [Visible EXCEPT ![k] = entry] /\ Visible'[k] = entry
  BY <1>3, VisibleIs, VisibleNext
<1>7. \A j \in Key : Visible[j].ver < entry.ver
  <2>1. \A j \in Key : Visible[j].ver \in 0..written
    BY VisibleIs, ShownBound
  <2> QED  BY <1>4, <1>5, <2>1
<1>8. UNCHANGED OnDisk
  BY <1>3, VisibleIs, VisibleNext
<1>9. Store!Write(k)
  BY <1>1, <1>2, <1>5, <1>6, <1>7, <1>8 DEF Store!Write, Store!Entry, Life, Removed
<1> QED  BY <1>2, <1>9 DEF StoreStep, Store!StoreNext, Life

LEMMA TakenIsStutter ==
    ASSUME MapInv, MapInv', ListsInv, Exchange(rw), UNCHANGED <<old, written, removing>>,
           status \in {"up", "stopping"}, status' \in {"stopping", "dumping"}
    PROVE  ListsInv' /\ StoreStep
<1>1. /\ written' \in Nat /\ written <= written' /\ IsProfiles(rw, written')
      /\ NewestFirst(rw, levels)
  BY DEF MapInv, LevelsInv, ListsInv
<1>2. ListsInv' /\ \A k : ShownNow(k)' = ShownNow(k) /\ StoredNow(k)' = StoredNow(k)
  BY <1>1, ExchangeLists DEF ShownNow
<1>3. UNCHANGED Life
  BY DEF Life
<1> QED  BY <1>2, <1>3, SameIsStutter

LEMMA CrashIsCrash ==
    ASSUME MapInv, MapInv', StoreInv, Crash
    PROVE  ListsInv' /\ StoreStep
<1>1. /\ ~Down /\ status' = "crashed" /\ rw' = NoProfiles /\ levels' = Files
      /\ UNCHANGED <<old, removing>>
  BY DEF Crash
<1>2. ListsInv' /\ \A k : ShownNow(k)' = StoredNow(k) /\ StoredNow(k)' = StoredNow(k)
  BY <1>1, LoadedLists DEF StoreInv
<1>3. Visible' = OnDisk /\ OnDisk' = OnDisk
  BY <1>2, VisibleIs, VisibleNext
<1>4. Life = "running" /\ Life' = "crashed"
  BY <1>1 DEF Life, Down
<1>5. Store!Crash
  BY <1>1, <1>3, <1>4 DEF Store!Crash, Life, Removed
<1> QED  BY <1>2, <1>5 DEF StoreStep, Store!StoreNext

LEMMA StopIsStop ==
    ASSUME MapInv, MapInv', StoreInv, AllMerged
    PROVE  ListsInv' /\ StoreStep
<1>1. /\ status = "merging" /\ status' = "down" /\ rw' = NoProfiles /\ levels' = Files
      /\ removing = {} /\ UNCHANGED <<old, removing>>
  BY DEF AllMerged, counters
<1>2. ListsInv' /\ \A k : ShownNow(k)' = StoredNow(k) /\ StoredNow(k)' = StoredNow(k)
  BY <1>1, LoadedLists DEF StoreInv
<1>3. \A k : ShownNow(k) = StoredNow(k)
  <2>1. rw = NoProfiles /\ \A i \in DOMAIN levels : levels[i].stored = "file"
    BY <1>1 DEF StoreInv, StatusInv
  <2>2. Disk(levels) = Contents(levels)
    BY <2>1, AllFiles
  <2> QED  BY <2>1, <2>2, NoProfilesIs DEF ShownNow, StoredNow, Shown
<1>4. OnDisk = Visible /\ Visible' = Visible /\ OnDisk' = OnDisk
  BY <1>2, <1>3, VisibleIs, VisibleNext
<1>5. Life = "running" /\ Life' = "stopped"
  BY <1>1 DEF Life
<1>6. Store!Stop
  BY <1>1, <1>4, <1>5 DEF Store!Stop, Life, Removed
<1> QED  BY <1>2, <1>6 DEF StoreStep, Store!StoreNext

LEMMA StartIsStart ==
    ASSUME MapInv, MapInv', ListsInv, Start
    PROVE  ListsInv' /\ StoreStep
<1>1. /\ status \in {"down", "crashed"} /\ status' = "up" /\ removing = {}
      /\ UNCHANGED <<rw, levels, old, removing>>
  BY DEF Start, counters
<1>2. ListsInv' /\ \A k : ShownNow(k)' = ShownNow(k) /\ StoredNow(k)' = StoredNow(k)
  BY <1>1 DEF ListsInv, ShownNow, StoredNow
<1>3. Visible' = Visible /\ OnDisk' = OnDisk
  BY <1>2, VisibleIs, VisibleNext
<1>4. Life \in {"stopped", "crashed"} /\ Life' = "running"
  BY <1>1 DEF Life
<1>5. Store!Start
  BY <1>1, <1>3, <1>4 DEF Store!Start, Life, Removed
<1> QED  BY <1>2, <1>5 DEF StoreStep, Store!StoreNext

LEMMA AgeIsAge ==
    ASSUME MapInv, MapInv', ListsInv, GrowOld
    PROVE  ListsInv' /\ StoreStep
<1>1. /\ ListsInv' /\ old < old'
      /\ \A k : ShownNow(k)' = ShownNow(k) /\ StoredNow(k)' = StoredNow(k)
  BY GrowOldLists
<1>2. Visible' = Visible /\ OnDisk' = OnDisk
  BY <1>1, VisibleIs, VisibleNext
<1>3. status' = status /\ removing' = removing /\ old' > old
  <2>1. old \in Nat /\ old' = old + 1 /\ status' = status /\ removing' = removing
    BY DEF GrowOld, MapInv, LevelsInv
  <2> QED  BY <2>1
<1>4. Store!Age
  BY <1>2, <1>3 DEF Store!Age, Removed
<1> QED  BY <1>1, <1>4 DEF StoreStep, Store!StoreNext

(* A start among what was being removed: each key is found in such a level  *)
(* or where it would be found without them.                                *)
LEMMA LoadedShows ==
    ASSUME MapInv, StoreInv, RemovedFits, StartAmongRemoved, NEW k
    PROVE  LET shows == Search(Contents(levels'), k)
           IN  \/ shows = StoredNow(k)
               \/ \E r \in removing : k \in DOMAIN r.profiles /\ shows = r.profiles[k]
<1> DEFINE S == Range(levels) \cup removing
           n == Cardinality(S)
           new == Contents(levels')
           now == Contents(levels)
<1>1. LevelList(levels, written) /\ IsFiniteSet(S)
  BY RangeFinite, FS_Union DEF MapInv, LevelsInv, LevelList, RemovedFits
<1>2. /\ levels' \in [1..n -> S] /\ S \subseteq Range(levels')
      /\ \A i, j \in DOMAIN levels' : i < j => ~Before(levels'[j], levels'[i])
  BY DEF StartAmongRemoved, Loaded
<1>3. n \in Nat /\ DOMAIN levels' = 1..n
  BY <1>1, <1>2, FS_CardinalityType
<1> HIDE DEF n
<1>4. DOMAIN new = 1..n /\ \A i \in 1..n : new[i] = levels'[i].profiles
  BY <1>3 DEF Contents
<1>5. /\ Len(levels) \in Nat /\ DOMAIN levels = 1..Len(levels) /\ DOMAIN now = 1..Len(levels)
      /\ \A i \in 1..Len(levels) : now[i] = levels[i].profiles
  BY <1>1, ContentsAre
<1>6. StoredNow(k) = Search(now, k)
  <2>1. \A i \in DOMAIN levels : levels[i].stored = "file"
    BY DEF StoreInv, StatusInv, StartAmongRemoved
  <2> QED  BY <2>1, AllFiles DEF StoredNow
<1> HIDE DEF new, now
<1>7. \A i \in DOMAIN levels : \E j \in 1..n : levels'[j] = levels[i]
  BY <1>2, <1>3 DEF Range
<1>8. CASE Absent(new, k)
  <2>1. Absent(now, k)
    BY <1>4, <1>5, <1>7, <1>8 DEF Absent
  <2> QED  BY <1>6, <1>8, <2>1, SearchAbsent DEF new
<1>9. ASSUME NEW m \in 1..n, FoundAt(new, k, m)
      PROVE  \/ Search(new, k) = StoredNow(k)
             \/ \E r \in removing : k \in DOMAIN r.profiles /\ Search(new, k) = r.profiles[k]
  <2>1. Search(new, k) = levels'[m].profiles[k] /\ k \in DOMAIN levels'[m].profiles
    BY <1>3, <1>4, <1>9, SearchFound DEF FoundAt
  <2>2. CASE levels'[m] \in removing
    BY <2>1, <2>2
  <2>3. ASSUME NEW i \in DOMAIN levels, levels'[m] = levels[i]
        PROVE  Search(new, k) = StoredNow(k)
    <3>1. i \in 1..Len(levels) /\ k \in DOMAIN now[i]
      BY <1>5, <2>1, <2>3
    <3>2. PICK first \in 1..Len(levels) : FoundAt(now, k, first)
      BY <1>5, <3>1, FoundOrAbsent DEF Absent
    <3>3. ~(i < first) /\ k \in DOMAIN levels[first].profiles /\ StoredNow(k) = now[first][k]
      BY <1>5, <1>6, <3>1, <3>2, SearchFound DEF FoundAt
    <3>4. ~(first < i)
      <4> SUFFICES ASSUME first < i PROVE FALSE
        OBVIOUS
      <4>1. Before(levels[first], levels[i])
        BY <1>1, <1>5, <3>2 DEF LevelList, InOrder
      <4>2. PICK j \in 1..n : levels'[j] = levels[first]
        BY <1>5, <1>7
      <4>3. ~(j < m)
        BY <1>3, <1>4, <1>9, <3>3, <4>2 DEF FoundAt
      <4>4. ~(m < j)
        BY <1>2, <1>3, <2>3, <4>1, <4>2
      <4>5. j = m
        BY <1>3, <4>3, <4>4
      <4>6. ~Before(levels[i], levels[i])
        BY <1>1, BeforeOrders DEF LevelList, FitsLevel
      <4> QED  BY <2>3, <4>1, <4>2, <4>5, <4>6
    <3>5. first = i
      BY <3>1, <3>3, <3>4
    <3> QED  BY <1>5, <2>1, <2>3, <3>1, <3>3, <3>5
  <2>4. levels'[m] \in S
    BY <1>2
  <2> QED  BY <2>2, <2>3, <2>4 DEF Range
<1> QED  BY <1>3, <1>4, <1>8, <1>9, FoundOrAbsent DEF new

LEMMA TornIsTorn ==
    ASSUME MapInv, StoreInv, RemovedFits, RemovedIsOlder, StartAmongRemoved
    PROVE  StoreStep
<1>1. /\ status = "crashed" /\ status' = "torn" /\ removing' = {} /\ UNCHANGED <<rw, old>>
      /\ rw = NoProfiles /\ \A i \in DOMAIN levels : levels[i].stored = "file"
  BY DEF StartAmongRemoved, StoreInv, StatusInv
<1>2. /\ levels' \in Seq(Range(levels) \cup removing)
      /\ \A i \in DOMAIN levels' : levels'[i] \in Range(levels) \cup removing
  <2>1. Cardinality(Range(levels) \cup removing) \in Nat
    BY RangeFinite, FS_Union, FS_CardinalityType DEF MapInv, LevelsInv, LevelList, RemovedFits
  <2>2. levels' \in [1..Cardinality(Range(levels) \cup removing) -> Range(levels) \cup removing]
    BY DEF StartAmongRemoved, Loaded
  <2> QED  BY <2>1, <2>2, SeqDef
<1>3. \A i \in DOMAIN levels' : levels'[i].stored = "file"
  BY <1>1, <1>2 DEF Range, RemovedFits
<1>4. Contents(levels') \in Seq({level.profiles : level \in Range(levels) \cup removing})
  <2>1. /\ Len(levels') \in Nat
        /\ levels' \in [1..Len(levels') -> Range(levels) \cup removing]
    BY <1>2, LenProperties
  <2>2. Contents(levels') \in [1..Len(levels') -> {level.profiles : level \in Range(levels) \cup removing}]
    BY <2>1 DEF Contents
  <2> QED  BY <2>1, <2>2, SeqDef
<1>5. \A k : Search(<<rw'>> \o Contents(levels'), k) = Search(Contents(levels'), k)
  BY <1>1, <1>4, SearchFront, NoProfilesIs
<1>6. Visible' = [k \in Key |-> Search(Contents(levels'), k)]
  BY <1>5 DEF Visible
<1>7. OnDisk' = Visible'
  <2>1. OnDisk' = [k \in Key |-> Search(Disk(levels'), k)]
    BY DEF OnDisk, Disk, Stored
  <2> QED  BY <1>3, <1>6, <2>1, AllFiles
<1>8. \A k \in Key : Visible[k] = StoredNow(k)
  <2>1. \A k \in Key : Visible[k] = ShownNow(k)
    BY VisibleIs
  <2> QED  BY <1>1, <2>1, AllFiles, NoProfilesIs DEF ShownNow, StoredNow, Shown
<1>9. ASSUME NEW k \in Key
      PROVE  \/ Visible'[k] = Visible[k]
             \/ /\ k \in Removed
                /\ Visible'[k] \in Store!Entry
                /\ Visible'[k].ver < Visible[k].ver \/ Store!SameOrExpired(Visible'[k], Visible[k])
  <2>1. Visible'[k] = Search(Contents(levels'), k) /\ Visible[k] = StoredNow(k)
    BY <1>6, <1>8
  <2>2. ASSUME NEW r \in removing, k \in DOMAIN r.profiles, Visible'[k] = r.profiles[k]
        PROVE  /\ k \in Removed /\ Visible'[k] \in Store!Entry
               /\ Visible'[k].ver < Visible[k].ver \/ Expires(Visible'[k], Visible[k], old)
    <3>1. k \in Removed
      BY <2>2 DEF Removed
    <3>2. r.profiles[k] \in [ver : 1..written, erased : BOOLEAN] /\ written \in Nat
      BY <2>2 DEF RemovedFits, FitsLevel, IsProfiles, MapInv, LevelsInv
    <3>3. r.profiles[k] \in [ver : 1..MaxWrites, erased : BOOLEAN]
      BY <3>2, LevelMapAssumption DEF RemovedFits
    <3>4. StoredNow(k).ver \in Nat
      BY DurableNow DEF StoreInv
    <3>5. /\ r.profiles[k].ver <= StoredNow(k).ver
          /\ StoredNow(k).ver = r.profiles[k].ver => Expires(r.profiles[k], StoredNow(k), old)
      BY <2>2 DEF RemovedIsOlder
    <3>6. r.profiles[k].ver < StoredNow(k).ver \/ Expires(r.profiles[k], StoredNow(k), old)
      BY <3>2, <3>4, <3>5
    <3> QED  BY <2>1, <2>2, <3>1, <3>3, <3>6 DEF Store!Entry
  <2> QED  BY <2>1, <2>2, LoadedShows, ExpiresIs
<1>10. Life = "crashed" /\ Life' = "torn"
  BY <1>1 DEF Life
<1>11. Removed' = {}
  BY <1>1 DEF Removed
<1>12. Store!StartTorn
  BY <1>1, <1>7, <1>9, <1>10, <1>11 DEF Store!StartTorn, Life, Removed
<1> QED  BY <1>12 DEF StoreStep, Store!StoreNext

(* After such a start nothing happens in the model but time.               *)
Torn ==
    /\ status = "torn" /\ old \in Nat
    /\ dumps = {} /\ merge.step = "none" /\ removing = {}
    /\ \A c \in Client : txn[c] = Outside

LEMMA TornRests ==
    ASSUME Torn, [Next]_vars
    PROVE  Torn' /\ StoreStep
<1>1. CASE GrowOld /\ UNCHANGED transactions
  <2>1. /\ UNCHANGED <<rw, levels, dumps, merge, removing, status, txn>>
        /\ old \in Nat /\ old' \in Nat /\ old' > old
    BY <1>1 DEF GrowOld, Torn, tasks, transactions
  <2>2. Torn'
    BY <2>1 DEF Torn
  <2>3. UNCHANGED <<Visible, OnDisk, Life, Removed>>
    BY <2>1 DEF Visible, OnDisk, Life, Removed
  <2>4. Store!Age
    BY <2>1, <2>3 DEF Store!Age, Life, Removed
  <2> QED  BY <2>2, <2>4 DEF StoreStep, Store!StoreNext
<1>2. CASE UNCHANGED vars
  <2>1. UNCHANGED <<rw, levels, dumps, merge, removing, status, txn, old>>
    BY <1>2 DEF vars, levelVars, transactions
  <2>2. Torn'
    BY <2>1 DEF Torn
  <2>3. UNCHANGED <<Visible, OnDisk, Life, Removed>>
    BY <2>1 DEF Visible, OnDisk, Life, Removed
  <2> QED  BY <2>1, <2>2, <2>3 DEF StoreStep, Store!storeVars, Life, Removed
<1>3. ASSUME NEW c \in Client PROVE ~ClientNext(c)
  <2>1. txn[c].step = "outside" /\ status = "torn"
    BY DEF Torn, Outside
  <2> QED  BY <2>1 DEF ClientNext, GetTransaction, GetBackgroundTransaction, WaitBackground, Active,
       ReadBegin, ReadEnd, Write, WaitForRoom, EndTransaction, IsOpen, Leave, Lock, Unlock, Release
<1>4. ~TaskNext
  BY DEF Torn, TaskNext, Dump, Merge, BeginMerge, InterruptMerge, FailMerge, SwapMerged, CountMerged,
     Recheck
<1>5. ~(Deactivate \/ WaitObject \/ Start \/ StartAmongRemoved \/ AllDumped \/ AllMerged \/ Crash)
  BY DEF Torn, Deactivate, WaitObject, Start, StartAmongRemoved, AllDumped, AllMerged, Crash, Down
<1> QED  BY <1>1, <1>2, <1>3, <1>4, <1>5 DEF Next, ProcessNext, Finish

LEMMA StepKeepsStored ==
    ASSUME MapInv, MapInv', ListsInv, StoreStep, ~TornMap'
    PROVE  KeepsStored /\ old <= old'
<1>1. ASSUME NEW k \in Key
      PROVE  OnDisk[k] = StoredNow(k) /\ OnDisk'[k] = StoredNow(k)'
  BY VisibleIs, VisibleNext
<1>2. ASSUME UNCHANGED OnDisk, old <= old' PROVE KeepsStored /\ old <= old'
  <2>1. ASSUME NEW k \in Key PROVE StoredNow(k)' = StoredNow(k)
    BY <1>1, <1>2
  <2>2. ASSUME NEW k \in Key PROVE StoredNow(k).ver \in Int
    <3>1. StoredNow(k).ver \in Nat
      BY DurableNow
    <3> QED  BY <3>1
  <2> QED  BY <1>2, <2>1, <2>2, ExpiresSame DEF KeepsStored
<1>3. old \in Nat
  BY DEF MapInv, LevelsInv
<1>4. CASE Store!Persist
  <2>1. old' = old
    BY <1>4 DEF Store!Persist
  <2>2. ASSUME NEW k \in Key
        PROVE  /\ OnDisk[k].ver <= OnDisk'[k].ver
               /\ OnDisk'[k].ver = OnDisk[k].ver => Expires(OnDisk[k], OnDisk'[k], old)
    BY <1>4, ExpiresIs DEF Store!Persist
  <2>3. KeepsStored
    BY <1>1, <2>1, <2>2 DEF KeepsStored
  <2> QED  BY <1>3, <2>1, <2>3
<1>5. CASE Store!Age
  <2>1. old' > old /\ OnDisk' = OnDisk /\ old' \in Nat
    BY <1>5 DEF Store!Age, MapInv, LevelsInv
  <2> QED  BY <1>2, <1>3, <2>1
<1>6. CASE (\E k \in Key : Store!Write(k)) \/ Store!Stop \/ Store!Crash \/ Store!Start
           \/ UNCHANGED Store!storeVars
  <2>1. OnDisk' = OnDisk /\ old' = old
    BY <1>6 DEF Store!Write, Store!Stop, Store!Crash, Store!Start, Store!storeVars
  <2> QED  BY <1>2, <1>3, <2>1
<1>7. ~Store!StartTorn
  <2>1. Life' # "torn"
    BY DEF TornMap, Life
  <2> QED  BY <2>1 DEF Store!StartTorn, Life
<1> QED  BY <1>4, <1>5, <1>6, <1>7 DEF StoreStep, Store!StoreNext

LEMMA SameLists ==
    ASSUME MapInv, MapInv', ListsInv, UNCHANGED <<rw, levels, old, Life, removing>>
    PROVE  ListsInv' /\ StoreStep
<1>1. ListsInv' /\ \A k : ShownNow(k)' = ShownNow(k) /\ StoredNow(k)' = StoredNow(k)
  BY DEF ListsInv, ShownNow, StoredNow
<1> QED  BY <1>1, SameIsStutter

-----------------------------------------------------------------------------
(* Every step keeps the lists and is one of a profile store.               *)

LEMMA ClientKeepsStore ==
    ASSUME MapInv, MapInv', TransactionInv, StoreInv, NEW c \in Client, ClientNext(c)
    PROVE  StoreInv' /\ StoreStep
<1>1. status \in {"up", "stopping"} /\ status' = status
  BY ClientsAreEarly DEF StoreInv
<1>2. StatusInv' /\ UNCHANGED Life
  BY <1>1 DEF StatusInv, Life
<1>3. CASE Write(c)
  <2>1. PICK erased \in BOOLEAN : Put(txn[c].key, erased)
    BY <1>3 DEF Write
  <2>2. txn[c].key \in Key
    BY <1>3 DEF Write, IsOpen, TransactionInv, ReferencesOpened
  <2>3. ListsInv'
    BY <2>1, <2>2, PutLists DEF StoreInv
  <2>4. StoreStep
    BY <2>1, <2>2, WriteIsWrite DEF StoreInv
  <2> QED  BY <1>2, <2>3, <2>4 DEF StoreInv
<1>4. CASE ~Write(c)
  <2>1. UNCHANGED <<rw, levels, old, removing>>
    <3>1. CASE GetBackgroundTransaction(c) \/ WaitForRoom(c) \/ ReadBegin(c) \/ ReadEnd(c)
      BY <3>1 DEF GetBackgroundTransaction, WaitForRoom, ReadBegin, ReadEnd, WaitBackground, Wait,
         TakeSnapshot, DropSnapshot, counters
    <3>2. CASE GetTransaction(c) \/ EndTransaction(c) \/ Leave(c)
      BY <3>2 DEF GetTransaction, EndTransaction, Leave, levelVars
    <3> QED  BY <1>4, <3>1, <3>2 DEF ClientNext
  <2> QED  BY <1>2, <2>1, SameLists DEF StoreInv
<1> QED  BY <1>3, <1>4

LEMMA TasksKeepStore ==
    ASSUME MapInv, MapInv', StoreInv, RemovedFits', TaskNext
    PROVE  StoreInv' /\ StoreStep
<1>1. StatusInv' /\ status' = status /\ rw' = rw /\ ~Down
  BY TaskKeepsStatus DEF StoreInv
<1>2. CASE QuietTask
  <2>1. UNCHANGED <<levels, old>>
    BY <1>2, QuietTasks
  <2>2. /\ \A k : ShownNow(k)' = ShownNow(k) /\ StoredNow(k)' = StoredNow(k)
        /\ ListsInv'
    BY <1>1, <2>1 DEF ListsInv, ShownNow, StoredNow, StoreInv
  <2>3. \A k \in Key : StoredNow(k).ver \in Int
    <3>1. \A k \in Key : StoredNow(k).ver \in Nat
      BY DurableNow DEF StoreInv
    <3> QED  BY <3>1
  <2>4. Rewrites
    BY <2>2, <2>3, ExpiresSame DEF Rewrites
  <2> QED  BY <1>1, <2>1, <2>2, <2>4, RewritesPersist DEF StoreInv
<1>3. CASE SwapMerged
  <2>1. ListsInv' /\ Rewrites /\ old' = old
    BY <1>3, SwapMergedLists DEF StoreInv, SwapMerged
  <2> QED  BY <1>1, <2>1, RewritesPersist DEF StoreInv
<1>4. ASSUME NEW task \in dumps, WriteLevel(task) \/ SwapLevel(task)
      PROVE  ListsInv' /\ StoreStep
  <2>1. old' = old
    BY <1>4 DEF WriteLevel, SwapLevel, counters
  <2>2. ListsInv' /\ Rewrites
    BY <1>4, WriteLevelLists, SwapLevelLists DEF StoreInv
  <2> QED  BY <1>1, <2>1, <2>2, RewritesPersist DEF StoreInv
<1> QED  BY <1>1, <1>2, <1>3, <1>4, TasksAre DEF StoreInv

LEMMA ProcessKeepsStore ==
    ASSUME MapInv, MapInv', StoreInv, ProcessNext, StopFindsNoCall, ~TornMap'
    PROVE  StoreInv' /\ StoreStep
<1>1. StatusInv' /\ ListsInv
  BY ProcessKeepsStatus DEF StoreInv
<1>2. CASE Deactivate \/ WaitObject
  <2>1. /\ Exchange(rw) /\ status \in {"up", "stopping"} /\ status' \in {"stopping", "dumping"}
        /\ UNCHANGED <<old, written, removing>>
    BY <1>2 DEF Deactivate, WaitObject, counters
  <2> QED  BY <1>1, <2>1, TakenIsStutter DEF StoreInv
<1>3. CASE Start
  BY <1>1, <1>3, StartIsStart DEF StoreInv
<1>4. CASE GrowOld
  BY <1>1, <1>4, AgeIsAge DEF StoreInv
<1>5. CASE AllDumped
  <2>1. UNCHANGED <<rw, levels, old, Life, removing>>
    BY <1>5 DEF AllDumped, counters, Life
  <2> QED  BY <1>1, <2>1, SameLists DEF StoreInv
<1>6. CASE AllMerged
  BY <1>1, <1>6, StopIsStop DEF StoreInv
<1>7. CASE Crash
  BY <1>1, <1>7, CrashIsCrash DEF StoreInv
<1>8. ~StartAmongRemoved
  BY DEF StartAmongRemoved, TornMap
<1> QED  BY <1>2, <1>3, <1>4, <1>5, <1>6, <1>7, <1>8 DEF ProcessNext, Finish

LEMMA StepKeepsStore ==
    ASSUME MapInv, MapInv', TransactionInv, StoreInv, RemovedFits', [Next]_vars,
           [StopFindsNoCall]_vars, ~TornMap'
    PROVE  StoreInv' /\ StoreStep
<1>1. CASE UNCHANGED vars
  <2>1. UNCHANGED <<rw, levels, old, status, txn, Life, removing>>
    BY <1>1 DEF vars, levelVars, transactions, Life
  <2>2. StatusInv'
    BY <2>1 DEF StatusInv, StoreInv
  <2> QED  BY <2>1, <2>2, SameLists DEF StoreInv
<1>2. CASE ProcessNext /\ ~UNCHANGED vars
  BY <1>2, ProcessKeepsStore
<1> QED  BY <1>1, <1>2, ClientKeepsStore, TasksKeepStore DEF Next

(* The whole of it: while the process is up or may be started again.       *)
StoreMapInv == TransactionInv /\ MapInv /\ StoreInv /\ RemovedFits /\ RemovedIsOlder

LEMMA StepKeepsStoreMap ==
    ASSUME StoreMapInv, [Next]_vars, [StopFindsNoCall]_vars
    PROVE  (StoreMapInv' \/ Torn') /\ StoreStep
<1> USE DEF StoreMapInv
<1>1. status # "torn"
  BY DEF StoreInv, StatusInv
<1>2. CASE TornMap'
  <2>1. StartAmongRemoved /\ UNCHANGED transactions
    BY <1>1, <1>2, TornIsLast DEF TornMap
  <2>2. Torn'
    <3>1. /\ status' = "torn" /\ removing' = {} /\ status = "crashed"
          /\ UNCHANGED <<dumps, merge, old, txn>>
      BY <2>1 DEF StartAmongRemoved, tasks, transactions
    <3>2. dumps = {} /\ merge.step = "none" /\ old \in Nat
      BY <3>1 DEF MapInv, LevelsInv, Down
    <3>3. \A c \in Client : txn[c] = Outside
      BY <3>1 DEF StoreInv, StatusInv
    <3> QED  BY <3>1, <3>2, <3>3 DEF Torn
  <2> QED  BY <2>1, <2>2, TornIsTorn
<1>3. CASE ~TornMap'
  <2>1. MapInv' /\ TransactionInv'
    BY <1>3, StepKeepsMap, StepKeepsTransactions
  <2>2. RemovedFits'
    BY StepKeepsFits
  <2>3. StoreInv' /\ StoreStep
    BY <1>3, <2>1, <2>2, StepKeepsStore
  <2>4. KeepsStored /\ old <= old'
    BY <1>3, <2>1, <2>3, StepKeepsStored DEF StoreInv
  <2>5. RemovedIsOlder'
    BY <2>1, <2>3, <2>4, StepKeepsOlder DEF StoreInv
  <2> QED  BY <2>1, <2>2, <2>3, <2>5
<1> QED  BY <1>2, <1>3

LEMMA InitStore == Init => StoreMapInv /\ Store!StoreInit
<1> SUFFICES ASSUME Init PROVE StoreMapInv /\ Store!StoreInit
  OBVIOUS
<1>1. /\ rw = NoProfiles /\ levels = <<>> /\ status = "up" /\ old = 0 /\ removing = {} /\ written = 0
      /\ MapInv
  BY InitMap DEF Init, LevelInit
<1>2. DOMAIN levels = {}
  BY <1>1
<1>3. StoreInv
  BY <1>1, <1>2, NoProfilesIs DEF StoreInv, ListsInv, StatusInv, NewestFirst
<1>4. \A k : ShownNow(k) = Nothing /\ StoredNow(k) = Nothing
  <2>1. DOMAIN Contents(levels) = {} /\ DOMAIN Disk(levels) = {}
    BY <1>2 DEF Contents, Disk
  <2>2. \A k : Search(Contents(levels), k) = Nothing /\ Search(Disk(levels), k) = Nothing
    BY <2>1, SearchAbsent DEF Absent
  <2> QED  BY <1>1, <2>2, NoProfilesIs DEF ShownNow, StoredNow, Shown
<1>5. Nothing = Store!Nothing
  BY DEF Nothing, Store!Nothing
<1>6. Visible = [k \in Key |-> Store!Nothing] /\ OnDisk = [k \in Key |-> Store!Nothing]
  BY <1>1, <1>4, <1>5, VisibleIs
<1>7. Life = "running" /\ Removed = {}
  BY <1>1 DEF Life, Removed
<1>8. RemovedFits /\ RemovedIsOlder
  BY <1>1, FS_EmptySet, LevelMapAssumption DEF RemovedFits, RemovedIsOlder
<1>9. Store!StoreInit
  BY <1>1, <1>6, <1>7 DEF Store!StoreInit, Life, Removed
<1> QED  BY <1>1, <1>3, <1>8, <1>9, InitTransactions DEF StoreMapInv

(* The map on levels, with its dumps and merges at any moment, is a        *)
(* profile store: what it shows is what was written last, whatever is       *)
(* written to the disk keeps that, a crash loses no more than what was      *)
(* still in memory, unless files of a merge were to be removed yet: of the  *)
(* keys in them an older write may be shown; and a stop that finds no call  *)
(* in progress loses nothing.                                              *)
THEOREM StoreImplemented == Spec /\ [][StopFindsNoCall]_vars => ImplementsStore
<1>1. Init => StoreMapInv /\ Store!StoreInit
  BY InitStore
<1>2. (StoreMapInv \/ Torn) /\ [Next]_vars /\ [StopFindsNoCall]_vars =>
          (StoreMapInv' \/ Torn') /\ [Store!StoreNext]_(Store!storeVars)
  BY StepKeepsStoreMap, TornRests DEF StoreStep
<1> QED  BY <1>1, <1>2, PTL DEF Spec, ImplementsStore, Store!StoreSpec

-----------------------------------------------------------------------------
(* A transaction that has read, or has taken the lists to search them, is   *)
(* open; and what it has found or will find is what its key shows, unless   *)
(* a level was put in front of its lists meanwhile: then it may be older.   *)

Reading(c) == snapshot[c] # None \/ known[c] # None

Older(c) == Search(snapshot[c].older, txn[c].key)

Found(c) ==
    IF known[c] # None THEN known[c].entry
    ELSE IF ~snapshot[c].emptied /\ txn[c].key \in DOMAIN rw THEN rw[txn[c].key]
    ELSE Older(c)

Missed(c) == IF known[c] # None THEN known[c].missed ELSE snapshot[c].emptied

IsRead(entry, missed, shown, time) ==
    \/ Expires(entry, shown, time)
    \/ missed /\ entry.ver < shown.ver

ReadIsLast(c) ==
    /\ snapshot[c] # None =>
          /\ known[c] = None
          /\ \E S : snapshot[c] \in [older : Seq(S), emptied : BOOLEAN]
          /\ IsRead(Older(c), TRUE, ShownNow(txn[c].key), old)
    /\ Reading(c) =>
          /\ txn[c].step = "open"
          /\ IsRead(Found(c), Missed(c), ShownNow(txn[c].key), old)

ReadsInv ==
    /\ DOMAIN snapshot = Client /\ DOMAIN known = Client
    /\ \A c \in Client : ReadIsLast(c)

LEMMA IsReadOn ==
    ASSUME NEW entry, NEW missed, NEW shown, NEW shows, NEW time,
           IsRead(entry, missed, shown, time), Expires(shown, shows, time)
    PROVE  IsRead(entry, missed, shows, time)
<1>1. CASE Expires(entry, shown, time)
  BY <1>1, ExpiresOn DEF IsRead
<1>2. CASE missed /\ entry.ver < shown.ver
  <2>1. shows.ver = shown.ver
    BY DEF Expires
  <2> QED  BY <1>2, <2>1 DEF IsRead
<1> QED  BY <1>1, <1>2 DEF IsRead

SameWritable(k) ==
    /\ k \in DOMAIN rw' <=> k \in DOMAIN rw
    /\ k \in DOMAIN rw => rw'[k] = rw[k]

LEMMA ReadKept ==
    ASSUME NEW c \in Client, ReadIsLast(c), UNCHANGED <<txn[c], snapshot[c], known[c], old>>,
           \A k : snapshot[c] # None /\ k = txn[c].key => SameWritable(k),
           \A k : Reading(c) /\ k = txn[c].key => Expires(ShownNow(k), ShownNow(k)', old)
    PROVE  ReadIsLast(c)'
<1>1. (Reading(c)' <=> Reading(c)) /\ Older(c)' = Older(c) /\ Missed(c)' = Missed(c)
  BY DEF Reading, Older, Missed
<1>2. ASSUME Reading(c) PROVE Found(c)' = Found(c)
  BY <1>1, <1>2 DEF Found, Reading, SameWritable
<1>3. ASSUME Reading(c), NEW entry, NEW missed, IsRead(entry, missed, ShownNow(txn[c].key), old)
      PROVE  IsRead(entry, missed, ShownNow(txn[c].key)', old')
  <2>1. PICK k : k = txn[c].key
    OBVIOUS
  <2>2. IsRead(entry, missed, ShownNow(k), old) /\ Expires(ShownNow(k), ShownNow(k)', old)
    BY <1>3, <2>1
  <2>3. IsRead(entry, missed, ShownNow(k)', old)
    BY <2>2, IsReadOn
  <2>4. ShownNow(txn[c].key)' = ShownNow(k)'
    BY <2>1 DEF ShownNow
  <2> QED  BY <2>3, <2>4
<1>4. snapshot[c] # None => IsRead(Older(c), TRUE, ShownNow(txn[c].key), old)
  BY DEF ReadIsLast
<1>5. snapshot[c] # None => IsRead(Older(c), TRUE, ShownNow(txn[c].key)', old')
  BY <1>3, <1>4 DEF Reading
<1>6. Reading(c) => IsRead(Found(c), Missed(c), ShownNow(txn[c].key), old)
  BY DEF ReadIsLast
<1>7. Reading(c) => IsRead(Found(c), Missed(c), ShownNow(txn[c].key)', old')
  BY <1>3, <1>6
<1> QED  BY <1>1, <1>2, <1>5, <1>7 DEF ReadIsLast

LEMMA ReadsKept ==
    ASSUME ReadsInv, UNCHANGED <<rw, txn, snapshot, known, old>>,
           \A k : Expires(ShownNow(k), ShownNow(k)', old)
    PROVE  ReadsInv'
<1>1. ASSUME NEW c \in Client PROVE ReadIsLast(c)'
  <2>1. \A k : SameWritable(k)
    BY DEF SameWritable
  <2> QED  BY <2>1, ReadKept DEF ReadsInv
<1> QED  BY <1>1 DEF ReadsInv

(* Who is not in an open transaction has read nothing.                     *)
LEMMA NotOpenReads ==
    ASSUME NEW c \in Client, ReadIsLast(c), txn[c].step # "open"
    PROVE  ~Reading(c)
BY DEF ReadIsLast

(* The writable level is taken: who is between the halves of a read is left *)
(* with the older levels of its lists.                                     *)
LEMMA ReadEmptied ==
    ASSUME NEW c \in Client, ReadIsLast(c), UNCHANGED <<txn[c], known[c], old>>,
           snapshot'[c] = IF snapshot[c] = None THEN None
                          ELSE [snapshot[c] EXCEPT !.emptied = TRUE],
           \A k : Reading(c) /\ k = txn[c].key => ShownNow(k)' = ShownNow(k)
    PROVE  ReadIsLast(c)'
<1>1. ASSUME Reading(c) PROVE ShownNow(txn[c].key)' = ShownNow(txn[c].key)
  <2>1. PICK k : k = txn[c].key
    OBVIOUS
  <2>2. ShownNow(k)' = ShownNow(k)
    BY <1>1, <2>1
  <2>3. ShownNow(txn[c].key)' = ShownNow(k)'
    BY <2>1 DEF ShownNow
  <2> QED  BY <2>1, <2>2, <2>3
<1>2. CASE snapshot[c] = None
  <2>1. snapshot'[c] = None /\ (Reading(c)' <=> Reading(c))
    BY <1>2 DEF Reading
  <2>2. ASSUME Reading(c) PROVE Found(c)' = Found(c) /\ Missed(c)' = Missed(c)
    BY <1>2, <2>1, <2>2 DEF Found, Missed, Reading
  <2> QED  BY <1>1, <2>1, <2>2 DEF ReadIsLast
<1>3. CASE snapshot[c] # None
  <2>1. /\ known[c] = None /\ Reading(c)
        /\ IsRead(Older(c), TRUE, ShownNow(txn[c].key), old)
        /\ txn[c].step = "open"
    BY <1>3 DEF ReadIsLast, Reading
  <2>2. PICK S : snapshot[c] \in [older : Seq(S), emptied : BOOLEAN]
    BY <1>3 DEF ReadIsLast
  <2>3. /\ snapshot'[c] \in [older : Seq(S), emptied : BOOLEAN]
        /\ snapshot'[c].older = snapshot[c].older /\ snapshot'[c].emptied = TRUE
    BY <1>3, <2>2
  <2>4. Older(c)' = Older(c) /\ Found(c)' = Older(c) /\ Missed(c)' = TRUE
    BY <2>1, <2>3 DEF Older, Found, Missed
  <2>5. IsRead(Older(c), TRUE, ShownNow(txn[c].key)', old')
    BY <1>1, <2>1
  <2> QED  BY <2>1, <2>3, <2>4, <2>5 DEF ReadIsLast
<1> QED  BY <1>2, <1>3

LEMMA ExchangeReads ==
    ASSUME ReadsInv, NEW profiles, profiles # NoProfiles, Exchange(profiles)
    PROVE  /\ \A c \in Client : snapshot'[c] = IF snapshot[c] = None THEN None
                                              ELSE [snapshot[c] EXCEPT !.emptied = TRUE]
           /\ DOMAIN snapshot' = Client
BY DEF Exchange

LEMMA TakenReads ==
    ASSUME MapInv, StoreInv, ReadsInv, Exchange(rw), UNCHANGED <<txn, known, old, written>>
    PROVE  ReadsInv'
<1>1. /\ written' \in Nat /\ written <= written' /\ IsProfiles(rw, written')
      /\ NewestFirst(rw, levels) /\ ListsInv
  BY DEF MapInv, LevelsInv, ListsInv, StoreInv
<1>2. \A k : ShownNow(k)' = ShownNow(k)
  BY <1>1, ExchangeLists DEF ShownNow
<1>3. CASE rw = NoProfiles
  <2>1. \A k : Expires(ShownNow(k), ShownNow(k)', old)
    BY <1>2, ExpiresSame
  <2> QED  BY <1>3, <2>1, ReadsKept DEF Exchange
<1>4. CASE rw # NoProfiles
  <2>1. ASSUME NEW c \in Client PROVE ReadIsLast(c)'
    BY <1>2, <1>4, ExchangeReads, ReadEmptied DEF ReadsInv
  <2> QED  BY <1>4, <2>1, ExchangeReads DEF ReadsInv
<1> QED  BY <1>3, <1>4

LEMMA WriteReads ==
    ASSUME MapInv, TransactionInv, StoreInv, ReadsInv, NEW c \in Client, Write(c)
    PROVE  ReadsInv'
<1> DEFINE k == txn[c].key
<1>1. PICK erased \in BOOLEAN :
          /\ Put(k, erased)
          /\ known' = [known EXCEPT ![c] = [entry |-> [ver |-> written + 1, erased |-> erased],
                                            missed |-> FALSE]]
  BY DEF Write
<1>2. /\ txn[c].step = "open" /\ known[c] # None /\ UNCHANGED <<txn, old>>
      /\ k \in Key
  BY <1>1 DEF Write, IsOpen, TransactionInv, ReferencesOpened, Put
<1> DEFINE entry == [ver |-> written + 1, erased |-> erased]
           profiles == [j \in DOMAIN rw \cup {k} |-> IF j = k THEN entry ELSE rw[j]]
<1>3. /\ ShownNow(k)' = entry
      /\ \A j : j # k => ShownNow(j)' = ShownNow(j)
  BY <1>1, <1>2, PutLists DEF StoreInv
<1>4. profiles # NoProfiles
  <2>1. k \in DOMAIN profiles
    OBVIOUS
  <2> QED  BY <2>1, NoProfilesIs
<1>5. \/ rw' = profiles /\ UNCHANGED snapshot
      \/ /\ \A d \in Client : snapshot'[d] = IF snapshot[d] = None THEN None
                                            ELSE [snapshot[d] EXCEPT !.emptied = TRUE]
         /\ DOMAIN snapshot' = Client
  <2>1. Exchange(profiles) \/ (rw' = profiles /\ UNCHANGED snapshot)
    BY <1>1 DEF Put
  <2> QED  BY <1>4, <2>1, ExchangeReads
<1>6. DOMAIN snapshot' = Client /\ DOMAIN known' = Client
  BY <1>1, <1>5 DEF ReadsInv
<1> HIDE DEF entry
<1>7. ReadIsLast(c)'
  <2>1. snapshot[c] = None /\ snapshot'[c] = None
    BY <1>2, <1>5 DEF ReadsInv, ReadIsLast
  <2>2. known'[c].entry = entry
    BY <1>1 DEF ReadsInv, entry
  <2>3. Reading(c)' => Found(c)' = entry
    BY <2>1, <2>2 DEF Reading, Found
  <2>4. ShownNow(txn[c].key)' = entry
    BY <1>2, <1>3 DEF ShownNow
  <2>5. Reading(c)' => IsRead(Found(c)', Missed(c)', ShownNow(txn[c].key)', old')
    BY <2>3, <2>4, ExpiresSame DEF IsRead
  <2> QED  BY <1>2, <2>1, <2>5 DEF ReadIsLast
<1>8. ASSUME NEW d \in Client, d # c PROVE ReadIsLast(d)'
  <2>1. ReadIsLast(d) /\ UNCHANGED <<txn[d], known[d], old>>
    BY <1>1, <1>2, <1>8 DEF ReadsInv
  <2>2. Reading(d) => txn[d].key # k
    <3>1. OneTransactionPerKey
      BY OpenExcludes
    <3> QED  BY <1>2, <1>8, <2>1, <3>1 DEF OneTransactionPerKey, ReadIsLast
  <2>3. \A j : Reading(d) /\ j = txn[d].key => ShownNow(j)' = ShownNow(j)
    BY <1>3, <2>2
  <2>4. CASE rw' = profiles /\ UNCHANGED snapshot
    <3>1. \A j : snapshot[d] # None /\ j = txn[d].key => SameWritable(j)
      BY <2>2, <2>4 DEF Reading, SameWritable
    <3>2. \A j : Reading(d) /\ j = txn[d].key => Expires(ShownNow(j), ShownNow(j)', old)
      BY <2>3, ExpiresSame
    <3> QED  BY <2>1, <2>4, <3>1, <3>2, ReadKept
  <2>5. CASE snapshot'[d] = IF snapshot[d] = None THEN None
                            ELSE [snapshot[d] EXCEPT !.emptied = TRUE]
    BY <2>1, <2>3, <2>5, ReadEmptied
  <2> QED  BY <1>5, <2>4, <2>5
<1> QED  BY <1>6, <1>7, <1>8 DEF ReadsInv

(* The levels hold nothing newer than the writable level.                  *)
LEMMA OlderThanWritable ==
    ASSUME MapInv, StoreInv, NEW k \in DOMAIN rw
    PROVE  Search(Contents(levels), k).ver < rw[k].ver
<1> DEFINE n == Len(levels)
           c == Contents(levels)
<1>1. LevelList(levels, written) /\ IsProfiles(rw, written) /\ NewestFirst(rw, levels)
  BY DEF MapInv, LevelsInv, StoreInv, ListsInv
<1>2. /\ n \in Nat /\ DOMAIN c = 1..n /\ DOMAIN levels = 1..n
      /\ \A i \in 1..n : c[i] = levels[i].profiles
  BY <1>1, ContentsAre
<1> HIDE DEF c, n
<1>3. CASE Absent(c, k)
  <2>1. Search(c, k).ver = 0
    BY <1>3, SearchAbsent DEF Nothing
  <2>2. rw[k].ver \in 1..written /\ written \in Nat
    BY <1>1 DEF IsProfiles, MapInv, LevelsInv
  <2> QED  BY <2>1, <2>2 DEF c
<1>4. ASSUME NEW m \in 1..n, FoundAt(c, k, m) PROVE Search(c, k).ver < rw[k].ver
  <2>1. Search(c, k) = levels[m].profiles[k] /\ k \in DOMAIN levels[m].profiles
    BY <1>2, <1>4, SearchFound DEF FoundAt
  <2> QED  BY <1>1, <1>2, <2>1 DEF NewestFirst, NewerThan
<1> QED  BY <1>2, <1>3, <1>4, FoundOrAbsent DEF c

(* A call of a client: it reads the lists, then searches them, and writes   *)
(* what it makes of the profile.                                           *)
LEMMA ClientReads ==
    ASSUME MapInv, TransactionInv, StoreInv, ReadsInv, NEW c \in Client, ClientNext(c)
    PROVE  ReadsInv'
<1>1. CASE Write(c)
  BY <1>1, WriteReads
<1>2. CASE ReadBegin(c)
  <2>1. /\ txn[c].step = "open" /\ known[c] = None /\ UNCHANGED <<rw, levels, txn, known, old>>
        /\ snapshot' = [snapshot EXCEPT ![c] = [older |-> Contents(levels), emptied |-> FALSE]]
    BY <1>2 DEF ReadBegin, IsOpen, TakeSnapshot, transactions, counters
  <2> DEFINE k == txn[c].key
  <2>2. \A j : ShownNow(j)' = ShownNow(j)
    BY <2>1 DEF ShownNow
  <2>3. ReadIsLast(c)'
    <3>1. snapshot'[c] = [older |-> Contents(levels), emptied |-> FALSE]
      BY <2>1 DEF ReadsInv
    <3>2. \E S : snapshot'[c] \in [older : Seq(S), emptied : BOOLEAN]
      <4>1. PICK S : Contents(levels) \in Seq(S)
        BY ContentsAre DEF MapInv, LevelsInv
      <4> QED  BY <3>1, <4>1
    <3>3. Older(c)' = Search(Contents(levels), k) /\ Found(c)' = ShownNow(k)
      BY <2>1, <3>1 DEF Found, Older, ShownNow, Shown
    <3>4. ShownNow(txn[c].key)' = ShownNow(k)
      BY <2>1 DEF ShownNow
    <3>5. IsRead(Found(c)', Missed(c)', ShownNow(k), old)
      BY <3>3, ExpiresSame DEF IsRead
    <3>6. IsRead(Older(c)', TRUE, ShownNow(k), old)
      <4>1. CASE k \notin DOMAIN rw
        BY <3>3, <4>1, ExpiresSame DEF IsRead, ShownNow, Shown
      <4>2. CASE k \in DOMAIN rw
        BY <3>3, <4>2, OlderThanWritable DEF IsRead, ShownNow, Shown
      <4> QED  BY <4>1, <4>2
    <3> QED  BY <2>1, <3>1, <3>2, <3>4, <3>5, <3>6 DEF ReadIsLast
  <2>4. ASSUME NEW d \in Client, d # c PROVE ReadIsLast(d)'
    <3>1. ReadIsLast(d) /\ UNCHANGED <<txn[d], snapshot[d], known[d], old>>
      BY <2>1, <2>4 DEF ReadsInv
    <3>2. \A j : SameWritable(j) /\ Expires(ShownNow(j), ShownNow(j)', old)
      BY <2>1, <2>2, ExpiresSame DEF SameWritable
    <3> QED  BY <3>1, <3>2, ReadKept
  <2> QED  BY <2>1, <2>3, <2>4 DEF ReadsInv
<1>3. CASE ReadEnd(c)
  <2>1. /\ txn[c].step = "open" /\ snapshot[c] # None /\ UNCHANGED <<rw, levels, txn, old>>
        /\ known' = [known EXCEPT ![c] = [entry |-> SearchSnapshot(c, txn[c].key),
                                          missed |-> snapshot[c].emptied]]
        /\ snapshot' = [snapshot EXCEPT ![c] = None]
    BY <1>3 DEF ReadEnd, IsOpen, DropSnapshot, counters
  <2> DEFINE k == txn[c].key
  <2>2. \A j : ShownNow(j)' = ShownNow(j)
    BY <2>1 DEF ShownNow
  <2>3. ReadIsLast(c)'
    <3>1. SearchSnapshot(c, k) = Found(c)
      <4>1. PICK S : snapshot[c] \in [older : Seq(S), emptied : BOOLEAN]
        BY <2>1 DEF ReadsInv, ReadIsLast
      <4>2. known[c] = None /\ snapshot[c].older \in Seq(S)
        BY <2>1, <4>1 DEF ReadsInv, ReadIsLast
      <4>3. CASE snapshot[c].emptied
        BY <4>2, <4>3 DEF Found, Older, SearchSnapshot
      <4>4. CASE ~snapshot[c].emptied
        <5>1. SearchSnapshot(c, k) = Search(<<rw>> \o snapshot[c].older, k)
          BY <4>4 DEF SearchSnapshot
        <5> QED  BY <4>2, <4>4, <5>1, SearchFront DEF Found, Older
      <4> QED  BY <4>3, <4>4
    <3>2. known'[c] = [entry |-> Found(c), missed |-> Missed(c)] /\ snapshot'[c] = None
      <4>1. known[c] = None
        BY <2>1 DEF ReadsInv, ReadIsLast
      <4> QED  BY <2>1, <3>1, <4>1 DEF ReadsInv, Missed
    <3>3. Reading(c)' => Found(c)' = Found(c) /\ Missed(c)' = Missed(c)
      BY <3>2 DEF Reading, Found, Missed
    <3>4. ShownNow(txn[c].key)' = ShownNow(k)
      BY <2>1 DEF ShownNow
    <3>5. IsRead(Found(c), Missed(c), ShownNow(k), old)
      BY <2>1 DEF ReadsInv, ReadIsLast, Reading
    <3> QED  BY <2>1, <3>2, <3>3, <3>4, <3>5 DEF ReadIsLast
  <2>4. ASSUME NEW d \in Client, d # c PROVE ReadIsLast(d)'
    <3>1. ReadIsLast(d) /\ UNCHANGED <<txn[d], snapshot[d], known[d], old>>
      BY <2>1, <2>4 DEF ReadsInv
    <3>2. \A j : SameWritable(j) /\ Expires(ShownNow(j), ShownNow(j)', old)
      BY <2>1, <2>2, ExpiresSame DEF SameWritable
    <3> QED  BY <3>1, <3>2, ReadKept
  <2> QED  BY <2>1, <2>3, <2>4 DEF ReadsInv
<1>4. CASE GetBackgroundTransaction(c) \/ WaitForRoom(c)
  <2>1. UNCHANGED <<rw, levels, txn, snapshot, known, old>>
    BY <1>4 DEF GetBackgroundTransaction, WaitForRoom, WaitBackground, Wait, transactions, counters
  <2>2. \A j : Expires(ShownNow(j), ShownNow(j)', old)
    BY <2>1, ExpiresSame DEF ShownNow
  <2> QED  BY <2>1, <2>2, ReadsKept
<1>5. CASE GetTransaction(c) \/ EndTransaction(c) \/ Leave(c)
  <2>1. /\ UNCHANGED <<rw, levels, snapshot, old>> /\ DOMAIN known' = Client
        /\ \A d \in Client : d # c => UNCHANGED <<txn[d], known[d]>>
    <3>1. CASE GetTransaction(c)
      BY <3>1 DEF GetTransaction, OpenNew, Join, levelVars, ReadsInv, TransactionInv, TransactionType
    <3>2. CASE EndTransaction(c)
      BY <3>2 DEF EndTransaction, Close, levelVars, ReadsInv, TransactionInv, TransactionType
    <3>3. CASE Leave(c)
      BY <3>3 DEF Leave, Lock, Unlock, Release, levelVars, ReadsInv, TransactionInv, TransactionType
    <3> QED  BY <1>5, <3>1, <3>2, <3>3
  <2>2. snapshot[c] = None /\ known'[c] = None
    <3>1. CASE GetTransaction(c)
      BY <3>1, NotOpenReads DEF GetTransaction, ReadsInv, Reading
    <3>2. CASE EndTransaction(c)
      BY <3>2 DEF EndTransaction, ReadsInv, ReadIsLast
    <3>3. CASE Leave(c)
      BY <3>3, NotOpenReads DEF Leave, Lock, Unlock, Release, ReadsInv, Reading
    <3> QED  BY <1>5, <3>1, <3>2, <3>3
  <2>3. ReadIsLast(c)'
    BY <2>1, <2>2 DEF ReadIsLast, Reading
  <2>4. ASSUME NEW d \in Client, d # c PROVE ReadIsLast(d)'
    <3>1. ReadIsLast(d) /\ UNCHANGED <<txn[d], snapshot[d], known[d], old>>
      BY <2>1, <2>4 DEF ReadsInv
    <3>2. \A j : SameWritable(j) /\ Expires(ShownNow(j), ShownNow(j)', old)
      BY <2>1, ExpiresSame DEF SameWritable, ShownNow
    <3> QED  BY <3>1, <3>2, ReadKept
  <2> QED  BY <2>1, <2>3, <2>4 DEF ReadsInv
<1> QED  BY <1>1, <1>2, <1>3, <1>4, <1>5 DEF ClientNext

LEMMA TaskReads ==
    ASSUME MapInv, MapInv', StoreInv, ReadsInv, TaskNext
    PROVE  ReadsInv'
<1>1. rw' = rw /\ UNCHANGED <<txn, known>>
  BY TaskKeepsStatus DEF TaskNext, transactions, StoreInv
<1>2. CASE QuietTask
  <2>1. UNCHANGED <<levels, snapshot, old>>
    BY <1>2, QuietTasks
  <2>2. \A j : Expires(ShownNow(j), ShownNow(j)', old)
    BY <1>1, <2>1, ExpiresSame DEF ShownNow
  <2> QED  BY <1>1, <2>1, <2>2, ReadsKept
<1>3. CASE SwapMerged
  <2>1. UNCHANGED <<snapshot, old>>
    BY <1>3 DEF SwapMerged, counters
  <2>2. \A j : Expires(ShownNow(j), ShownNow(j)', old)
    BY <1>3, SwapMergedLists DEF StoreInv
  <2> QED  BY <1>1, <2>1, <2>2, ReadsKept
<1>4. ASSUME NEW task \in dumps, WriteLevel(task) \/ SwapLevel(task)
      PROVE  ReadsInv'
  <2>1. UNCHANGED <<snapshot, old>>
    BY <1>4 DEF WriteLevel, SwapLevel, counters
  <2>2. \A j : Expires(ShownNow(j), ShownNow(j)', old)
    BY <1>4, WriteLevelLists, SwapLevelLists, ExpiresSame DEF StoreInv
  <2> QED  BY <1>1, <2>1, <2>2, ReadsKept
<1> QED  BY <1>2, <1>3, <1>4, TasksAre

LEMMA ProcessReads ==
    ASSUME MapInv, StoreInv, ReadsInv, ProcessNext, ~TornMap'
    PROVE  ReadsInv'
<1>1. CASE (Deactivate \/ WaitObject) /\ UNCHANGED transactions
  <2>1. Exchange(rw) /\ UNCHANGED <<txn, known, old, written>>
    BY <1>1 DEF Deactivate, WaitObject, counters, transactions
  <2> QED  BY <2>1, TakenReads
<1>2. CASE (Start \/ AllDumped) /\ UNCHANGED transactions
  <2>1. UNCHANGED <<rw, levels, txn, snapshot, known, old>>
    BY <1>2 DEF Start, AllDumped, counters, transactions
  <2>2. \A j : Expires(ShownNow(j), ShownNow(j)', old)
    BY <2>1, ExpiresSame DEF ShownNow
  <2> QED  BY <2>1, <2>2, ReadsKept
<1>3. CASE GrowOld /\ UNCHANGED transactions
  <2>1. UNCHANGED <<rw, levels, txn, snapshot, known>> /\ old \in Nat /\ old' = old + 1
    BY <1>3 DEF GrowOld, transactions, MapInv, LevelsInv
  <2>2. ASSUME NEW c \in Client PROVE ReadIsLast(c)'
    <3>1. /\ ReadIsLast(c) /\ (Reading(c)' <=> Reading(c))
          /\ Older(c)' = Older(c) /\ Found(c)' = Found(c) /\ Missed(c)' = Missed(c)
          /\ ShownNow(txn[c].key)' = ShownNow(txn[c].key)
      BY <2>1 DEF ReadsInv, Reading, Older, Found, Missed, ShownNow
    <3>2. ASSUME NEW entry, NEW missed, IsRead(entry, missed, ShownNow(txn[c].key), old)
          PROVE  IsRead(entry, missed, ShownNow(txn[c].key), old')
      <4>1. CASE Expires(entry, ShownNow(txn[c].key), old)
        <5>1. ShownNow(txn[c].key).ver \in Nat
          <6>1. ShownNow(txn[c].key).ver \in 0..written /\ written \in Nat
            BY ShownBound DEF MapInv, LevelsInv
          <6> QED  BY <6>1
        <5>2. entry.ver \in Int
          BY <4>1, <5>1 DEF Expires
        <5>3. old \in Int /\ old' \in Int /\ old <= old'
          BY <2>1
        <5> QED  BY <4>1, <5>2, <5>3, ExpiresLater DEF IsRead
      <4> QED  BY <3>2, <4>1 DEF IsRead
    <3>3. snapshot[c] # None => IsRead(Older(c), TRUE, ShownNow(txn[c].key), old')
      BY <3>1, <3>2 DEF ReadIsLast
    <3>4. Reading(c) => IsRead(Found(c), Missed(c), ShownNow(txn[c].key), old')
      BY <3>1, <3>2 DEF ReadIsLast
    <3> QED  BY <2>1, <3>1, <3>3, <3>4 DEF ReadIsLast
  <2> QED  BY <2>1, <2>2 DEF ReadsInv
<1>4. CASE AllMerged /\ UNCHANGED transactions
  <2>1. status = "merging" /\ UNCHANGED <<snapshot, known, old, txn>>
    BY <1>4 DEF AllMerged, counters, transactions
  <2>2. ASSUME NEW c \in Client PROVE ~Reading(c)
    <3>1. txn[c].step # "open"
      BY <2>1 DEF StoreInv, StatusInv, Outside
    <3> QED  BY <3>1, NotOpenReads DEF ReadsInv
  <2>3. ASSUME NEW c \in Client PROVE ReadIsLast(c)'
    BY <2>1, <2>2 DEF ReadIsLast, Reading
  <2> QED  BY <2>1, <2>3 DEF ReadsInv
<1>5. CASE Crash /\ ForgetTransactions
  <2>1. snapshot' = [c \in Client |-> None] /\ known' = [c \in Client |-> None]
    BY <1>5 DEF Crash, ForgetTransactions
  <2> QED  BY <2>1 DEF ReadsInv, ReadIsLast, Reading
<1>6. ~StartAmongRemoved
  BY DEF StartAmongRemoved, TornMap
<1> QED  BY <1>1, <1>2, <1>3, <1>4, <1>5, <1>6 DEF ProcessNext, Finish

LEMMA StepKeepsReads ==
    ASSUME MapInv, MapInv', TransactionInv, StoreInv, ReadsInv, [Next]_vars, ~TornMap'
    PROVE  ReadsInv'
<1>1. CASE UNCHANGED vars
  <2>1. UNCHANGED <<rw, levels, txn, snapshot, known, old>>
    BY <1>1 DEF vars, levelVars, transactions
  <2>2. \A j : Expires(ShownNow(j), ShownNow(j)', old)
    BY <2>1, ExpiresSame DEF ShownNow
  <2> QED  BY <2>1, <2>2, ReadsKept
<1> QED  BY <1>1, ClientReads, TaskReads, ProcessReads DEF Next

LEMMA InitReads == Init => ReadsInv
BY DEF Init, LevelInit, ReadsInv, ReadIsLast, Reading

LEMMA ReadsAreLast ==
    ASSUME MapInv, TransactionInv, ReadsInv
    PROVE  TransactionReadsLast
<1> SUFFICES ASSUME NEW c \in Client, txn[c].step = "open", known[c] # None
             PROVE  LET shown == Visible[txn[c].key]
                    IN  \/ Store!SameOrExpired(known[c].entry, shown)
                        \/ known[c].missed /\ known[c].entry.ver < shown.ver
  BY DEF TransactionReadsLast
<1>1. IsRead(known[c].entry, known[c].missed, ShownNow(txn[c].key), old)
  BY DEF ReadsInv, ReadIsLast, Reading, Found, Missed
<1>2. txn[c].key \in Key
  BY DEF TransactionInv, ReferencesOpened
<1>3. Visible[txn[c].key] = ShownNow(txn[c].key)
  BY <1>2, VisibleIs
<1> QED  BY <1>1, <1>3, ExpiresIs DEF IsRead

(* What a transaction has read is what its key shows until it closes,       *)
(* whatever other transactions write and whatever is dumped and merged: no  *)
(* profile is made from an older one than the last, except from a read that *)
(* a level was put in front of between its halves; and that has found what  *)
(* was there before, nothing else.  A stop is to find no call in progress.  *)
THEOREM TransactionsReadLast ==
    Spec /\ [][StopFindsNoCall]_vars => []TransactionReadsLast
<1> DEFINE Inv == (StoreMapInv /\ ReadsInv) \/ Torn
<1>1. Init => Inv
  BY InitStore, InitReads
<1>2. Inv /\ [Next]_vars /\ [StopFindsNoCall]_vars => Inv'
  <2>1. ASSUME StoreMapInv, ReadsInv, [Next]_vars, [StopFindsNoCall]_vars, ~Torn'
        PROVE  StoreMapInv' /\ ReadsInv'
    <3>1. StoreMapInv'
      BY <2>1, StepKeepsStoreMap
    <3>2. ~TornMap'
      BY <3>1 DEF StoreMapInv, StoreInv, StatusInv, TornMap
    <3> QED  BY <2>1, <3>1, <3>2, StepKeepsReads DEF StoreMapInv
  <2> QED  BY <2>1, TornRests
<1>3. Inv => TransactionReadsLast
  <2>1. ASSUME Torn PROVE TransactionReadsLast
    BY <2>1 DEF Torn, TransactionReadsLast, Outside
  <2> QED  BY <2>1, ReadsAreLast DEF StoreMapInv
<1> HIDE DEF Inv
<1> QED  BY <1>1, <1>2, <1>3, PTL DEF Spec
=============================================================================
